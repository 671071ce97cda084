----------------------------- MODULE RailProofs -----------------------------
(***************************************************************************)
(* What the two payment rails promise, for any payments, commands, amounts  *)
(* and order of delivery.                                                   *)
(*                                                                          *)
(* Why the rails keep their promises: an entity that is stored is valid,    *)
(* and its history is the payment's part of the log (RailInv).  A ledger    *)
(* that takes a posting moves exactly its legs, and by the tables these are *)
(* what distinguishes the position of the state that is left from that of   *)
(* the state that is entered, so that the sum over the payments moves by    *)
(* the term of one of them (MoneyInv).  A valid entity is determined by its *)
(* commitment, so that one rewritten field is noticed (OwnerInv).  And the  *)
(* oracle, shown the log, makes one transfer for each event, which is what  *)
(* the ledger posted for it, and sees each payment live through one of the  *)
(* histories that the tables allow its state (OracleInv).                   *)
(***************************************************************************)
EXTENDS RailOracle, Foundations
-----------------------------------------------------------------------------
(* The positions of the events that move value, and of those of a payment. *)
Moving(lg)  == {i \in DOMAIN lg : lg[i].effect # NoEffect}
Mine(lg, p) == {i \in DOMAIN lg : lg[i].payment = p}

Entered(lg, booked) ==
    /\ Len(booked) = Cardinality(Moving(lg))
    /\ \A i \in Moving(lg) :
          booked[Place(Moving(lg), i)].id = <<lg[i].event, lg[i].effect>>

Kept(lg, p, kept) ==
    /\ Len(kept) = Cardinality(Mine(lg, p))
    /\ \A i \in Mine(lg, p) :
          /\ kept[Place(Mine(lg, p), i)].event = lg[i].event
          /\ kept[Place(Mine(lg, p), i)].op = lg[i].op
          /\ lg[i].previous = IF Place(Mine(lg, p), i) = 1 THEN NoId
                              ELSE kept[Place(Mine(lg, p), i) - 1].event

LEMMA QuietEvent ==
    ASSUME NEW lg, IsSequence(lg), NEW event, NEW booked, event.effect = NoEffect,
           Entered(lg, booked)
    PROVE  Entered(Append(lg, event), booked)
<1> DEFINE n == Len(lg)
           longer == Append(lg, event)
<1>1. /\ n \in Nat /\ DOMAIN lg = 1..n /\ DOMAIN longer = 1..(n + 1)
      /\ longer[n + 1] = event /\ \A i \in 1..n : longer[i] = lg[i]
  BY Extended
<1> HIDE DEF n, longer
<1>2. Moving(longer) = Moving(lg) /\ \A i \in Moving(lg) : longer[i] = lg[i]
  BY <1>1 DEF Moving
<1> QED  BY <1>2 DEF Entered, longer

LEMMA MovingEvent ==
    ASSUME NEW lg, IsSequence(lg), NEW event, NEW booked, IsSequence(booked), NEW entry,
           event.effect # NoEffect, entry.id = <<event.event, event.effect>>,
           Entered(lg, booked)
    PROVE  Entered(Append(lg, event), Append(booked, entry))
<1> DEFINE n == Len(lg)
           longer == Append(lg, event)
           more == Append(booked, entry)
           M == Moving(lg)
<1>1. /\ n \in Nat /\ DOMAIN lg = 1..n /\ DOMAIN longer = 1..(n + 1)
      /\ longer[n + 1] = event /\ \A i \in 1..n : longer[i] = lg[i]
  BY Extended
<1>2. /\ Len(more) = Len(booked) + 1 /\ more[Len(booked) + 1] = entry
      /\ \A i \in 1..Len(booked) : more[i] = booked[i]
  BY Extended
<1> HIDE DEF n, longer, more
<1>3. M \subseteq 1..n /\ Moving(longer) = M \cup {n + 1}
  BY <1>1 DEF Moving
<1>4. /\ Cardinality(M \cup {n + 1}) = Cardinality(M) + 1
      /\ Place(M \cup {n + 1}, n + 1) = Cardinality(M) + 1
      /\ \A i \in M : Place(M \cup {n + 1}, i) = Place(M, i) /\ Place(M, i) \in 1..Cardinality(M)
  BY <1>1, <1>3, NextPlace
<1>5. /\ Len(booked) = Cardinality(M)
      /\ \A i \in M : booked[Place(M, i)].id = <<lg[i].event, lg[i].effect>>
  BY DEF Entered
<1> HIDE DEF M
<1>6. ASSUME NEW i \in M \cup {n + 1}
      PROVE  more[Place(M \cup {n + 1}, i)].id = <<longer[i].event, longer[i].effect>>
  <2>1. CASE i \in M
    <3>1. longer[i] = lg[i] /\ more[Place(M \cup {n + 1}, i)] = booked[Place(M, i)]
      BY <1>1, <1>2, <1>3, <1>4, <1>5, <2>1
    <3> QED  BY <1>5, <2>1, <3>1
  <2>2. CASE i = n + 1
    BY <1>1, <1>2, <1>4, <1>5, <2>2
  <2> QED  BY <2>1, <2>2
<1> QED  BY <1>2, <1>3, <1>4, <1>5, <1>6 DEF Entered, longer, more

LEMMA OthersEvent ==
    ASSUME NEW lg, IsSequence(lg), NEW event, NEW p, NEW kept, event.payment # p,
           Kept(lg, p, kept)
    PROVE  Kept(Append(lg, event), p, kept)
<1> DEFINE n == Len(lg)
           longer == Append(lg, event)
<1>1. /\ n \in Nat /\ DOMAIN lg = 1..n /\ DOMAIN longer = 1..(n + 1)
      /\ longer[n + 1] = event /\ \A i \in 1..n : longer[i] = lg[i]
  BY Extended
<1> HIDE DEF n, longer
<1>2. Mine(longer, p) = Mine(lg, p) /\ \A i \in Mine(lg, p) : longer[i] = lg[i]
  BY <1>1 DEF Mine
<1> QED  BY <1>2 DEF Kept, longer

LEMMA OwnEvent ==
    ASSUME NEW lg, IsSequence(lg), NEW event, NEW p, NEW kept, IsSequence(kept), NEW record,
           event.payment = p, record.event = event.event, record.op = event.op,
           event.previous = IF Len(kept) = 0 THEN NoId ELSE kept[Len(kept)].event,
           Kept(lg, p, kept)
    PROVE  Kept(Append(lg, event), p, Append(kept, record))
<1> DEFINE n == Len(lg)
           longer == Append(lg, event)
           m == Len(kept)
           more == Append(kept, record)
           M == Mine(lg, p)
           Q == Mine(longer, p)
<1>1. /\ n \in Nat /\ DOMAIN lg = 1..n /\ DOMAIN longer = 1..(n + 1)
      /\ longer[n + 1] = event /\ \A i \in 1..n : longer[i] = lg[i]
  BY Extended
<1>2. /\ m \in Nat /\ Len(more) = m + 1 /\ more[m + 1] = record
      /\ \A i \in 1..m : more[i] = kept[i]
  BY Extended
<1>3. event.previous = IF m = 0 THEN NoId ELSE kept[m].event
  OBVIOUS
<1> HIDE DEF n, longer, m, more
<1>4. M \subseteq 1..n /\ Q = M \cup {n + 1}
  BY <1>1 DEF Mine
<1> HIDE DEF Q
<1>5. /\ Cardinality(Q) = Cardinality(M) + 1
      /\ Place(Q, n + 1) = Cardinality(M) + 1
      /\ \A i \in M : Place(Q, i) = Place(M, i) /\ Place(M, i) \in 1..Cardinality(M)
  <2>1. /\ Cardinality(M \cup {n + 1}) = Cardinality(M) + 1
        /\ Place(M \cup {n + 1}, n + 1) = Cardinality(M) + 1
        /\ \A i \in M : /\ Place(M \cup {n + 1}, i) = Place(M, i)
                        /\ Place(M, i) \in 1..Cardinality(M)
    BY <1>1, <1>4, NextPlace
  <2> QED  BY <1>4, <2>1
<1>6. /\ m = Cardinality(M)
      /\ \A i \in M :
            /\ kept[Place(M, i)].event = lg[i].event
            /\ kept[Place(M, i)].op = lg[i].op
            /\ lg[i].previous = IF Place(M, i) = 1 THEN NoId ELSE kept[Place(M, i) - 1].event
  BY DEF Kept, m
<1> HIDE DEF M
<1>7. ASSUME NEW i \in Q
      PROVE  /\ more[Place(Q, i)].event = longer[i].event
             /\ more[Place(Q, i)].op = longer[i].op
             /\ longer[i].previous = IF Place(Q, i) = 1 THEN NoId
                                     ELSE more[Place(Q, i) - 1].event
  <2>1. CASE i \in M
    <3>1. PICK k \in 1..m : k = Place(M, i) /\ k = Place(Q, i)
      BY <1>5, <1>6, <2>1
    <3>2. longer[i] = lg[i] /\ more[k] = kept[k]
      BY <1>1, <1>2, <1>4, <2>1
    <3>3. k # 1 => more[k - 1] = kept[k - 1]
      BY <1>2, <3>1
    <3>4. /\ kept[k].event = lg[i].event /\ kept[k].op = lg[i].op
          /\ lg[i].previous = IF k = 1 THEN NoId ELSE kept[k - 1].event
      BY <1>6, <2>1, <3>1
    <3>5. /\ more[k].event = longer[i].event /\ more[k].op = longer[i].op
          /\ longer[i].previous = IF k = 1 THEN NoId ELSE more[k - 1].event
      BY <3>2, <3>3, <3>4
    <3> QED  BY <3>1, <3>5
  <2>2. CASE i = n + 1
    <3>1. Place(Q, i) = m + 1
      BY <1>5, <1>6, <2>2
    <3>2. more[m + 1].event = longer[i].event /\ more[m + 1].op = longer[i].op
      BY <1>1, <1>2, <2>2
    <3>3. longer[i].previous = IF m + 1 = 1 THEN NoId ELSE more[(m + 1) - 1].event
      BY <1>1, <1>2, <1>3, <2>2
    <3> QED  BY <3>1, <3>2, <3>3
  <2> QED  BY <1>4, <2>1, <2>2
<1>8. Len(more) = Cardinality(Q)
  BY <1>2, <1>4, <1>5, <1>6
<1>9. Kept(longer, p, more)
  BY <1>7, <1>8 DEF Kept, Q
<1> QED  BY <1>9 DEF longer, more

-----------------------------------------------------------------------------
(* An entity: its fields, and its history in sequence form. *)
IsEntity(e) ==
    /\ e = [payment |-> e.payment, state |-> e.state, terms |-> e.terms, last |-> e.last,
            commitment |-> e.commitment, records |-> e.records]
    /\ IsSequence(e.records)
    /\ e.terms # NoTerms

(* "No such entity" is not an entity. *)
MissingIsNoEntity ==
    \A p, state, terms, last, commitment, records :
        [payment |-> p, state |-> state, terms |-> terms, last |-> last,
         commitment |-> commitment, records |-> records] # Missing

RecordsOf(e) == IF e = Missing THEN <<>> ELSE e.records

Whole(e, p) == e # Missing => IsEntity(e) /\ Valid(e, p)

RailInv ==
    /\ setUp \in SetUps
    /\ entity = [p \in Payments |-> entity[p]]
    /\ IsSequence(log) /\ IsSequence(entries)
    /\ Entered(log, entries)
    /\ \A p \in Payments \ tampered :
          Whole(entity[p], p) /\ Kept(log, p, RecordsOf(entity[p]))

LEMMA InvTellsOneStory == RailInv => OneStory
  BY DEF RailInv, OneStory, LedgerMatchesLog, HistoryMatchesLog, Entered, Kept, Moving, Mine,
         RecordsOf

LEMMA RailStarts ==
    ASSUME Init
    PROVE  RailInv
<1>1. Moving(<<>>) = {} /\ \A p : Mine(<<>>, p) = {}
  BY DEF Moving, Mine
<1>2. Cardinality({}) = 0 /\ Len(<<>>) = 0
  BY FS_EmptySet
<1>3. Entered(<<>>, <<>>) /\ \A p : Kept(<<>>, p, <<>>)
  BY <1>1, <1>2 DEF Entered, Kept
<1> QED  BY <1>3, EmptyIsSequence DEF Init, RailInv, Whole, RecordsOf

(* What Valid says does not depend on the state beyond the engine explored. *)
LEMMA ValidStays ==
    ASSUME NEW e, NEW p, setUp' = setUp, Valid(e, p)
    PROVE  Valid(e, p)'
<1>1. rail' = rail
  BY DEF rail
<1>2. Transitions' = Transitions /\ Openers' = Openers
  BY <1>1 DEF Transitions, Openers
<1>3. Operations' = Operations
  BY <1>2 DEF Operations
<1>4. TermsOK(e.terms)' <=> TermsOK(e.terms)
  BY <1>1 DEF TermsOK
<1>5. Replay(e.records)' = Replay(e.records)
  BY <1>2 DEF Replay, Legal
<1>6. \A i : RecordFingerprint(p, e.records[i], e.terms)' = RecordFingerprint(p, e.records[i], e.terms)
  BY <1>2 DEF RecordFingerprint
<1> HIDE DEF Transitions, Openers
<1> QED  BY <1>2, <1>3, <1>4, <1>5, <1>6 DEF Valid

-----------------------------------------------------------------------------
(* What a handled command does to the entity it loads. *)
LEMMA UpdatedEntity ==
    ASSUME NEW e, IsEntity(e), NEW cmd
    PROVE  /\ IsEntity(Updated(e, cmd))
           /\ \E record : /\ Updated(e, cmd).records = Append(e.records, record)
                          /\ record.event = uuids /\ record.op = cmd.op
           /\ MissingIsNoEntity => Updated(e, cmd) # Missing
<1> DEFINE record == [key |-> cmd.key, op |-> cmd.op, fingerprint |-> Fingerprint(cmd),
                      event |-> uuids, commitment |-> <<>>]
           sealed == [record EXCEPT !.commitment = Commitment(e.commitment, e.payment, record)]
           next == Transitions[<<e.state, cmd.op>>].state
<1>1. sealed.event = uuids /\ sealed.op = cmd.op
  OBVIOUS
<1>2. Updated(e, cmd) = [e EXCEPT !.state = next, !.last = uuids,
                                  !.commitment = sealed.commitment,
                                  !.records = Append(@, sealed)]
  BY DEF Updated
<1> HIDE DEF record, sealed, next
<1>3. Updated(e, cmd) = [payment |-> e.payment, state |-> next, terms |-> e.terms,
                         last |-> uuids, commitment |-> sealed.commitment,
                         records |-> Append(e.records, sealed)]
  <2>1. e = [payment |-> e.payment, state |-> e.state, terms |-> e.terms, last |-> e.last,
             commitment |-> e.commitment, records |-> e.records]
    BY DEF IsEntity
  <2> QED  BY <1>2, <2>1
<1>4. IsSequence(Append(e.records, sealed))
  BY Extended DEF IsEntity
<1>5. IsEntity(Updated(e, cmd))
  BY <1>3, <1>4 DEF IsEntity
<1>6. Updated(e, cmd).records = Append(e.records, sealed)
  BY <1>3
<1>7. MissingIsNoEntity => Updated(e, cmd) # Missing
  BY <1>3, Zenon DEF MissingIsNoEntity
<1> QED  BY <1>1, <1>5, <1>6, <1>7

(* What the handler loads is whole, if the stored entity is. *)
LEMMA LoadedEntity ==
    ASSUME NEW cmd, Loads(cmd), Whole(entity[cmd.payment], cmd.payment)
    PROVE  /\ IsEntity(Loaded(cmd))
           /\ Loaded(cmd).records = RecordsOf(entity[cmd.payment])
           /\ Loaded(cmd).last = IF Len(Loaded(cmd).records) = 0 THEN NoId
                                 ELSE Loaded(cmd).records[Len(Loaded(cmd).records)].event
<1>1. IsEntity(Loaded(cmd)) /\ Loaded(cmd).records = RecordsOf(entity[cmd.payment])
  <2>1. CASE entity[cmd.payment] = Missing
    <3>1. cmd.terms # NoTerms
      BY <2>1 DEF Loads, Canonical
    <3> QED  BY <2>1, <3>1, EmptyIsSequence DEF Loaded, OpeningEntity, IsEntity, RecordsOf
  <2>2. CASE entity[cmd.payment] # Missing
    BY <2>2 DEF Whole, Loaded, RecordsOf
  <2> QED  BY <2>1, <2>2
<1>2. Valid(Loaded(cmd), cmd.payment)
  BY DEF Loads
<1> QED  BY <1>1, <1>2 DEF Valid

LEMMA AdvanceKeeps ==
    ASSUME MissingIsNoEntity, RailInv, NEW cmd, HandleAdvance(cmd), setUp' = setUp
    PROVE  RailInv'
<1> DEFINE event == [payment |-> cmd.payment, op |-> cmd.op, effect |-> Effect(cmd),
                     event |-> uuids, previous |-> Loaded(cmd).last]
           entry == Entry(Effect(cmd), Loaded(cmd).terms, uuids)
<1>1. log' = Append(log, event) /\ tampered' = tampered
  BY DEF HandleAdvance
<1>2. event.payment = cmd.payment /\ event.op = cmd.op /\ event.effect = Effect(cmd)
      /\ event.event = uuids /\ event.previous = Loaded(cmd).last
  OBVIOUS
<1>3. IsSequence(entries') /\ Entered(log', entries')
  <2>1. CASE Effect(cmd) = NoEffect
    <3>1. entries' = entries
      BY <2>1 DEF HandleAdvance, ledgerVars
    <3> HIDE DEF event
    <3> QED  BY <1>1, <1>2, <2>1, <3>1, QuietEvent DEF RailInv
  <2>2. CASE Effect(cmd) # NoEffect
    <3>1. entries' = Append(entries, L!Normalized(entry))
      BY <2>2 DEF HandleAdvance, L!Post
    <3>2. L!Normalized(entry).id = <<uuids, Effect(cmd)>>
      BY DEF L!Normalized, Entry
    <3> HIDE DEF event, entry
    <3> QED  BY <1>1, <1>2, <2>2, <3>1, <3>2, MovingEvent, Extended DEF RailInv
  <2> QED  BY <2>1, <2>2
<1> HIDE DEF event, entry
<1>4. Payments' = Payments
  BY DEF Payments
<1>5. /\ entity' = [entity EXCEPT ![cmd.payment] = Updated(Loaded(cmd), cmd)]
      /\ entity = [p \in Payments |-> entity[p]]
  BY DEF HandleAdvance, RailInv
<1>6. entity' = [p \in Payments' |-> entity'[p]]
  BY <1>4, <1>5
<1>7. ASSUME NEW p \in Payments \ tampered
      PROVE  Whole(entity[p], p)' /\ Kept(log, p, RecordsOf(entity[p]))'
  <2>1. Whole(entity[p], p) /\ Kept(log, p, RecordsOf(entity[p])) /\ IsSequence(log)
    BY DEF RailInv
  <2>2. CASE p # cmd.payment
    <3>1. entity'[p] = entity[p]
      BY <1>5, <2>2
    <3>2. Whole(entity[p], p)'
      <4>1. PICK e : e = entity[p]
        OBVIOUS
      <4>2. e # Missing => IsEntity(e) /\ Valid(e, p)
        BY <2>1, <4>1 DEF Whole
      <4>3. e # Missing => Valid(e, p)'
        BY <4>2, ValidStays
      <4>4. entity'[p] = e
        BY <3>1, <4>1
      <4> QED  BY <4>2, <4>3, <4>4 DEF Whole
    <3>3. Kept(log', p, RecordsOf(entity[p]))
      BY <1>1, <1>2, <2>1, <2>2, OthersEvent
    <3> QED  BY <3>1, <3>2, <3>3
  <2>3. CASE p = cmd.payment
    <3>1. entity'[p] = Updated(Loaded(cmd), cmd)
      BY <1>5, <2>3
    <3>2. Loads(cmd) /\ Valid(Updated(Loaded(cmd), cmd), cmd.payment)
      BY DEF HandleAdvance, Advances
    <3>3. /\ IsEntity(Loaded(cmd))
          /\ Loaded(cmd).records = RecordsOf(entity[p])
          /\ Loaded(cmd).last = IF Len(Loaded(cmd).records) = 0 THEN NoId
                                ELSE Loaded(cmd).records[Len(Loaded(cmd).records)].event
      BY <2>1, <2>3, <3>2, LoadedEntity
    <3>4. /\ IsEntity(Updated(Loaded(cmd), cmd)) /\ Updated(Loaded(cmd), cmd) # Missing
          /\ \E record : /\ Updated(Loaded(cmd), cmd).records = Append(Loaded(cmd).records, record)
                         /\ record.event = uuids /\ record.op = cmd.op
      BY <3>3, UpdatedEntity
    <3>5. Whole(entity[p], p)'
      <4>1. PICK e : e = Updated(Loaded(cmd), cmd)
        OBVIOUS
      <4>2. IsEntity(e) /\ Valid(e, p)
        BY <2>3, <3>2, <3>4, <4>1
      <4>3. Valid(e, p)'
        BY <4>2, ValidStays
      <4>4. entity'[p] = e
        BY <3>1, <4>1
      <4> QED  BY <4>2, <4>3, <4>4 DEF Whole
    <3>6. PICK record : /\ Updated(Loaded(cmd), cmd).records = Append(Loaded(cmd).records, record)
                        /\ record.event = uuids /\ record.op = cmd.op
      BY <3>4
    <3>7. IsSequence(Loaded(cmd).records)
      BY <3>3 DEF IsEntity
    <3>8. Kept(Append(log, event), p, Append(Loaded(cmd).records, record))
      BY <1>2, <2>1, <2>3, <3>3, <3>6, <3>7, OwnEvent
    <3>9. RecordsOf(entity'[p]) = Append(Loaded(cmd).records, record)
      BY <3>1, <3>4, <3>6 DEF RecordsOf
    <3> QED  BY <1>1, <3>5, <3>8, <3>9
  <2> QED  BY <2>2, <2>3
<1>8. IsSequence(log')
  BY <1>1, Extended DEF RailInv
<1> QED  BY <1>1, <1>3, <1>4, <1>6, <1>7, <1>8 DEF RailInv

(* What leaves the entities of other payments, the log and the ledger alone. *)
LEMMA OthersKeep ==
    ASSUME RailInv, setUp' = setUp, UNCHANGED <<log, entries>>,
           entity' = [q \in Payments |-> entity'[q]],
           \A p \in Payments \ tampered' : p \notin tampered /\ entity'[p] = entity[p]
    PROVE  RailInv'
<1>1. Payments' = Payments
  BY DEF Payments
<1>2. ASSUME NEW p \in Payments \ tampered'
      PROVE  Whole(entity[p], p)' /\ Kept(log, p, RecordsOf(entity[p]))'
  <2>1. Whole(entity[p], p) /\ Kept(log, p, RecordsOf(entity[p])) /\ entity'[p] = entity[p]
    BY DEF RailInv
  <2>2. PICK e : e = entity[p]
    OBVIOUS
  <2>3. e # Missing => IsEntity(e) /\ Valid(e, p)
    BY <2>1, <2>2 DEF Whole
  <2>4. e # Missing => Valid(e, p)'
    BY <2>3, ValidStays
  <2>5. entity'[p] = e
    BY <2>1, <2>2
  <2> QED  BY <2>1, <2>3, <2>4, <2>5 DEF Whole
<1> QED  BY <1>1, <1>2 DEF RailInv

LEMMA RailKeeps ==
    ASSUME MissingIsNoEntity, RailInv, [Next]_vars
    PROVE  RailInv'
<1>1. CASE UNCHANGED vars
  BY <1>1, OthersKeep DEF vars, ledgerVars, RailInv
<1>2. ASSUME NEW cmd \in Commands, UNCHANGED setUp,
             HandleRetry(cmd) \/ HandleAdvance(cmd) \/ HandleUnfunded(cmd) \/ HandleIllegal(cmd)
      PROVE  RailInv'
  <2>1. CASE HandleAdvance(cmd)
    BY <1>2, <2>1, AdvanceKeeps
  <2>2. CASE HandleRetry(cmd) \/ HandleUnfunded(cmd) \/ HandleIllegal(cmd)
    <3>1. UNCHANGED <<entity, tampered, log, entries>>
      BY <2>2 DEF HandleRetry, HandleUnfunded, HandleIllegal, vars, ledgerVars
    <3> QED  BY <1>2, <3>1, OthersKeep DEF RailInv
  <2> QED  BY <1>2, <2>1, <2>2
<1>3. ASSUME NEW p \in Payments, UNCHANGED setUp, Tamper(p)
      PROVE  RailInv'
  <2>1. PICK e : entity' = [entity EXCEPT ![p] = e]
    BY <1>3 DEF Tamper
  <2>2. UNCHANGED <<log, entries>> /\ tampered = {} /\ tampered' = {p}
    BY <1>3 DEF Tamper, ledgerVars
  <2>3. entity = [q \in Payments |-> entity[q]]
    BY DEF RailInv
  <2> QED  BY <1>3, <2>1, <2>2, <2>3, OthersKeep
<1> QED  BY <1>1, <1>2, <1>3 DEF Next

(* A record of a whole entity is that of a request which the constructor
   accepts again, so that the request is recognised. *)
LEMMA InvRetriesHarmless == RailInv => RetriesHarmless
<1> SUFFICES ASSUME RailInv, NEW cmd \in Commands, entity[cmd.payment] # Missing,
                    cmd.payment \notin tampered, Retry(entity[cmd.payment], cmd)
             PROVE  IsNoOp(cmd)
  BY DEF RetriesHarmless
<1> DEFINE e == entity[cmd.payment]
<1>1. cmd.payment \in Payments
  BY SetUpsTyped DEF RailInv, Commands, Payments
<1>2. IsEntity(e) /\ Valid(e, cmd.payment)
  BY <1>1 DEF RailInv, Whole
<1>3. Loaded(cmd) = e
  BY DEF Loaded
<1> HIDE DEF e
<1>4. PICK i \in DOMAIN e.records :
         /\ e.records[i].op = cmd.op
         /\ e.records[i].fingerprint = Fingerprint(cmd)
  BY DEF Retry, e
<1>5. DOMAIN e.records = 1..Len(e.records)
  BY <1>2, Extended DEF IsEntity
<1>6. /\ e.records[i].op \in Operations
      /\ e.records[i].fingerprint = RecordFingerprint(cmd.payment, e.records[i], e.terms)
      /\ TermsOK(e.terms)
  BY <1>2, <1>4, <1>5 DEF Valid
<1>7. cmd.terms = IF cmd.op \in Openers THEN e.terms ELSE NoTerms
  BY <1>4, <1>6 DEF Fingerprint, RecordFingerprint
<1>8. Canonical(cmd)
  BY <1>2, <1>4, <1>6, <1>7 DEF Canonical, IsEntity
<1> QED  BY <1>2, <1>3, <1>8 DEF IsNoOp, Loads, e

-----------------------------------------------------------------------------
(***************************************************************************)
(* The money, while no owner has rewritten an entity.                       *)
(***************************************************************************)
(* The terms payments may be opened with, and the states they may be left in. *)
AskedTerms(s) ==
    {cmd.terms : cmd \in {c \in CommandsOf(s) : /\ c.op \in OpenersOf(s.rail)
                                               /\ c.terms # NoTerms
                                               /\ TermsOKOf(s.rail, c.terms)}}

Reached(r) == {TransitionsOf(r)[t].state : t \in DOMAIN TransitionsOf(r)}

(* The positions are those of the tables: a transition changes what the payment
   has on an account by what it posts there, and a reserved account gives back
   no more than the payment has put in. *)
PositionsFollow(r, terms) ==
    /\ \A a \in Accounts : PositionOf(r, Created, terms, a) = 0
    /\ \A t \in DOMAIN TransitionsOf(r), a \in Accounts :
          LET move   == TransitionsOf(r)[t]
              legs   == MovementOf(r, move.effect, terms)
              taken  == L!Leg(legs.debit, a)
              given  == L!Leg(legs.credit, a)
              before == PositionOf(r, t[1], terms, a)
              after  == PositionOf(r, move.state, terms, a)
          IN  /\ taken \in Nat /\ given \in Nat /\ before \in Int /\ after \in Int
              /\ after = IF move.effect = NoEffect THEN before ELSE before - taken + given
              /\ a \in Reserved => taken <= before /\ 0 <= after

(* So they are for the terms that are asked for.  The two rails' tables meet
   this: see TablesFollow. *)
TermsFollow == \A s \in SetUps : \A terms \in AskedTerms(s) : PositionsFollow(s.rail, terms)

(* What the payments hold on an account. *)
Held(r, ent, known, a) == [p \in known |-> PositionOf(r, ent[p].state, ent[p].terms, a)]

Known(ent) == {p \in Payments : ent[p] # Missing}

Column(a) == <<a, Currency>>

Settled ==
    /\ balances \in [Accounts \X {Currency} -> Int]
    /\ opening = [k \in Accounts \X {Currency} |-> setUp.opening[k[1]]]
    /\ \A p \in Known(entity) : /\ entity[p].terms \in AskedTerms(setUp)
                                /\ entity[p].state \in Reached(rail)
    /\ \A a \in Accounts :
          balances[Column(a)] =
              opening[Column(a)] + SumFunctionOnSet(Held(rail, entity, Known(entity), a), Known(entity))

MoneyInv == RailInv /\ (tampered = {} => Settled)

LEMMA KnownFinite ==
    ASSUME RailInv
    PROVE  IsFiniteSet(Known(entity))
<1>1. IsFiniteSet(Payments)
  BY SetUpsTyped DEF RailInv, Payments
<1> QED  BY <1>1, FS_Subset DEF Known

LEMMA OpeningTyped ==
    ASSUME setUp \in SetUps, NEW a \in Accounts
    PROVE  setUp.opening[a] \in Int
BY SetUpsTyped DEF SetUpType

(* The terms asked for have positions that follow the tables. *)
LEMMA AskedFollow ==
    ASSUME TermsFollow, setUp \in SetUps, NEW terms \in AskedTerms(setUp)
    PROVE  PositionsFollow(rail, terms)
BY DEF TermsFollow, rail

(* A position in a state that is reached is a number, and not negative on a
   reserved account. *)
LEMMA PositionTyped ==
    ASSUME TermsFollow, setUp \in SetUps, NEW terms \in AskedTerms(setUp), NEW state \in Reached(rail),
           NEW a \in Accounts
    PROVE  /\ PositionOf(rail, state, terms, a) \in Int
           /\ a \in Reserved => 0 <= PositionOf(rail, state, terms, a)
<1>1. PICK t \in DOMAIN TransitionsOf(rail) : state = TransitionsOf(rail)[t].state
  BY DEF Reached
<1>2. PositionsFollow(rail, terms)
  BY AskedFollow
<1> QED  BY <1>1, <1>2 DEF PositionsFollow

LEMMA HeldTyped ==
    ASSUME TermsFollow, RailInv, Settled, NEW a \in Accounts, NEW p \in Known(entity)
    PROVE  /\ Held(rail, entity, Known(entity), a)[p] \in Int
           /\ a \in Reserved => 0 <= Held(rail, entity, Known(entity), a)[p]
<1>1. entity[p].terms \in AskedTerms(setUp) /\ entity[p].state \in Reached(rail) /\ setUp \in SetUps
  BY DEF Settled, RailInv
<1> QED  BY <1>1, PositionTyped DEF Held

LEMMA SettledBalances == MoneyInv => BalancesFollowStates
<1> SUFFICES ASSUME MoneyInv, tampered = {}, NEW a \in Accounts
             PROVE  balances[Column(a)] = opening[Column(a)] + SumFunction(Held(rail, entity, Known(entity), a))
  BY DEF BalancesFollowStates, Held, Known, Column, Position
<1>1. DOMAIN Held(rail, entity, Known(entity), a) = Known(entity)
  BY DEF Held
<1> QED  BY <1>1 DEF MoneyInv, Settled, SumFunction

LEMMA SettledReserves ==
    ASSUME TermsFollow
    PROVE  MoneyInv => ReservedFunded
<1> SUFFICES ASSUME MoneyInv, tampered = {}, NEW p \in Known(entity), NEW op \in Operations,
                    Legal(entity[p].state, op),
                    NEW a \in Reserved,
                    a \in DOMAIN Movement(Transitions[<<entity[p].state, op>>].effect, entity[p].terms).debit
             PROVE  balances[Column(a)]
                       >= Movement(Transitions[<<entity[p].state, op>>].effect, entity[p].terms).debit[a]
  BY DEF ReservedFunded, Known, Column
<1> DEFINE held == Held(rail, entity, Known(entity), a)
           known == Known(entity)
           debit == Movement(Transitions[<<entity[p].state, op>>].effect, entity[p].terms).debit
<1>1. RailInv /\ Settled /\ setUp \in SetUps
  BY DEF MoneyInv, RailInv
<1>2. a \in Accounts /\ setUp.opening[a] >= 0 /\ setUp.opening[a] \in Int
  BY <1>1, ReservedTyped, OpeningTyped
<1>3. \A q \in known : held[q] \in Nat
  BY <1>1, <1>2, HeldTyped
<1>4. PositionsFollow(rail, entity[p].terms)
  BY <1>1, AskedFollow DEF Settled
<1>5. debit[a] \in Nat /\ debit[a] <= held[p]
  <2>1. <<entity[p].state, op>> \in DOMAIN TransitionsOf(rail)
    BY DEF Legal, Transitions
  <2>2. L!Leg(debit, a) = debit[a]
    BY DEF L!Leg
  <2>3. L!Leg(debit, a) \in Nat /\ L!Leg(debit, a) <= PositionOf(rail, entity[p].state, entity[p].terms, a)
    BY <1>2, <1>4, <2>1 DEF PositionsFollow, Movement, Transitions
  <2>4. held[p] = PositionOf(rail, entity[p].state, entity[p].terms, a)
    BY DEF Held
  <2> QED  BY <2>2, <2>3, <2>4
<1>6. balances[Column(a)] = setUp.opening[a] + SumFunctionOnSet(held, known)
  BY <1>1, <1>2 DEF Settled, Column
<1>7. IsFiniteSet(known)
  BY <1>1, KnownFinite
<1> HIDE DEF held, known, debit
<1>8. SumFunctionOnSet(held, {p}) <= SumFunctionOnSet(held, known) /\ p \in known
  BY <1>3, <1>7, SumNotLess DEF known
<1>9. held[p] \in Nat /\ held[p] \in Int /\ \A q \in known : held[q] \in Int
  BY <1>3, <1>8
<1>10. SumFunctionOnSet(held, {p}) = held[p] /\ SumFunctionOnSet(held, known) \in Int
  <2>1. SumFunctionOnSet(held, {p}) = held[p]
    BY <1>9, SumOfOne
  <2>2. SumFunctionOnSet(held, known) \in Int
    BY <1>7, <1>9, SumIsInt
  <2> QED  BY <2>1, <2>2
<1>11. balances[Column(a)] >= debit[a]
  BY <1>2, <1>5, <1>6, <1>8, <1>9, <1>10
<1> QED  BY <1>11 DEF debit

LEMMA MoneyStarts ==
    ASSUME Init
    PROVE  MoneyInv
<1>1. RailInv
  BY RailStarts
<1>2. Known(entity) = {}
  BY DEF Init, Known
<1>3. \A a \in Accounts : setUp.opening[a] \in Int
  BY OpeningTyped DEF Init
<1>4. /\ opening = [k \in Accounts \X {Currency} |-> setUp.opening[k[1]]]
      /\ balances = opening
  BY DEF Init
<1>5. balances \in [Accounts \X {Currency} -> Int]
  BY <1>3, <1>4
<1>6. \A a \in Accounts : SumFunctionOnSet(Held(rail, entity, Known(entity), a), Known(entity)) = 0
  BY <1>2, SumOfNothing
<1>7. \A a \in Accounts : balances[Column(a)] = opening[Column(a)] + 0
  BY <1>4, <1>5 DEF Column
<1> QED  BY <1>1, <1>2, <1>4, <1>5, <1>6, <1>7 DEF MoneyInv, Settled

(* The entity a handled command leaves: in a state the tables reach, with terms
   that were asked for. *)
LEMMA AdvancedEntity ==
    ASSUME RailInv, Settled, NEW cmd \in Commands, Advances(cmd), cmd.payment \notin tampered
    PROVE  /\ cmd.payment \in Payments
           /\ Loaded(cmd).terms \in AskedTerms(setUp)
           /\ <<Loaded(cmd).state, cmd.op>> \in DOMAIN TransitionsOf(rail)
           /\ Updated(Loaded(cmd), cmd).terms = Loaded(cmd).terms
           /\ Updated(Loaded(cmd), cmd).state =
                 TransitionsOf(rail)[<<Loaded(cmd).state, cmd.op>>].state
           /\ MissingIsNoEntity => Updated(Loaded(cmd), cmd) # Missing
           /\ IF entity[cmd.payment] = Missing THEN Loaded(cmd).state = Created
              ELSE Loaded(cmd) = entity[cmd.payment]
<1> DEFINE e == Loaded(cmd)
<1>1. cmd.payment \in Payments
  BY SetUpsTyped DEF RailInv, Commands, Payments
<1>2. Loads(cmd) /\ Legal(e.state, cmd.op)
  BY DEF Advances
<1>3. Whole(entity[cmd.payment], cmd.payment)
  BY <1>1 DEF RailInv
<1>4. IsEntity(e)
  BY <1>2, <1>3, LoadedEntity
<1>5. IF entity[cmd.payment] = Missing THEN e.state = Created /\ e.terms = cmd.terms
      ELSE e = entity[cmd.payment]
  BY DEF Loaded, OpeningEntity
<1>6. e.terms \in AskedTerms(setUp)
  <2>1. CASE entity[cmd.payment] = Missing
    <3>1. cmd.op \in Openers /\ cmd.terms # NoTerms /\ TermsOK(cmd.terms)
      BY <1>2, <2>1 DEF Loads, Canonical
    <3>2. cmd.terms \in AskedTerms(setUp)
      BY <3>1 DEF AskedTerms, Openers, TermsOK, rail, Commands
    <3> QED  BY <1>5, <2>1, <3>2
  <2>2. CASE entity[cmd.payment] # Missing
    <3>1. cmd.payment \in Known(entity)
      BY <1>1, <2>2 DEF Known
    <3>2. entity[cmd.payment].terms \in AskedTerms(setUp)
      BY <3>1 DEF Settled
    <3> QED  BY <1>5, <2>2, <3>2
  <2> QED  BY <2>1, <2>2
<1>7. <<e.state, cmd.op>> \in DOMAIN TransitionsOf(rail)
  BY <1>2 DEF Legal, Transitions
<1> HIDE DEF e
<1>8. Updated(e, cmd).terms = e.terms
  BY <1>4 DEF Updated, IsEntity
<1>9. Updated(e, cmd).state = TransitionsOf(rail)[<<e.state, cmd.op>>].state
  BY <1>4 DEF Updated, IsEntity, Transitions
<1>10. MissingIsNoEntity => Updated(e, cmd) # Missing
  BY <1>4, UpdatedEntity
<1> QED  BY <1>1, <1>5, <1>6, <1>7, <1>8, <1>9, <1>10 DEF e

(* A posting in the payments' currency changes each balance by its legs. *)
LEMMA PostedLegs ==
    ASSUME balances \in [Accounts \X {Currency} -> Int], NEW effect, NEW terms, NEW event,
           L!Post(Entry(effect, terms, event)), NEW a \in Accounts,
           L!Leg(Movement(effect, terms).debit, a) \in Nat,
           L!Leg(Movement(effect, terms).credit, a) \in Nat
    PROVE  balances'[Column(a)] = balances[Column(a)]
                 - L!Leg(Movement(effect, terms).debit, a) + L!Leg(Movement(effect, terms).credit, a)
<1> DEFINE entry == Entry(effect, terms, event)
           legs == Movement(effect, terms)
<1>1. balances' = L!Posted(L!Normalized(entry))
  BY DEF L!Post
<1>2. Column(a) \in L!Keys /\ Column(a)[1] = a /\ Column(a)[2] = Currency
  BY DEF L!Keys, L!Supported, Column
<1>3. L!Normalized(entry).currency = Currency
  BY DEF L!Normalized, Entry
<1>4. balances'[Column(a)] = balances[Column(a)] - L!Leg(L!Normalized(entry).debit, a)
                                + L!Leg(L!Normalized(entry).credit, a)
  BY <1>1, <1>2, <1>3 DEF L!Posted
<1>5. \A l : L!Leg(l, a) \in Nat => L!Leg(L!NormalizeLegs(l, Currency), a) = L!Leg(l, a)
  <2>1. \A n \in Nat : L!HalfEven(n, 1) = n
    BY DEF L!HalfEven
  <2> QED  BY <2>1 DEF L!NormalizeLegs, L!Quantize, L!Leg
<1>6. /\ L!Normalized(entry).debit = L!NormalizeLegs(legs.debit, Currency)
      /\ L!Normalized(entry).credit = L!NormalizeLegs(legs.credit, Currency)
  BY DEF L!Normalized, Entry
<1> QED  BY <1>4, <1>5, <1>6

(* A handled command changes every balance by what it changes the payment's
   position. *)
LEMMA AdvanceMoves ==
    ASSUME TermsFollow, RailInv, Settled, NEW cmd \in Commands, HandleAdvance(cmd), cmd.payment \notin tampered,
           NEW a \in Accounts
    PROVE  LET e      == Loaded(cmd)
               before == PositionOf(rail, e.state, e.terms, a)
               after  == PositionOf(rail, Updated(e, cmd).state, e.terms, a)
           IN  /\ before \in Int /\ after \in Int
               /\ balances'[Column(a)] = balances[Column(a)] - before + after
               /\ opening' = opening
<1> DEFINE e == Loaded(cmd)
           t == <<e.state, cmd.op>>
           move == TransitionsOf(rail)[t]
           legs == MovementOf(rail, move.effect, e.terms)
           before == PositionOf(rail, e.state, e.terms, a)
           after == PositionOf(rail, move.state, e.terms, a)
<1>1. Advances(cmd)
  BY DEF HandleAdvance
<1>2. t \in DOMAIN TransitionsOf(rail) /\ Updated(e, cmd).state = move.state
      /\ e.terms \in AskedTerms(setUp)
  BY <1>1, AdvancedEntity
<1>3. PositionsFollow(rail, e.terms)
  BY <1>2, AskedFollow DEF RailInv
<1>4. t[1] = e.state
  OBVIOUS
<1>5. /\ L!Leg(legs.debit, a) \in Nat /\ L!Leg(legs.credit, a) \in Nat
      /\ before \in Int /\ after \in Int
      /\ after = IF move.effect = NoEffect THEN before
                 ELSE before - L!Leg(legs.debit, a) + L!Leg(legs.credit, a)
  <2> HIDE DEF t, e
  <2> QED  BY <1>2, <1>3, <1>4 DEF PositionsFollow
<1>6. Effect(cmd) = move.effect /\ Movement(Effect(cmd), e.terms) = legs
  BY DEF Effect, Transitions, Movement
<1>7. balances \in [Accounts \X {Currency} -> Int] /\ balances[Column(a)] \in Int
  BY DEF Settled, Column
<1>8. CASE Effect(cmd) = NoEffect
  <2>1. balances' = balances /\ opening' = opening
    BY <1>8 DEF HandleAdvance, ledgerVars
  <2> HIDE DEF before, after, move, e
  <2>2. balances'[Column(a)] = balances[Column(a)] - before + after
    BY <1>5, <1>6, <1>7, <1>8, <2>1
  <2> QED  BY <1>2, <1>5, <2>1, <2>2 DEF before, after, move, e
<1>9. CASE Effect(cmd) # NoEffect
  <2>1. L!Post(Entry(Effect(cmd), e.terms, uuids))
    BY <1>9 DEF HandleAdvance
  <2>2. opening' = opening
    BY <2>1 DEF L!Post
  <2> HIDE DEF before, after, move, e, legs
  <2>3. balances'[Column(a)] = balances[Column(a)] - L!Leg(legs.debit, a) + L!Leg(legs.credit, a)
    BY <1>5, <1>6, <1>7, <2>1, PostedLegs
  <2>4. balances'[Column(a)] = balances[Column(a)] - before + after
    BY <1>5, <1>6, <1>7, <1>9, <2>3
  <2> QED  BY <1>2, <1>5, <2>2, <2>4 DEF before, after, move, e
<1> QED  BY <1>8, <1>9

LEMMA AdvanceSettles ==
    ASSUME TermsFollow, MissingIsNoEntity, RailInv, Settled, NEW cmd \in Commands, HandleAdvance(cmd),
           cmd.payment \notin tampered, setUp' = setUp
    PROVE  Settled'
<1> DEFINE e == Loaded(cmd)
           p == cmd.payment
           known == Known(entity)
           left == Updated(e, cmd)
<1>1. Advances(cmd)
  BY DEF HandleAdvance
<1>2. /\ p \in Payments /\ e.terms \in AskedTerms(setUp)
      /\ left.terms = e.terms /\ left # Missing
      /\ left.state = TransitionsOf(rail)[<<e.state, cmd.op>>].state
      /\ <<e.state, cmd.op>> \in DOMAIN TransitionsOf(rail)
      /\ IF entity[p] = Missing THEN e.state = Created ELSE e = entity[p]
  BY <1>1, AdvancedEntity
<1>3. /\ rail' = rail /\ Payments' = Payments
      /\ AskedTerms(setUp)' = AskedTerms(setUp)
  BY DEF rail, Payments
<1>4. entity' = [entity EXCEPT ![p] = left] /\ entity = [q \in Payments |-> entity[q]]
  BY DEF HandleAdvance, RailInv
<1>5. /\ entity'[p] = left /\ \A q \in Payments : q # p => entity'[q] = entity[q]
  BY <1>2, <1>4
<1>6. Known(entity)' = known \cup {p}
  <2>1. Known(entity)' = {q \in Payments : entity'[q] # Missing}
    BY <1>3 DEF Known
  <2>2. \A q \in Payments : entity'[q] # Missing <=> (entity[q] # Missing \/ q = p)
    BY <1>2, <1>5
  <2> QED  BY <1>2, <2>1, <2>2 DEF Known
<1>7. \A q \in known : q \in Payments
  BY DEF Known
<1>8. left.state \in Reached(rail)
  BY <1>2 DEF Reached
<1>9. \A q \in Known(entity)' : /\ entity'[q].terms \in AskedTerms(setUp)
                               /\ entity'[q].state \in Reached(rail)
  <2>1. \A q \in known : entity[q].terms \in AskedTerms(setUp) /\ entity[q].state \in Reached(rail)
    BY DEF Settled
  <2> HIDE DEF known, left
  <2> QED  BY <1>2, <1>5, <1>6, <1>7, <1>8, <2>1
<1>10. ASSUME NEW a \in Accounts
       PROVE  /\ balances'[Column(a)] \in Int
              /\ balances'[Column(a)] = opening'[Column(a)] +
                    SumFunctionOnSet(Held(rail, entity, Known(entity), a)', Known(entity)')
  <2> DEFINE before == PositionOf(rail, e.state, e.terms, a)
             after == PositionOf(rail, left.state, e.terms, a)
             f == Held(rail, entity, known, a)
             g == Held(rail, entity', known \cup {p}, a)
  <2>1. /\ before \in Int /\ after \in Int
        /\ balances'[Column(a)] = balances[Column(a)] - before + after
        /\ opening' = opening
    BY AdvanceMoves
  <2>2. Held(rail, entity, Known(entity), a)' = g
    BY <1>3, <1>6 DEF Held
  <2>3. IsFiniteSet(known)
    BY KnownFinite
  <2>4. \A q \in known : f[q] \in Int
    BY HeldTyped
  <2>5. g[p] = after
    BY <1>2, <1>5 DEF Held
  <2>6. \A q \in known \ {p} : g[q] = f[q]
    BY <1>5, <1>7 DEF Held
  <2>7. before = IF p \in known THEN f[p] ELSE 0
    <3>1. CASE entity[p] = Missing
      <4>1. PositionsFollow(rail, e.terms)
        BY <1>2, AskedFollow DEF RailInv
      <4>2. p \notin known /\ e.state = Created
        BY <1>2, <3>1 DEF Known
      <4> QED  BY <4>1, <4>2 DEF PositionsFollow
    <3>2. CASE entity[p] # Missing
      <4>1. p \in known /\ e = entity[p]
        BY <1>2, <3>2 DEF Known
      <4> QED  BY <4>1 DEF Held
    <3> QED  BY <3>1, <3>2
  <2>8. balances[Column(a)] = opening[Column(a)] + SumFunctionOnSet(f, known)
    BY DEF Settled
  <2>9. opening[Column(a)] \in Int /\ balances[Column(a)] \in Int
    BY OpeningTyped DEF Settled, Column, RailInv
  <2> HIDE DEF before, after, f, g, known, e, p, left
  <2>10. \A q \in known \cup {p} : g[q] \in Int
    BY <2>1, <2>4, <2>5, <2>6
  <2>11. /\ SumFunctionOnSet(f, known) \in Int
         /\ SumFunctionOnSet(g, known \cup {p}) = SumFunctionOnSet(f, known) - before + g[p]
    <3>1. PICK D, x, F, G, old : D = known /\ x = p /\ F = f /\ G = g /\ old = before
      OBVIOUS
    <3>2. /\ IsFiniteSet(D) /\ old \in Int /\ (x \in D => old = F[x]) /\ (x \notin D => old = 0)
          /\ \A y \in D : F[y] \in Int
          /\ \A y \in D \cup {x} : G[y] \in Int
          /\ \A y \in D \ {x} : G[y] = F[y]
      BY <2>1, <2>3, <2>4, <2>6, <2>7, <2>10, <3>1
    <3>3. /\ SumFunctionOnSet(F, D) \in Int
          /\ SumFunctionOnSet(G, D \cup {x}) = SumFunctionOnSet(F, D) - old + G[x]
      BY <3>2, SumChanged
    <3> QED  BY <3>1, <3>3
  <2>12. balances'[Column(a)] \in Int
    BY <2>1, <2>9
  <2>13. balances'[Column(a)] = opening[Column(a)] + SumFunctionOnSet(g, known \cup {p})
    BY <2>1, <2>5, <2>8, <2>9, <2>11
  <2> QED  BY <1>6, <2>1, <2>2, <2>12, <2>13
<1>11. opening' = opening /\ balances' \in [Accounts \X {Currency} -> Int]
  <2>1. CASE Effect(cmd) = NoEffect
    <3>1. balances' = balances /\ opening' = opening
      BY <2>1 DEF HandleAdvance, ledgerVars
    <3> QED  BY <3>1 DEF Settled
  <2>2. CASE Effect(cmd) # NoEffect
    <3>1. L!Post(Entry(Effect(cmd), e.terms, uuids))
      BY <2>2 DEF HandleAdvance
    <3>2. opening' = opening /\ balances' = [k \in Accounts \X {Currency} |-> balances'[k]]
      BY <3>1 DEF L!Post, L!Posted, L!Keys, L!Supported
    <3>3. \A k \in Accounts \X {Currency} : k[1] \in Accounts /\ k = Column(k[1])
      BY DEF Column
    <3>4. \A k \in Accounts \X {Currency} : balances'[k] \in Int
      BY <1>10, <3>3
    <3> QED  BY <3>2, <3>4
  <2> QED  BY <2>1, <2>2
<1> HIDE DEF e, p, known, left
<1> QED  BY <1>3, <1>9, <1>10, <1>11 DEF Settled

LEMMA MoneyKeeps ==
    ASSUME TermsFollow, MissingIsNoEntity, MoneyInv, [Next]_vars
    PROVE  MoneyInv'
<1>1. RailInv'
  BY RailKeeps DEF MoneyInv
<1>2. ASSUME tampered' = {}
      PROVE  Settled'
  <2>1. CASE UNCHANGED <<setUp, entity, opening, balances, tampered>>
    <3>1. Settled
      BY <1>2, <2>1 DEF MoneyInv
    <3>2. rail' = rail /\ Known(entity)' = Known(entity) /\ AskedTerms(setUp)' = AskedTerms(setUp)
      BY <2>1 DEF rail, Known, Payments
    <3> QED  BY <2>1, <3>1, <3>2 DEF Settled, Held
  <2>2. ASSUME NEW cmd \in Commands, UNCHANGED setUp, HandleAdvance(cmd)
        PROVE  Settled'
    <3>1. tampered = {}
      BY <1>2, <2>2 DEF HandleAdvance
    <3> QED  BY <2>2, <3>1, AdvanceSettles DEF MoneyInv
  <2>3. ASSUME NEW cmd \in Commands, UNCHANGED setUp,
               HandleRetry(cmd) \/ HandleUnfunded(cmd) \/ HandleIllegal(cmd)
        PROVE  Settled'
    BY <2>1, <2>3 DEF HandleRetry, HandleUnfunded, HandleIllegal, vars, ledgerVars
  <2>4. ASSUME NEW p \in Payments, Tamper(p)
        PROVE  Settled'
    BY <1>2, <2>4 DEF Tamper
  <2>5. CASE UNCHANGED vars
    BY <2>1, <2>5 DEF vars, ledgerVars
  <2> QED  BY <2>2, <2>3, <2>4, <2>5 DEF Next
<1> QED  BY <1>1, <1>2 DEF MoneyInv

(* For any lifecycle tables, terms, movements, commands and engines
   (card.py and a2a.py, the handler): the entries of the ledger are the events
   that move value, and the history kept with a payment is its part of the log,
   also once the engine has failed. *)
THEOREM OneStoryAlways == ASSUME MissingIsNoEntity PROVE Spec => []OneStory
<1>1. RailInv /\ [Next]_vars => RailInv'
  BY RailKeeps
<1> QED  BY <1>1, RailStarts, InvTellsOneStory, PTL DEF Spec

(* A request that has gone through is recognised at any later time: delivered
   again it changes nothing (_is_idempotent_retry). *)
THEOREM RetriesAlwaysHarmless == ASSUME MissingIsNoEntity PROVE Spec => []RetriesHarmless
<1>1. RailInv /\ [Next]_vars => RailInv'
  BY RailKeeps
<1> QED  BY <1>1, RailStarts, InvRetriesHarmless, PTL DEF Spec
-----------------------------------------------------------------------------
(***************************************************************************)
(* What TermsFollow asks of the tables, the two rails' tables do, for every *)
(* amount and fee that the constructor accepts, and whichever accounts      *)
(* these are between, as long as no reserved one is an end.                 *)
(***************************************************************************)
IsCard ==
    /\ Created = "created"
    /\ TransitionsOf("card") = CardTransitions
    /\ \A effect, terms : MovementOf("card", effect, terms) = CardMovement(effect, terms)
    /\ \A state, terms, a : PositionOf("card", state, terms, a) = CardPosition(state, terms, a)
    /\ \A terms : TermsOKOf("card", terms) => CardTermsOK(terms)

IsA2A ==
    /\ Created = "created"
    /\ TransitionsOf("a2a") = A2ATransitions
    /\ \A effect, terms : MovementOf("a2a", effect, terms) = A2AMovement(effect, terms)
    /\ \A state, terms, a : PositionOf("a2a", state, terms, a) = A2APosition(state, terms, a)
    /\ \A terms : TermsOKOf("a2a", terms) => A2ATermsOK(terms)

(* The engines run the two rails of the code. *)
RailsOfTheCode ==
    /\ IsCard /\ IsA2A
    /\ \A s \in SetUps : s.rail \in {"card", "a2a"}

(* A transition of the table is a row of it. *)
LEMMA CardRow ==
    ASSUME NEW t \in DOMAIN CardTransitions
    PROVE  \E row \in CardTable :
              t[1] = row[1] /\ t[2] = row[2] /\ CardTransitions[t] = Step(row[3], row[4])
<1>1. PICK r \in CardTable : <<r[1], r[2]>> = t
  BY DEF CardTransitions
<1> DEFINE row == CHOOSE q \in CardTable : <<q[1], q[2]>> = t
<1>2. row \in CardTable /\ <<row[1], row[2]>> = t
  BY <1>1
<1>3. CardTransitions[t] = Step(row[3], row[4])
  BY DEF CardTransitions
<1> HIDE DEF row
<1> QED  BY <1>2, <1>3

(* One row: the position moves by the legs. *)
RowFollows(before, after, taken, given, effect, reserved) ==
    /\ taken \in Nat /\ given \in Nat /\ before \in Int /\ after \in Int
    /\ after = IF effect = NoEffect THEN before ELSE before - taken + given
    /\ reserved => taken <= before /\ 0 <= after

LEMMA CardRowFollows ==
    ASSUME NEW terms, Between(terms), CardTermsOK(terms), NEW row \in CardTable, NEW a
    PROVE  RowFollows(CardPosition(row[1], terms, a), CardPosition(row[3], terms, a),
                      L!Leg(CardMovement(row[4], terms).debit, a),
                      L!Leg(CardMovement(row[4], terms).credit, a), row[4], a \in Reserved)
<1>1. /\ terms.amount \in Nat /\ terms.fee \in Nat /\ terms.fee <= terms.amount
      /\ terms.payer # terms.payee /\ terms.payer # terms.fees /\ terms.payer # terms.hold
      /\ terms.payer # terms.chargeback /\ terms.payee # terms.fees /\ terms.payee # terms.hold
      /\ terms.payee # terms.chargeback /\ terms.fees # terms.hold
      /\ terms.fees # terms.chargeback /\ terms.hold # terms.chargeback
  BY DEF Between, CardTermsOK
<1>2. a \in Reserved => a # terms.payer /\ a # terms.payee /\ a # terms.fees
  BY DEF Between
<1> USE DEF RowFollows, CardPosition, CardMovement, L!Leg, NoEffect
<1>3. CASE row = <<"created", "authorize", "authorized", "hold">>
  BY <1>1, <1>2, <1>3
<1>4. CASE row = <<"created", "decline", "declined", "none">>
  BY <1>1, <1>2, <1>4
<1>5. CASE row = <<"authorized", "clear", "cleared", "none">>
  BY <1>1, <1>2, <1>5
<1>6. CASE row = <<"authorized", "reverse", "reversed", "release_hold">>
  BY <1>1, <1>2, <1>6
<1>7. CASE row = <<"cleared", "reverse", "reversed", "release_hold">>
  BY <1>1, <1>2, <1>7
<1>8. CASE row = <<"cleared", "settle", "settled", "settle">>
  <2>1. L!Leg(CardMovement(row[4], terms).debit, a) = IF a = terms.hold THEN terms.amount ELSE 0
    BY <1>8
  <2>2. L!Leg(CardMovement(row[4], terms).credit, a) =
            IF a = terms.payee THEN terms.amount - terms.fee
            ELSE IF a = terms.fees THEN terms.fee ELSE 0
    BY <1>8
  <2>3. CardPosition(row[1], terms, a) =
            (IF a = terms.payer THEN 0 - terms.amount ELSE 0) + (IF a = terms.hold THEN terms.amount ELSE 0)
    BY <1>8
  <2>4. CardPosition(row[3], terms, a) =
            (IF a = terms.payer THEN 0 - terms.amount ELSE 0)
               + (IF a = terms.payee THEN terms.amount - terms.fee ELSE 0)
               + (IF a = terms.fees THEN terms.fee ELSE 0)
    BY <1>8
  <2>5. row[4] # NoEffect
    BY <1>8
  <2> HIDE DEF CardPosition, CardMovement, L!Leg
  <2> QED  BY <1>1, <1>2, <2>1, <2>2, <2>3, <2>4, <2>5
<1>9. CASE row = <<"settled", "report", "reported", "none">>
  BY <1>1, <1>2, <1>9
<1>10. CASE row = <<"settled", "refund", "refunded", "refund">>
  BY <1>1, <1>2, <1>10
<1>11. CASE row = <<"reported", "dispute", "dispute", "none">>
  BY <1>1, <1>2, <1>11
<1>12. CASE row = <<"dispute", "chargeback", "chargeback", "chargeback">>
  <2>1. L!Leg(CardMovement(row[4], terms).credit, a) = IF a = terms.chargeback THEN terms.amount ELSE 0
    BY <1>12
  <2>2. L!Leg(CardMovement(row[4], terms).debit, a) =
            IF a = terms.payee THEN terms.amount - terms.fee
            ELSE IF a = terms.fees THEN terms.fee ELSE 0
    BY <1>12
  <2>3. CardPosition(row[3], terms, a) =
            (IF a = terms.payer THEN 0 - terms.amount ELSE 0)
               + (IF a = terms.chargeback THEN terms.amount ELSE 0)
    BY <1>12
  <2>4. CardPosition(row[1], terms, a) =
            (IF a = terms.payer THEN 0 - terms.amount ELSE 0)
               + (IF a = terms.payee THEN terms.amount - terms.fee ELSE 0)
               + (IF a = terms.fees THEN terms.fee ELSE 0)
    BY <1>12
  <2>5. row[4] # NoEffect
    BY <1>12
  <2> HIDE DEF CardPosition, CardMovement, L!Leg
  <2> QED  BY <1>1, <1>2, <2>1, <2>2, <2>3, <2>4, <2>5
<1>13. CASE row = <<"chargeback", "recover", "recovery", "recovery">>
  BY <1>1, <1>2, <1>13
<1> QED  BY <1>3, <1>4, <1>5, <1>6, <1>7, <1>8, <1>9, <1>10, <1>11, <1>12, <1>13 DEF CardTable

(* card.py, _TRANSITIONS and _post_effect: whatever the amount and the fee, a
   step of the lifecycle moves between the accounts what distinguishes the
   position of the state it leaves from that of the state it enters, and takes
   from the holds and from the chargebacks no more than the payment has there. *)
THEOREM CardPositionsFollow ==
    ASSUME IsCard, NEW terms, Between(terms), CardTermsOK(terms)
    PROVE  PositionsFollow("card", terms)
<1>1. \A a : CardPosition("created", terms, a) = 0
  BY DEF CardPosition
<1>2. ASSUME NEW t \in DOMAIN CardTransitions, NEW a
      PROVE  RowFollows(CardPosition(t[1], terms, a), CardPosition(CardTransitions[t].state, terms, a),
                        L!Leg(CardMovement(CardTransitions[t].effect, terms).debit, a),
                        L!Leg(CardMovement(CardTransitions[t].effect, terms).credit, a),
                        CardTransitions[t].effect, a \in Reserved)
  <2>1. PICK row \in CardTable : t[1] = row[1] /\ CardTransitions[t] = Step(row[3], row[4])
    BY CardRow
  <2>2. CardTransitions[t].state = row[3] /\ CardTransitions[t].effect = row[4]
    BY <2>1 DEF Step
  <2> QED  BY <2>1, <2>2, CardRowFollows
<1> QED  BY <1>1, <1>2 DEF IsCard, PositionsFollow, RowFollows

LEMMA A2ARow ==
    ASSUME NEW t \in DOMAIN A2ATransitions
    PROVE  \E row \in A2ATable :
              t[1] = row[1] /\ t[2] = row[2] /\ A2ATransitions[t] = A2AStep(row[3], row[4])
<1>1. PICK r \in A2ATable : <<r[1], r[2]>> = t
  BY DEF A2ATransitions
<1> DEFINE row == CHOOSE q \in A2ATable : <<q[1], q[2]>> = t
<1>2. row \in A2ATable /\ <<row[1], row[2]>> = t
  BY <1>1
<1>3. A2ATransitions[t] = A2AStep(row[3], row[4])
  BY DEF A2ATransitions
<1> HIDE DEF row
<1> QED  BY <1>2, <1>3

LEMMA A2ARowFollows ==
    ASSUME NEW terms, Between(terms), A2ATermsOK(terms), NEW row \in A2ATable, NEW a
    PROVE  RowFollows(A2APosition(row[1], terms, a), A2APosition(row[3], terms, a),
                      L!Leg(A2AMovement(row[4], terms).debit, a),
                      L!Leg(A2AMovement(row[4], terms).credit, a), row[4], a \in Reserved)
<1>1. /\ terms.amount \in Nat /\ terms.fee \in Nat
      /\ terms.payer # terms.payee /\ terms.payer # terms.fees /\ terms.payer # terms.frozen
      /\ terms.payee # terms.fees /\ terms.payee # terms.frozen /\ terms.fees # terms.frozen
  BY DEF Between, A2ATermsOK
<1>2. a \in Reserved => a # terms.payer /\ a # terms.payee /\ a # terms.fees
  BY DEF Between
<1> DEFINE fee == (IF a = terms.payer THEN 0 - terms.fee ELSE 0) + (IF a = terms.fees THEN terms.fee ELSE 0)
           paid == (IF a = terms.payer THEN 0 - terms.amount ELSE 0) + fee
<1> USE DEF RowFollows, A2APosition, A2AMovement, L!Leg, NoEffect
<1>3. CASE row \in {<<"created", "initiate", "initiated", "none">>,
                    <<"initiated", "accept", "accepted", "none">>,
                    <<"initiated", "reject", "rejected", "none">>}
  BY <1>1, <1>2, <1>3
<1>4. CASE row = <<"accepted", "post", "posted", "post">>
  <2>1. L!Leg(A2AMovement(row[4], terms).debit, a) =
            IF a = terms.payer THEN terms.amount + terms.fee ELSE 0
    BY <1>4
  <2>2. L!Leg(A2AMovement(row[4], terms).credit, a) =
            IF a = terms.payee THEN terms.amount ELSE IF a = terms.fees THEN terms.fee ELSE 0
    BY <1>4
  <2>3. A2APosition(row[1], terms, a) = 0
    BY <1>4
  <2>4. A2APosition(row[3], terms, a) = paid + (IF a = terms.payee THEN terms.amount ELSE 0)
    BY <1>4
  <2>5. row[4] # NoEffect
    BY <1>4
  <2> HIDE DEF A2APosition, A2AMovement, L!Leg
  <2>6. CASE a = terms.payer
    BY <1>1, <1>2, <2>1, <2>2, <2>3, <2>4, <2>5, <2>6
  <2>7. CASE a # terms.payer
    BY <1>1, <1>2, <2>1, <2>2, <2>3, <2>4, <2>5, <2>7
  <2> QED  BY <2>6, <2>7
<1>5. CASE row = <<"posted", "report", "reported", "none">>
  BY <1>1, <1>2, <1>5
<1>6. CASE row = <<"posted", "return", "returned", "return">>
  <2>1. L!Leg(A2AMovement(row[4], terms).debit, a) = IF a = terms.payee THEN terms.amount ELSE 0
    BY <1>6
  <2>2. L!Leg(A2AMovement(row[4], terms).credit, a) = IF a = terms.payer THEN terms.amount ELSE 0
    BY <1>6
  <2>3. A2APosition(row[1], terms, a) = paid + (IF a = terms.payee THEN terms.amount ELSE 0)
    BY <1>6
  <2>4. A2APosition(row[3], terms, a) = fee
    BY <1>6
  <2>5. row[4] # NoEffect
    BY <1>6
  <2> HIDE DEF A2APosition, A2AMovement, L!Leg
  <2>6. CASE a = terms.payer
    BY <1>1, <1>2, <2>1, <2>2, <2>3, <2>4, <2>5, <2>6
  <2>7. CASE a # terms.payer
    BY <1>1, <1>2, <2>1, <2>2, <2>3, <2>4, <2>5, <2>7
  <2> QED  BY <2>6, <2>7
<1>7. CASE row = <<"reported", "freeze", "frozen", "freeze">>
  BY <1>1, <1>2, <1>7
<1>8. CASE row = <<"frozen", "recover", "recovered", "recovery">>
  BY <1>1, <1>2, <1>8
<1> QED  BY <1>3, <1>4, <1>5, <1>6, <1>7, <1>8 DEF A2ATable

(* a2a.py, _TRANSITIONS and _post_effect: the same for the table of the
   account-to-account rail, where the frozen funds are the reserved ones. *)
THEOREM A2APositionsFollow ==
    ASSUME IsA2A, NEW terms, Between(terms), A2ATermsOK(terms)
    PROVE  PositionsFollow("a2a", terms)
<1>1. \A a : A2APosition("created", terms, a) = 0
  BY DEF A2APosition
<1>2. ASSUME NEW t \in DOMAIN A2ATransitions, NEW a
      PROVE  RowFollows(A2APosition(t[1], terms, a), A2APosition(A2ATransitions[t].state, terms, a),
                        L!Leg(A2AMovement(A2ATransitions[t].effect, terms).debit, a),
                        L!Leg(A2AMovement(A2ATransitions[t].effect, terms).credit, a),
                        A2ATransitions[t].effect, a \in Reserved)
  <2>1. PICK row \in A2ATable : t[1] = row[1] /\ A2ATransitions[t] = A2AStep(row[3], row[4])
    BY A2ARow
  <2>2. A2ATransitions[t].state = row[3] /\ A2ATransitions[t].effect = row[4]
    BY <2>1 DEF A2AStep
  <2> QED  BY <2>1, <2>2, A2ARowFollows
<1>3. ASSUME NEW t \in DOMAIN TransitionsOf("a2a"), NEW a \in Accounts
      PROVE  RowFollows(PositionOf("a2a", t[1], terms, a),
                        PositionOf("a2a", TransitionsOf("a2a")[t].state, terms, a),
                        L!Leg(MovementOf("a2a", TransitionsOf("a2a")[t].effect, terms).debit, a),
                        L!Leg(MovementOf("a2a", TransitionsOf("a2a")[t].effect, terms).credit, a),
                        TransitionsOf("a2a")[t].effect, a \in Reserved)
  BY <1>2 DEF IsA2A
<1> QED  BY <1>1, <1>3 DEF IsA2A, PositionsFollow, RowFollows

LEMMA TablesFollow ==
    ASSUME RailsOfTheCode
    PROVE  TermsFollow
<1> SUFFICES ASSUME NEW s \in SetUps, NEW terms \in AskedTerms(s)
             PROVE  PositionsFollow(s.rail, terms)
  BY DEF TermsFollow
<1>1. Between(terms) /\ TermsOKOf(s.rail, terms)
  BY ReservedTyped DEF AskedTerms
<1>2. CASE s.rail = "card"
  <2>1. IsCard /\ TermsOKOf("card", terms)
    BY <1>1, <1>2 DEF RailsOfTheCode
  <2>2. CardTermsOK(terms)
    BY <2>1 DEF IsCard
  <2> QED  BY <1>1, <1>2, <2>1, <2>2, CardPositionsFollow
<1>3. CASE s.rail = "a2a"
  <2>1. IsA2A /\ TermsOKOf("a2a", terms)
    BY <1>1, <1>3 DEF RailsOfTheCode
  <2>2. A2ATermsOK(terms)
    BY <2>1 DEF IsA2A
  <2> QED  BY <1>1, <1>3, <2>1, <2>2, A2APositionsFollow
<1> QED  BY <1>2, <1>3 DEF RailsOfTheCode

(* While no owner has rewritten an entity, every balance is the opening balance
   plus what each payment holds there in its state (the postings of card.py and
   a2a.py), for any number of payments that share accounts; and money in transit
   is there for the payment it belongs to. *)
THEOREM MoneyAlwaysFollows ==
    ASSUME MissingIsNoEntity, RailsOfTheCode
    PROVE  Spec => []MoneyFollowsStates
<1>1. TermsFollow
  BY TablesFollow
<1>2. MoneyInv /\ [Next]_vars => MoneyInv'
  BY <1>1, MoneyKeeps
<1>3. MoneyInv => MoneyFollowsStates
  BY <1>1, SettledBalances, SettledReserves DEF MoneyFollowsStates
<1>4. Init => MoneyInv
  BY MoneyStarts
<1> QED  BY <1>2, <1>3, <1>4, PTL DEF Spec
-----------------------------------------------------------------------------
(***************************************************************************)
(* An owner who rewrites an entity.                                         *)
(*                                                                          *)
(* The chained commitment says what every record covers, the first record   *)
(* what the terms are, and the records the state and the last event: of     *)
(* the valid entities of a payment there is one with a given commitment,    *)
(* and one with given records.  So no other one is reached by rewriting     *)
(* one field.                                                               *)
(***************************************************************************)
Covered(p, record) ==
    [payment |-> p, op |-> record.op, key |-> record.key,
     fingerprint |-> record.fingerprint, event |-> record.event]

(* What a chain of n commitments ends in. *)
Chain(p, records, n) == [j \in 1..n |-> Covered(p, records[j])]

HasSchema(e) ==
    /\ e = [payment |-> e.payment, state |-> e.state, terms |-> e.terms, last |-> e.last,
            commitment |-> e.commitment, records |-> e.records]
    /\ IsSequence(e.records)
    /\ \A i \in DOMAIN e.records :
          LET r == e.records[i]
          IN  r = [key |-> r.key, op |-> r.op, fingerprint |-> r.fingerprint,
                   event |-> r.event, commitment |-> r.commitment]

(* What is rewritten has another value in one field, and still the fields that
   the code asks for before it looks at any value. *)
RewritesOneField ==
    \A e : HasSchema(e) =>
        \A f \in Tampers(e) :
            /\ HasSchema(f)
            /\ \E field \in DOMAIN e : f = [e EXCEPT ![field] = f[field]]

LEMMA ChainGrows ==
    ASSUME NEW p, NEW records, NEW n \in Nat
    PROVE  Append(Chain(p, records, n), Covered(p, records[n + 1])) = Chain(p, records, n + 1)
<1> DEFINE c == Chain(p, records, n)
           x == Covered(p, records[n + 1])
           S == {Covered(p, records[j]) : j \in 1..(n + 1)}
<1>1. c \in Seq(S) /\ Len(c) = n
  <2>1. \A j \in 1..n : Covered(p, records[j]) \in S
    OBVIOUS
  <2>2. c \in [1..n -> S]
    BY <2>1 DEF Chain
  <2>3. c \in Seq(S)
    BY <2>2, SeqDef
  <2>4. DOMAIN c = 1..n
    BY DEF Chain
  <2> HIDE DEF c
  <2> QED  BY <2>3, <2>4, LenProperties
<1>2. /\ Append(c, x) \in Seq(S \cup {x}) /\ Len(Append(c, x)) = n + 1
      /\ DOMAIN Append(c, x) = 1..(n + 1)
      /\ Append(c, x)[n + 1] = x /\ \A i \in 1..n : Append(c, x)[i] = c[i]
  <2>1. IsSequence(c)
    BY <1>1 DEF IsSequence
  <2>2. c \in Seq(S \cup {x}) /\ x \in S \cup {x}
    <3>1. \A j \in 1..n : c[j] \in S
      BY <1>1, ElementOfSeq
    <3> HIDE DEF c, S, x
    <3> QED  BY <1>1, <3>1, SeqDef
  <2> HIDE DEF c, S, x
  <2> QED  BY <1>1, <2>1, <2>2, Extended, AppendProperties
<1>3. \A i \in 1..n : c[i] = Covered(p, records[i])
  BY DEF Chain
<1> DEFINE longer == Append(c, x)
<1>4. longer = [j \in 1..(n + 1) |-> longer[j]]
  <2>1. longer \in Seq(S \cup {x}) /\ DOMAIN longer = 1..(n + 1)
    BY <1>2
  <2> HIDE DEF longer, S, x
  <2> QED  BY <2>1, SeqDef, LenProperties
<1>5. \A j \in 1..(n + 1) : longer[j] = Covered(p, records[j])
  <2> SUFFICES ASSUME NEW j \in 1..(n + 1) PROVE longer[j] = Covered(p, records[j])
    OBVIOUS
  <2>1. CASE j = n + 1
    BY <1>2, <2>1
  <2>2. CASE j \in 1..n
    BY <1>2, <1>3, <2>2
  <2>3. j = n + 1 \/ j \in 1..n
    OBVIOUS
  <2> QED  BY <2>1, <2>2, <2>3
<1> HIDE DEF longer
<1>6. longer = Chain(p, records, n + 1)
  BY <1>4, <1>5 DEF Chain
<1> QED  BY <1>6 DEF longer, c, x

(* The commitment of a valid entity is the chain of what its records cover. *)
LEMMA CommitmentIsChain ==
    ASSUME NEW e, NEW p, HasSchema(e), Valid(e, p)
    PROVE  /\ \A i \in 1..Len(e.records) : e.records[i].commitment = Chain(p, e.records, i)
           /\ e.commitment = Chain(p, e.records, Len(e.records))
<1> DEFINE n == Len(e.records)
           Good == {i \in Nat : i <= n /\ i # 0 => e.records[i].commitment = Chain(p, e.records, i)}
<1>1. n \in Nat /\ DOMAIN e.records = 1..n
  BY Extended DEF HasSchema
<1>2. \A i \in 1..n : e.records[i].commitment =
          Append(IF i = 1 THEN <<>> ELSE e.records[i - 1].commitment, Covered(p, e.records[i]))
  BY DEF Valid, Commitment, Covered
<1>3. e.commitment = IF n = 0 THEN <<>> ELSE e.records[n].commitment
  BY DEF Valid
<1>4. Chain(p, e.records, 0) = <<>>
  BY DEF Chain
<1> HIDE DEF n
<1>5. ASSUME NEW i \in Nat, i \in Good
      PROVE  i + 1 \in Good
  <2> SUFFICES ASSUME i + 1 <= n
               PROVE  e.records[i + 1].commitment = Chain(p, e.records, i + 1)
    OBVIOUS
  <2>1. e.records[i + 1].commitment =
          Append(IF i + 1 = 1 THEN <<>> ELSE e.records[(i + 1) - 1].commitment, Covered(p, e.records[i + 1]))
    BY <1>1, <1>2
  <2>2. (IF i + 1 = 1 THEN <<>> ELSE e.records[(i + 1) - 1].commitment) = Chain(p, e.records, i)
    <3>1. CASE i = 0
      BY <1>4, <3>1
    <3>2. CASE i # 0
      <4>1. (i + 1) - 1 = i /\ i + 1 # 1
        BY <3>2
      <4>2. e.records[i].commitment = Chain(p, e.records, i)
        BY <1>1, <1>5, <3>2
      <4> QED  BY <4>1, <4>2
    <3> QED  BY <3>1, <3>2
  <2> QED  BY <2>1, <2>2, ChainGrows
<1>6. 0 \in Good
  OBVIOUS
<1> HIDE DEF Good
<1>7. Nat \subseteq Good
  BY <1>5, <1>6, UpwardInduction
<1>8. \A i \in 1..n : e.records[i].commitment = Chain(p, e.records, i)
  BY <1>1, <1>7 DEF Good
<1> QED  BY <1>1, <1>3, <1>4, <1>8 DEF n

(* Two valid entities of a payment with one commitment, or the same records. *)
LEMMA OneValidEntity ==
    ASSUME NEW p, NEW e, NEW f, HasSchema(e), HasSchema(f), Valid(e, p), Valid(f, p),
           Len(e.records) # 0, e.commitment = f.commitment \/ e.records = f.records
    PROVE  e = f
<1> DEFINE n == Len(e.records)
           m == Len(f.records)
<1>1. /\ n \in Nat /\ DOMAIN e.records = 1..n /\ m \in Nat /\ DOMAIN f.records = 1..m
      /\ e.records = [i \in 1..n |-> e.records[i]] /\ f.records = [i \in 1..m |-> f.records[i]]
  <2>1. \A s : IsSequence(s) => Len(s) \in Nat /\ DOMAIN s = 1..Len(s)
    BY Extended
  <2>2. \A s : IsSequence(s) => s = [i \in 1..Len(s) |-> s[i]]
    BY SeqDef DEF IsSequence
  <2> QED  BY <2>1, <2>2 DEF HasSchema
<1>2. /\ \A i \in 1..n : e.records[i].commitment = Chain(p, e.records, i)
      /\ e.commitment = Chain(p, e.records, n)
  BY CommitmentIsChain
<1>3. /\ \A i \in 1..m : f.records[i].commitment = Chain(p, f.records, i)
      /\ f.commitment = Chain(p, f.records, m)
  BY CommitmentIsChain
<1>4. e.records = f.records
  <2>1. SUFFICES ASSUME Chain(p, e.records, n) = Chain(p, f.records, m)
                 PROVE  e.records = f.records
    BY <1>2, <1>3
  <2>2. n = m
    <3>1. DOMAIN Chain(p, e.records, n) = 1..n /\ DOMAIN Chain(p, f.records, m) = 1..m
      BY DEF Chain
    <3>2. 1..n = 1..m
      BY <2>1, <3>1
    <3> HIDE DEF n, m
    <3>3. n \in 1..n
      BY <1>1 DEF n
    <3> QED  BY <1>1, <3>2, <3>3
  <2> HIDE DEF n, m
  <2>3. \A i \in 1..n : Covered(p, e.records[i]) = Covered(p, f.records[i])
    <3> SUFFICES ASSUME NEW i \in 1..n
                 PROVE  Covered(p, e.records[i]) = Covered(p, f.records[i])
      OBVIOUS
    <3>1. Chain(p, e.records, n)[i] = Covered(p, e.records[i])
      BY DEF Chain
    <3>2. Chain(p, f.records, m)[i] = Covered(p, f.records[i])
      BY <2>2 DEF Chain
    <3> QED  BY <2>1, <3>1, <3>2
  <2>4. \A i \in 1..n : Chain(p, e.records, i) = Chain(p, f.records, i)
    <3> SUFFICES ASSUME NEW i \in 1..n
                 PROVE  Chain(p, e.records, i) = Chain(p, f.records, i)
      OBVIOUS
    <3>1. \A j \in 1..i : Covered(p, e.records[j]) = Covered(p, f.records[j])
      BY <1>1, <2>3
    <3> QED  BY <3>1 DEF Chain
  <2>5. \A i \in 1..n : e.records[i] = f.records[i]
    <3> SUFFICES ASSUME NEW i \in 1..n
                 PROVE  e.records[i] = f.records[i]
      OBVIOUS
    <3> DEFINE r == e.records[i]
               s == f.records[i]
    <3>1. /\ r = [key |-> r.key, op |-> r.op, fingerprint |-> r.fingerprint,
                  event |-> r.event, commitment |-> r.commitment]
          /\ s = [key |-> s.key, op |-> s.op, fingerprint |-> s.fingerprint,
                  event |-> s.event, commitment |-> s.commitment]
      BY <1>1, <2>2 DEF HasSchema
    <3>2. r.commitment = s.commitment
      BY <1>2, <1>3, <2>2, <2>4
    <3>3. r.key = s.key /\ r.op = s.op /\ r.fingerprint = s.fingerprint /\ r.event = s.event
      <4>1. Covered(p, r) = Covered(p, s)
        BY <2>3
      <4> HIDE DEF r, s
      <4> QED  BY <4>1 DEF Covered
    <3> HIDE DEF r, s
    <3>4. r = s
      BY <3>1, <3>2, <3>3
    <3> QED  BY <3>4 DEF r, s
  <2> QED  BY <1>1, <2>2, <2>5
<1>5. e.payment = f.payment /\ e.last = f.last /\ e.state = f.state /\ e.commitment = f.commitment
  BY <1>4 DEF Valid
<1>6. e.terms = f.terms
  <2>1. 1 \in 1..n /\ 1 \in 1..m
    BY <1>1, <1>4
  <2>2. /\ e.records[1].op \in Openers
        /\ e.records[1].fingerprint = RecordFingerprint(p, e.records[1], e.terms)
        /\ f.records[1].fingerprint = RecordFingerprint(p, f.records[1], f.terms)
    BY <2>1 DEF Valid
  <2>3. e.records[1] = f.records[1]
    BY <1>4
  <2> QED  BY <2>2, <2>3 DEF RecordFingerprint
<1> QED  BY <1>4, <1>5, <1>6 DEF HasSchema

(* _validated_state detects every rewriting of one field. *)
LEMMA RewritingDetected ==
    ASSUME NEW p, NEW e, NEW f, HasSchema(e), HasSchema(f), Valid(e, p), Len(e.records) # 0,
           NEW field \in DOMAIN e, f = [e EXCEPT ![field] = f[field]], e # f
    PROVE  ~Valid(f, p)
<1>1. e = [payment |-> e.payment, state |-> e.state, terms |-> e.terms, last |-> e.last,
           commitment |-> e.commitment, records |-> e.records]
  BY DEF HasSchema
<1>2. e.commitment = f.commitment \/ e.records = f.records
  <2>1. CASE field = "commitment"
    BY <1>1, <2>1
  <2>2. CASE field # "commitment"
    BY <1>1, <2>2
  <2> QED  BY <2>1, <2>2
<1> QED  BY <1>2, OneValidEntity

(* Nor does it become valid, as long as nobody writes it. *)
LEMMA InvalidStays ==
    ASSUME NEW e, NEW p, setUp' = setUp, ~Valid(e, p)
    PROVE  ~Valid(e, p)'
<1>1. rail' = rail
  BY DEF rail
<1>2. Transitions' = Transitions /\ Openers' = Openers
  BY <1>1 DEF Transitions, Openers
<1>3. Operations' = Operations
  BY <1>2 DEF Operations
<1>4. TermsOK(e.terms)' <=> TermsOK(e.terms)
  BY <1>1 DEF TermsOK
<1>5. Replay(e.records)' = Replay(e.records)
  BY <1>2 DEF Replay, Legal
<1>6. \A i : RecordFingerprint(p, e.records[i], e.terms)' = RecordFingerprint(p, e.records[i], e.terms)
  BY <1>2 DEF RecordFingerprint
<1> HIDE DEF Transitions, Openers
<1> QED  BY <1>2, <1>3, <1>4, <1>5, <1>6 DEF Valid

OwnerInv ==
    /\ RailInv
    /\ \A p \in Payments : entity[p] # Missing =>
          IF p \in tampered THEN ~Valid(entity[p], p)
          ELSE HasSchema(entity[p]) /\ Len(entity[p].records) # 0
    /\ \A p \in tampered : p \in Payments /\ entity[p] # Missing

LEMMA UpdatedSchema ==
    ASSUME NEW e, NEW cmd, HasSchema(e)
    PROVE  HasSchema(Updated(e, cmd)) /\ Len(Updated(e, cmd).records) # 0
<1> DEFINE record == [key |-> cmd.key, op |-> cmd.op, fingerprint |-> Fingerprint(cmd),
                      event |-> uuids, commitment |-> <<>>]
           sealed == [record EXCEPT !.commitment = Commitment(e.commitment, e.payment, record)]
           next == Transitions[<<e.state, cmd.op>>].state
           more == Append(e.records, sealed)
<1>1. Updated(e, cmd) = [e EXCEPT !.state = next, !.last = uuids,
                                  !.commitment = sealed.commitment, !.records = Append(@, sealed)]
  BY DEF Updated
<1>2. sealed = [key |-> sealed.key, op |-> sealed.op, fingerprint |-> sealed.fingerprint,
                event |-> sealed.event, commitment |-> sealed.commitment]
  OBVIOUS
<1> HIDE DEF record, sealed, next
<1>3. Updated(e, cmd) = [payment |-> e.payment, state |-> next, terms |-> e.terms,
                         last |-> uuids, commitment |-> sealed.commitment, records |-> more]
  BY <1>1 DEF HasSchema
<1>4. /\ Len(e.records) \in Nat /\ IsSequence(more) /\ Len(more) = Len(e.records) + 1
      /\ DOMAIN more = 1..(Len(e.records) + 1) /\ DOMAIN e.records = 1..Len(e.records)
      /\ more[Len(e.records) + 1] = sealed /\ \A i \in 1..Len(e.records) : more[i] = e.records[i]
  BY Extended DEF HasSchema
<1> HIDE DEF more
<1>5. ASSUME NEW i \in DOMAIN more
      PROVE  more[i] = [key |-> more[i].key, op |-> more[i].op, fingerprint |-> more[i].fingerprint,
                        event |-> more[i].event, commitment |-> more[i].commitment]
  <2>1. CASE i = Len(e.records) + 1
    BY <1>2, <1>4, <2>1
  <2>2. CASE i \in DOMAIN e.records
    BY <1>4, <2>2 DEF HasSchema
  <2> QED  BY <1>4, <2>1, <2>2
<1>6. Len(more) # 0
  BY <1>4
<1> QED  BY <1>3, <1>4, <1>5, <1>6 DEF HasSchema

LEMMA LoadedSchema ==
    ASSUME NEW cmd, entity[cmd.payment] # Missing => HasSchema(entity[cmd.payment])
    PROVE  HasSchema(Loaded(cmd))
<1>1. CASE entity[cmd.payment] = Missing
  <2>1. DOMAIN <<>> = {}
    OBVIOUS
  <2> QED  BY <1>1, <2>1, EmptyIsSequence DEF Loaded, OpeningEntity, HasSchema
<1>2. CASE entity[cmd.payment] # Missing
  BY <1>2 DEF Loaded
<1> QED  BY <1>1, <1>2

LEMMA OwnerStarts == Init => OwnerInv
  BY RailStarts DEF Init, OwnerInv

(* What is loaded is not what somebody rewrote. *)
LEMMA LoadsUntouched ==
    ASSUME OwnerInv, NEW cmd \in Commands, Loads(cmd)
    PROVE  cmd.payment \in Payments \ tampered
<1>1. cmd.payment \in Payments
  BY SetUpsTyped DEF OwnerInv, RailInv, Commands, Payments
<1>2. entity[cmd.payment] # Missing => Valid(entity[cmd.payment], cmd.payment)
  BY DEF Loads, Loaded
<1> QED  BY <1>1, <1>2 DEF OwnerInv

LEMMA OwnerKeeps ==
    ASSUME MissingIsNoEntity, RewritesOneField, OwnerInv, [Next]_vars
    PROVE  OwnerInv'
<1> USE DEF OwnerInv
<1>1. RailInv'
  BY RailKeeps
<1>2. setUp' = setUp /\ Payments' = Payments
  BY DEF Next, vars, Payments
<1>3. CASE UNCHANGED <<entity, tampered>>
  <2> SUFFICES ASSUME NEW p \in Payments, entity[p] # Missing, p \in tampered
               PROVE  ~Valid(entity[p], p)'
    BY <1>1, <1>2, <1>3
  <2>1. PICK e : e = entity[p]
    OBVIOUS
  <2>2. ~Valid(e, p)'
    BY <1>2, <2>1, InvalidStays
  <2> QED  BY <1>3, <2>1, <2>2
<1>4. ASSUME NEW cmd \in Commands, HandleAdvance(cmd)
      PROVE  OwnerInv'
  <2>1. Loads(cmd)
    BY <1>4 DEF HandleAdvance, Advances
  <2>2. cmd.payment \in Payments \ tampered
    BY <2>1, LoadsUntouched
  <2>3. /\ tampered' = tampered
        /\ entity' = [entity EXCEPT ![cmd.payment] = Updated(Loaded(cmd), cmd)]
        /\ entity = [p \in Payments |-> entity[p]]
    BY <1>4 DEF HandleAdvance, RailInv
  <2>4. HasSchema(Loaded(cmd))
    BY <2>2, LoadedSchema
  <2>5. HasSchema(Updated(Loaded(cmd), cmd)) /\ Len(Updated(Loaded(cmd), cmd).records) # 0
    BY <2>4, UpdatedSchema
  <2> DEFINE new == Updated(Loaded(cmd), cmd)
  <2> HIDE DEF new
  <2>6. entity'[cmd.payment] = new /\ \A p \in Payments : p # cmd.payment => entity'[p] = entity[p]
    BY <2>2, <2>3 DEF new
  <2>7. ASSUME NEW p \in Payments, entity'[p] # Missing
        PROVE  IF p \in tampered' THEN ~Valid(entity[p], p)'
               ELSE HasSchema(entity'[p]) /\ Len(entity'[p].records) # 0
    <3>1. CASE p = cmd.payment
      BY <2>2, <2>3, <2>5, <2>6, <3>1 DEF new
    <3>2. CASE p # cmd.payment
      <4>1. PICK e : e = entity[p] /\ e = entity'[p]
        BY <2>6, <3>2
      <4>2. p \in tampered => ~Valid(e, p)'
        BY <1>2, <2>7, <4>1, InvalidStays
      <4> QED  BY <2>3, <2>7, <4>1, <4>2
    <3> QED  BY <3>1, <3>2
  <2>8. \A p \in tampered' : p \in Payments /\ entity'[p] # Missing
    BY <2>2, <2>3, <2>6
  <2> QED  BY <1>1, <1>2, <2>7, <2>8
<1>5. ASSUME NEW q \in Payments, Tamper(q)
      PROVE  OwnerInv'
  <2>1. PICK f \in Tampers(entity[q]) : f # entity[q] /\ entity' = [entity EXCEPT ![q] = f]
    BY <1>5 DEF Tamper
  <2>2. tampered = {} /\ tampered' = {q} /\ entity[q] # Missing
    BY <1>5 DEF Tamper
  <2>3. HasSchema(entity[q]) /\ Len(entity[q].records) # 0 /\ Valid(entity[q], q)
    BY <2>2 DEF RailInv, Whole
  <2>4. HasSchema(f) /\ \E field \in DOMAIN entity[q] : f = [entity[q] EXCEPT ![field] = f[field]]
    BY <2>1, <2>3 DEF RewritesOneField
  <2>5. ~Valid(f, q)
    BY <2>1, <2>3, <2>4, RewritingDetected
  <2>6. ~Valid(f, q)'
    BY <1>2, <2>5, InvalidStays
  <2>7. f # Missing
    BY <2>4, Zenon DEF HasSchema, MissingIsNoEntity
  <2>8. entity'[q] = f /\ \A p \in Payments : p # q => entity'[p] = entity[p]
    BY <2>1 DEF RailInv
  <2>9. ~Valid(entity[q], q)'
    BY <2>6, <2>8
  <2> QED  BY <1>1, <1>2, <2>2, <2>7, <2>8, <2>9
<1>6. ASSUME NEW cmd \in Commands, HandleRetry(cmd) \/ HandleUnfunded(cmd) \/ HandleIllegal(cmd)
      PROVE  OwnerInv'
  <2>1. UNCHANGED <<entity, tampered>>
    BY <1>6 DEF HandleRetry, HandleUnfunded, HandleIllegal, vars
  <2> QED  BY <1>3, <2>1
<1>7. CASE UNCHANGED vars
  BY <1>3, <1>7 DEF vars
<1> QED  BY <1>4, <1>5, <1>6, <1>7 DEF Next

(* Only what is loaded is logged. *)
LEMMA LogsUntouched ==
    ASSUME OwnerInv, [Next]_vars
    PROVE  \A p \in tampered : log' = log \/ log'[Len(log')].payment # p
<1>1. ASSUME NEW cmd \in Commands, HandleAdvance(cmd)
      PROVE  \A p \in tampered : log'[Len(log')].payment # p
  <2> DEFINE event == [payment |-> cmd.payment, op |-> cmd.op, effect |-> Effect(cmd),
                       event |-> uuids, previous |-> Loaded(cmd).last]
  <2>1. cmd.payment \notin tampered
    BY <1>1, LoadsUntouched DEF HandleAdvance, Advances
  <2>2. log' = Append(log, event)
    BY <1>1 DEF HandleAdvance
  <2>3. event.payment = cmd.payment
    OBVIOUS
  <2> HIDE DEF event
  <2>4. Len(log') = Len(log) + 1 /\ log'[Len(log) + 1] = event
    BY <2>2, Extended DEF OwnerInv, RailInv
  <2> QED  BY <2>1, <2>3, <2>4
<1>2. ASSUME NEW cmd \in Commands, HandleRetry(cmd) \/ HandleUnfunded(cmd) \/ HandleIllegal(cmd)
      PROVE  log' = log
  BY <1>2 DEF HandleRetry, HandleUnfunded, HandleIllegal, vars
<1>3. ASSUME NEW p \in Payments, Tamper(p)
      PROVE  log' = log
  BY <1>3 DEF Tamper
<1>4. CASE UNCHANGED vars
  BY <1>4 DEF vars
<1> QED  BY <1>1, <1>2, <1>3, <1>4 DEF Next

(* Whichever field of a payment's entity the owner rewrites, and to whatever
   value, no event of that payment is logged any more (_validated_state of
   card.py and a2a.py: CARD_STATE_CORRUPT and its like fail the engine). *)
THEOREM CorruptionAlwaysContained ==
    ASSUME MissingIsNoEntity, RewritesOneField
    PROVE  Spec => CorruptionContained
<1>1. OwnerInv /\ [Next]_vars => OwnerInv'
  BY OwnerKeeps
<1>2. OwnerInv /\ [Next]_vars => [\A p \in tampered : log' = log \/ log'[Len(log')].payment # p]_vars
  BY LogsUntouched
<1> QED  BY <1>1, <1>2, OwnerStarts, PTL DEF Spec, CorruptionContained
-----------------------------------------------------------------------------
(***************************************************************************)
(* The oracle's replay of the log.                                          *)
(***************************************************************************)
(* What it adds up when it finds nothing wrong: one transfer per event. *)
Blank(held) == [balances |-> held, reasons |-> {}]

Runs(events, held, n, after) ==
    after = [i \in 0..n |->
                IF i = 0 THEN Blank(held) ELSE Transfer(after[i - 1], Effects(events[i]))]

Faultless(events) ==
    \A i \in DOMAIN events :
        AccountsApart(events[i]) /\ FeeGiven(events[i]) /\ SameContract(events, i)

LEMMA RunsExist ==
    ASSUME NEW events, NEW held
    PROVE  \A n \in Nat : \E after : Runs(events, held, n, after)
<1> DEFINE G == {n \in Nat : \E after : Runs(events, held, n, after)}
<1>1. 0 \in G
  <2> DEFINE h == [i \in 0..0 |-> Blank(held)]
  <2>1. Runs(events, held, 0, h)
    BY DEF Runs
  <2> QED  BY <2>1
<1>2. ASSUME NEW n \in Nat, n \in G
      PROVE  n + 1 \in G
  <2>1. PICK h : Runs(events, held, n, h)
    BY <1>2
  <2> DEFINE g == [i \in 0..(n + 1) |->
                      IF i = n + 1 THEN Transfer(h[n], Effects(events[n + 1])) ELSE h[i]]
  <2>2. \A i \in 0..n : h[i] = IF i = 0 THEN Blank(held) ELSE Transfer(h[i - 1], Effects(events[i]))
    BY <2>1 DEF Runs
  <2>3. \A i \in 0..n : g[i] = h[i]
    OBVIOUS
  <2>4. \A i \in 0..(n + 1) :
            g[i] = IF i = 0 THEN Blank(held) ELSE Transfer(g[i - 1], Effects(events[i]))
    <3> SUFFICES ASSUME NEW i \in 0..(n + 1)
                 PROVE  g[i] = IF i = 0 THEN Blank(held) ELSE Transfer(g[i - 1], Effects(events[i]))
      OBVIOUS
    <3>1. CASE i = n + 1
      <4>1. i # 0 /\ i - 1 = n /\ n \in 0..n
        BY <3>1
      <4>2. g[n] = h[n] /\ g[i] = Transfer(h[n], Effects(events[i]))
        BY <2>3, <3>1, <4>1
      <4> HIDE DEF g
      <4> QED  BY <4>1, <4>2
    <3>2. CASE i # n + 1
      <4>1. i \in 0..n /\ (i # 0 => i - 1 \in 0..n)
        BY <3>2
      <4> QED  BY <2>2, <2>3, <4>1
    <3> QED  BY <3>1, <3>2
  <2>5. g = [i \in 0..(n + 1) |-> g[i]]
    OBVIOUS
  <2> HIDE DEF g
  <2>6. Runs(events, held, n + 1, g)
    BY <2>4, <2>5 DEF Runs
  <2> QED  BY <2>6
<1> HIDE DEF G
<1>3. Nat \subseteq G
  BY <1>1, <1>2, UpwardInduction
<1> QED  BY <1>3 DEF G

(* One event as _check_balances takes it, and the whole pass. *)
Taken(events, i, account) ==
    LET refuse(reason) == [account EXCEPT !.reasons = @ \cup {reason}]
    IN  IF ~AccountsApart(events[i]) THEN refuse("ACCOUNT_EVIDENCE_INVALID")
        ELSE IF ~FeeGiven(events[i]) THEN refuse("FEE_EVIDENCE_INVALID")
        ELSE IF ~SameContract(events, i) THEN refuse("ECONOMIC_EVIDENCE_INCONSISTENT")
        ELSE Transfer(account, Effects(events[i]))

Passes(events, held, after) ==
    after = [i \in 0..Len(events) |-> IF i = 0 THEN Blank(held) ELSE Taken(events, i, after[i - 1])]

LEMMA AccountedPasses ==
    ASSUME NEW events, NEW held
    PROVE  Accounted(events, held) = (CHOOSE after : Passes(events, held, after))[Len(events)]
BY DEF Accounted, Passes, Taken, Blank

LEMMA AccountedIs ==
    ASSUME NEW events, NEW held, Len(events) \in Nat, DOMAIN events = 1..Len(events),
           Faultless(events), NEW f, Runs(events, held, Len(events), f)
    PROVE  Accounted(events, held) = f[Len(events)]
<1> DEFINE n == Len(events)
           g == CHOOSE after : Passes(events, held, after)
<1>1. \A i \in 1..n : \A account : Taken(events, i, account) = Transfer(account, Effects(events[i]))
  BY DEF Faultless, Taken
<1>2. f = [i \in 0..n |-> IF i = 0 THEN Blank(held) ELSE Transfer(f[i - 1], Effects(events[i]))]
  BY DEF Runs
<1>3. \A i \in 0..n : i # 0 => i \in 1..n
  OBVIOUS
<1> HIDE DEF n, g
<1>4. f = [i \in 0..n |-> IF i = 0 THEN Blank(held) ELSE Taken(events, i, f[i - 1])]
  <2>1. \A i \in 0..n : (IF i = 0 THEN Blank(held) ELSE Transfer(f[i - 1], Effects(events[i])))
                        = (IF i = 0 THEN Blank(held) ELSE Taken(events, i, f[i - 1]))
    BY <1>1, <1>3
  <2> QED  BY <1>2, <2>1
<1>5. Passes(events, held, g)
  <2>1. Passes(events, held, f)
    BY <1>4 DEF Passes, n
  <2> QED  BY <2>1 DEF g
<1>6. g = [i \in 0..n |-> IF i = 0 THEN Blank(held) ELSE Taken(events, i, g[i - 1])]
  BY <1>5 DEF Passes, n
<1> DEFINE G == {i \in Nat : i <= n => g[i] = f[i]}
<1>7. n \in Nat
  BY DEF n
<1>8. 0 \in G
  BY <1>4, <1>6, <1>7
<1>9. ASSUME NEW i \in Nat, i \in G
      PROVE  i + 1 \in G
  <2> SUFFICES ASSUME i + 1 <= n PROVE g[i + 1] = f[i + 1]
    OBVIOUS
  <2>1. i + 1 \in 0..n /\ i + 1 # 0 /\ (i + 1) - 1 = i /\ g[i] = f[i]
    BY <1>7, <1>9
  <2>2. g[i + 1] = Taken(events, i + 1, g[i])
    BY <1>6, <2>1
  <2>3. f[i + 1] = Taken(events, i + 1, f[i])
    BY <1>4, <2>1
  <2> QED  BY <2>1, <2>2, <2>3
<1> HIDE DEF G
<1>10. Nat \subseteq G
  BY <1>8, <1>9, UpwardInduction
<1>11. g[n] = f[n]
  BY <1>7, <1>10 DEF G
<1> QED  BY <1>11, AccountedPasses DEF g, n

LEMMA AccountedNothing ==
    ASSUME NEW held
    PROVE  Accounted(<<>>, held) = Blank(held)
<1>1. Len(<<>>) = 0 /\ DOMAIN <<>> = 1..Len(<<>>) /\ Faultless(<<>>)
  BY DEF Faultless
<1>2. PICK f : Runs(<<>>, held, 0, f)
  BY RunsExist
<1>3. f[0] = Blank(held)
  BY <1>2 DEF Runs
<1> QED  BY <1>1, <1>2, <1>3, AccountedIs

(* One event more is one transfer more. *)
LEMMA AccountedGrows ==
    ASSUME NEW events, NEW longer, NEW held, NEW n \in Nat,
           Len(events) = n, DOMAIN events = 1..n, Len(longer) = n + 1, DOMAIN longer = 1..(n + 1),
           \A i \in 1..n : longer[i] = events[i], Faultless(events), Faultless(longer)
    PROVE  Accounted(longer, held) = Transfer(Accounted(events, held), Effects(longer[n + 1]))
<1>1. PICK f : Runs(longer, held, n + 1, f)
  BY RunsExist
<1>2. /\ f[0] = Blank(held)
      /\ \A i \in 1..(n + 1) : f[i] = Transfer(f[i - 1], Effects(longer[i]))
  BY <1>1 DEF Runs
<1> DEFINE g == [i \in 0..n |-> f[i]]
<1>3. Runs(events, held, n, g)
  <2>1. ASSUME NEW i \in 0..n
        PROVE  f[i] = IF i = 0 THEN Blank(held) ELSE Transfer(g[i - 1], Effects(events[i]))
    <3>1. CASE i = 0
      BY <1>2, <3>1
    <3>2. CASE i # 0
      <4>1. i \in 1..n /\ i \in 1..(n + 1) /\ i - 1 \in 0..n
        BY <3>2
      <4>2. g[i - 1] = f[i - 1]
        BY <4>1
      <4> HIDE DEF g
      <4> QED  BY <1>2, <3>2, <4>1, <4>2
    <3> QED  BY <3>1, <3>2
  <2>2. g = [i \in 0..n |-> IF i = 0 THEN Blank(held) ELSE Transfer(g[i - 1], Effects(events[i]))]
    <3> DEFINE r(i) == IF i = 0 THEN Blank(held) ELSE Transfer(g[i - 1], Effects(events[i]))
    <3>1. \A i \in 0..n : f[i] = r(i)
      BY <2>1
    <3> HIDE DEF r
    <3>2. g = [i \in 0..n |-> r(i)]
      BY <3>1
    <3> QED  BY <3>2 DEF r
  <2> HIDE DEF g
  <2> QED  BY <2>2 DEF Runs
<1>4. Accounted(events, held) = g[n]
  <2> HIDE DEF g
  <2> QED  BY <1>3, AccountedIs
<1>5. g[n] = f[n]
  OBVIOUS
<1>6. Accounted(longer, held) = f[n + 1]
  BY <1>1, AccountedIs
<1>7. n + 1 \in 1..(n + 1) /\ (n + 1) - 1 = n
  OBVIOUS
<1> HIDE DEF g
<1> QED  BY <1>2, <1>4, <1>5, <1>6, <1>7
-----------------------------------------------------------------------------
(* The oracle's effect of an event is what the rail's table posts for it. *)
IsSide(side, ends) == side = [a \in DOMAIN side |-> side[a]] /\ DOMAIN side \subseteq ends

Matches(effect, legs, ends) ==
    /\ effect.from = legs.debit /\ effect.to = legs.credit
    /\ IsSide(legs.debit, ends) /\ IsSide(legs.credit, ends)

Ends(r, terms) == {terms[role] : role \in RolesOf(r)}

LEMMA CardEffects ==
    ASSUME NEW row \in CardTable, NEW e, e.rail = "card", e.kind = row[2]
    PROVE  Matches(Effects(e), CardMovement(row[4], e.terms), Ends("card", e.terms))
<1> DEFINE t == e.terms
           net == [a \in {t.payee, t.fees} |-> IF a = t.payee THEN t.amount - t.fee ELSE t.fee]
           gross(role) == [a \in {t[role]} |-> t.amount]
           nothing == <<>>
<1>1. /\ t.payer \in Ends("card", t) /\ t.payee \in Ends("card", t) /\ t.fees \in Ends("card", t)
      /\ t.hold \in Ends("card", t) /\ t.chargeback \in Ends("card", t)
  BY DEF Ends, RolesOf
<1>2. /\ \A role \in {"payer", "hold", "chargeback"} : IsSide(gross(role), Ends("card", t))
      /\ IsSide(net, Ends("card", t)) /\ IsSide(nothing, Ends("card", t))
  BY <1>1 DEF IsSide
<1> HIDE DEF net, gross, nothing
<1> DEFINE effect == Effects(e)
           legs == CardMovement(row[4], t)
           moved(from, to) == [from |-> from, to |-> to]
<1>3. \/ effect = moved(gross("payer"), gross("hold"))
         /\ legs = [debit |-> gross("payer"), credit |-> gross("hold")]
      \/ effect = moved(gross("hold"), gross("payer"))
         /\ legs = [debit |-> gross("hold"), credit |-> gross("payer")]
      \/ effect = moved(gross("hold"), net)
         /\ legs = [debit |-> gross("hold"), credit |-> net]
      \/ effect = moved(net, gross("payer"))
         /\ legs = [debit |-> net, credit |-> gross("payer")]
      \/ effect = moved(net, gross("chargeback"))
         /\ legs = [debit |-> net, credit |-> gross("chargeback")]
      \/ effect = moved(gross("chargeback"), gross("payer"))
         /\ legs = [debit |-> gross("chargeback"), credit |-> gross("payer")]
      \/ effect = moved(nothing, nothing)
         /\ legs = [debit |-> nothing, credit |-> nothing]
  <2>1. Effects(e) =
          CASE e.kind = "authorize"  -> moved(gross("payer"), gross("hold"))
            [] e.kind = "reverse"    -> moved(gross("hold"), gross("payer"))
            [] e.kind = "settle"     -> moved(gross("hold"), net)
            [] e.kind = "refund"     -> moved(net, gross("payer"))
            [] e.kind = "chargeback" -> moved(net, gross("chargeback"))
            [] e.kind = "recover"    -> moved(gross("chargeback"), gross("payer"))
            [] OTHER -> moved(nothing, nothing)
    BY DEF Effects, nothing, gross, net
  <2>2. legs =
          CASE row[4] = "none"         -> [debit |-> nothing, credit |-> nothing]
            [] row[4] = "hold"         -> [debit |-> gross("payer"), credit |-> gross("hold")]
            [] row[4] = "release_hold" -> [debit |-> gross("hold"), credit |-> gross("payer")]
            [] row[4] = "settle"       -> [debit |-> gross("hold"), credit |-> net]
            [] row[4] = "refund"       -> [debit |-> net, credit |-> gross("payer")]
            [] row[4] = "chargeback"   -> [debit |-> net, credit |-> gross("chargeback")]
            [] row[4] = "recovery"     -> [debit |-> gross("chargeback"), credit |-> gross("payer")]
    BY DEF CardMovement, nothing, gross, net
  <2> HIDE DEF legs, t, moved
  <2> QED  BY <2>1, <2>2 DEF CardTable
<1>4. Matches(effect, legs, Ends("card", t))
  <2> HIDE DEF effect, legs, t
  <2> QED  BY <1>2, <1>3 DEF Matches
<1> QED  BY <1>4

LEMMA A2AEffects ==
    ASSUME NEW row \in A2ATable, NEW e, e.rail = "a2a", e.kind = row[2]
    PROVE  Matches(Effects(e), A2AMovement(row[4], e.terms), Ends("a2a", e.terms))
<1> DEFINE t == e.terms
           paid == [a \in {t.payee, t.fees} |-> IF a = t.payee THEN t.amount ELSE t.fee]
           dear == [a \in {t.payer} |-> t.amount + t.fee]
           gross(role) == [a \in {t[role]} |-> t.amount]
           nothing == <<>>
<1>1. /\ t.payer \in Ends("a2a", t) /\ t.payee \in Ends("a2a", t) /\ t.fees \in Ends("a2a", t)
      /\ t.frozen \in Ends("a2a", t)
  BY DEF Ends, RolesOf
<1>2. /\ \A role \in {"payer", "payee", "frozen"} : IsSide(gross(role), Ends("a2a", t))
      /\ IsSide(paid, Ends("a2a", t)) /\ IsSide(dear, Ends("a2a", t))
      /\ IsSide(nothing, Ends("a2a", t))
  BY <1>1 DEF IsSide
<1> DEFINE effect == Effects(e)
           legs == A2AMovement(row[4], t)
           moved(from, to) == [from |-> from, to |-> to]
<1>3. Effects(e) =
        CASE e.kind = "post"    -> moved(dear, paid)
          [] e.kind = "return"  -> moved(gross("payee"), gross("payer"))
          [] e.kind = "freeze"  -> moved(gross("payee"), gross("frozen"))
          [] e.kind = "recover" -> moved(gross("frozen"), gross("payer"))
          [] OTHER -> moved(nothing, nothing)
  BY DEF Effects, nothing
<1>4. legs =
        CASE row[4] = "none"     -> [debit |-> nothing, credit |-> nothing]
          [] row[4] = "post"     -> [debit |-> dear, credit |-> paid]
          [] row[4] = "return"   -> [debit |-> gross("payee"), credit |-> gross("payer")]
          [] row[4] = "freeze"   -> [debit |-> gross("payee"), credit |-> gross("frozen")]
          [] row[4] = "recovery" -> [debit |-> gross("frozen"), credit |-> gross("payer")]
  BY DEF A2AMovement, nothing, gross, paid, dear
<1> HIDE DEF legs, t, moved, paid, dear, gross, nothing
<1>5. \/ effect = moved(dear, paid) /\ legs = [debit |-> dear, credit |-> paid]
      \/ effect = moved(gross("payee"), gross("payer"))
         /\ legs = [debit |-> gross("payee"), credit |-> gross("payer")]
      \/ effect = moved(gross("payee"), gross("frozen"))
         /\ legs = [debit |-> gross("payee"), credit |-> gross("frozen")]
      \/ effect = moved(gross("frozen"), gross("payer"))
         /\ legs = [debit |-> gross("frozen"), credit |-> gross("payer")]
      \/ effect = moved(nothing, nothing) /\ legs = [debit |-> nothing, credit |-> nothing]
  BY <1>3, <1>4 DEF A2ATable
<1> HIDE DEF effect
<1>6. Matches(effect, legs, Ends("a2a", t))
  BY <1>2, <1>5 DEF Matches, moved
<1> QED  BY <1>6 DEF effect, legs, t

LEMMA RailEffects ==
    ASSUME RailsOfTheCode, NEW r \in {"card", "a2a"}, NEW t \in DOMAIN TransitionsOf(r), NEW e,
           e.rail = r, e.kind = t[2]
    PROVE  Matches(Effects(e), MovementOf(r, TransitionsOf(r)[t].effect, e.terms), Ends(r, e.terms))
<1>1. CASE r = "card"
  <2>1. /\ TransitionsOf(r) = CardTransitions
        /\ \A effect : MovementOf(r, effect, e.terms) = CardMovement(effect, e.terms)
    BY <1>1 DEF RailsOfTheCode, IsCard
  <2>2. PICK row \in CardTable : t[2] = row[2] /\ CardTransitions[t] = Step(row[3], row[4])
    BY <2>1, CardRow
  <2>3. CardTransitions[t].effect = row[4]
    BY <2>2 DEF Step
  <2>4. Matches(Effects(e), CardMovement(row[4], e.terms), Ends("card", e.terms))
    BY <1>1, <2>2, CardEffects
  <2> QED  BY <1>1, <2>1, <2>3, <2>4
<1>2. CASE r = "a2a"
  <2>1. /\ TransitionsOf(r) = A2ATransitions
        /\ \A effect : MovementOf(r, effect, e.terms) = A2AMovement(effect, e.terms)
    BY <1>2 DEF RailsOfTheCode, IsA2A
  <2>2. PICK row \in A2ATable : t[2] = row[2] /\ A2ATransitions[t] = A2AStep(row[3], row[4])
    BY <2>1, A2ARow
  <2>3. A2ATransitions[t].effect = row[4]
    BY <2>2 DEF A2AStep
  <2>4. Matches(Effects(e), A2AMovement(row[4], e.terms), Ends("a2a", e.terms))
    BY <1>2, <2>2, A2AEffects
  <2> QED  BY <1>2, <2>1, <2>3, <2>4
<1> QED  BY <1>1, <1>2

OnAccounts(b) == [a \in Accounts |-> b[Column(a)]]

(* The oracle adds up a side as the ledger does. *)
LEMMA LedgerTotals ==
    ASSUME NEW legs
    PROVE  L!LegTotal(legs) = SumFunction(legs)
BY DEF L!LegTotal, L!SumFunction, SumFunction, L!SumFunctionOnSet, SumFunctionOnSet,
       L!FoldFunctionOnSet, FoldFunctionOnSet, L!MapThenFoldSet, MapThenFoldSet

(* A posting that the ledger accepts is one the oracle finds nothing wrong with. *)
LEMMA TransferPosts ==
    ASSUME balances \in [Accounts \X {Currency} -> Int], NEW effect, NEW terms, NEW event,
           L!Post(Entry(effect, terms, event)), NEW shown,
           Matches(shown, Movement(effect, terms), Accounts),
           \A a \in Accounts : /\ L!Leg(Movement(effect, terms).debit, a) \in Nat
                               /\ L!Leg(Movement(effect, terms).credit, a) \in Nat
    PROVE  Transfer(Blank(OnAccounts(balances)), shown) = Blank(OnAccounts(balances'))
<1> DEFINE entry == Entry(effect, terms, event)
           legs == Movement(effect, terms)
           debit == legs.debit
           credit == legs.credit
           normal == L!Normalized(entry)
<1>1. /\ debit = [a \in DOMAIN debit |-> debit[a]] /\ DOMAIN debit \subseteq Accounts
      /\ credit = [a \in DOMAIN credit |-> credit[a]] /\ DOMAIN credit \subseteq Accounts
      /\ shown.from = debit /\ shown.to = credit
  BY DEF Matches, IsSide
<1>2. (\A a \in DOMAIN debit : debit[a] \in Nat) /\ \A a \in DOMAIN credit : credit[a] \in Nat
  <2> HIDE DEF legs
  <2> QED  BY <1>1 DEF L!Leg, legs
<1>3. normal.debit = debit /\ normal.credit = credit /\ normal.currency = Currency
  <2>1. /\ normal.debit = L!NormalizeLegs(debit, Currency)
        /\ normal.credit = L!NormalizeLegs(credit, Currency)
        /\ normal.currency = Currency
    BY DEF L!Normalized, Entry
  <2>2. \A n \in Nat : L!Quantize(n, Currency) = n
    BY DEF L!HalfEven, L!Quantize
  <2> HIDE DEF debit, credit, normal
  <2> QED  BY <1>1, <1>2, <2>1, <2>2 DEF L!NormalizeLegs
<1>4. L!Balanced(normal) /\ ~L!Overdraws(normal)
  BY DEF L!Post, L!Accepts
<1>5. SumFunction(debit) = SumFunction(credit)
  <2>1. L!LegTotal(normal.debit) = L!LegTotal(normal.credit)
    <3> HIDE DEF normal
    <3> QED  BY <1>4 DEF L!Balanced
  <2> HIDE DEF debit, credit, normal
  <2>2. L!LegTotal(debit) = L!LegTotal(credit)
    BY <1>3, <2>1
  <2> QED  BY <2>2, LedgerTotals
<1>6. \A a \in DOMAIN debit : ~(balances[Column(a)] < debit[a])
  <2> SUFFICES ASSUME NEW a \in DOMAIN debit
               PROVE  ~(balances[Column(a)] < debit[a])
    OBVIOUS
  <2> HIDE DEF debit, normal
  <2>1. ~L!CreditAllowed(a, Currency)
    BY DEF L!CreditAllowed
  <2>2. ~(balances[<<a, Currency>>] - debit[a] < 0)
    BY <1>3, <1>4, <2>1 DEF L!Overdraws
  <2>3. balances[<<a, Currency>>] \in Int /\ debit[a] \in Nat
    BY <1>1, <1>2
  <2> QED  BY <2>2, <2>3 DEF Column
<1>7. ASSUME NEW a \in Accounts
      PROVE  balances'[Column(a)] = balances[Column(a)] - L!Leg(debit, a) + L!Leg(credit, a)
  BY PostedLegs
<1> DEFINE account == Blank(OnAccounts(balances))
<1>8. /\ account = [balances |-> OnAccounts(balances), reasons |-> {}]
      /\ DOMAIN account.balances = Accounts
      /\ \A a \in Accounts : account.balances[a] = balances[Column(a)]
  BY DEF Blank, OnAccounts
<1> HIDE DEF debit, credit, legs, account
<1>9. Transfer(account, shown) =
        [account EXCEPT !.balances =
            [a \in Accounts |-> account.balances[a] - L!Leg(debit, a) + L!Leg(credit, a)]]
  BY <1>1, <1>5, <1>6, <1>8 DEF Transfer, L!Leg
<1>10. [a \in Accounts |-> account.balances[a] - L!Leg(debit, a) + L!Leg(credit, a)]
           = OnAccounts(balances')
  BY <1>7, <1>8 DEF OnAccounts
<1>11. Transfer(account, shown) = Blank(OnAccounts(balances'))
  BY <1>8, <1>9, <1>10 DEF Blank
<1> QED  BY <1>11 DEF account

LEMMA TransferNothing ==
    ASSUME NEW b \in [Accounts \X {Currency} -> Int], NEW shown, shown.from = <<>>, shown.to = <<>>
    PROVE  Transfer(Blank(OnAccounts(b)), shown) = Blank(OnAccounts(b))
<1> DEFINE account == Blank(OnAccounts(b))
<1>1. /\ account = [balances |-> OnAccounts(b), reasons |-> {}]
      /\ DOMAIN account.balances = Accounts
      /\ \A a \in Accounts : account.balances[a] = b[Column(a)] /\ b[Column(a)] \in Int
  BY DEF Blank, OnAccounts, Column
<1>2. DOMAIN <<>> = {}
  OBVIOUS
<1> HIDE DEF account
<1>3. Transfer(account, shown) =
        [account EXCEPT !.balances = [a \in Accounts |-> account.balances[a] - 0 + 0]]
  BY <1>1, <1>2 DEF Transfer
<1>4. [a \in Accounts |-> account.balances[a] - 0 + 0] = OnAccounts(b)
  BY <1>1 DEF OnAccounts
<1>5. Transfer(account, shown) = account
  BY <1>1, <1>3, <1>4
<1> QED  BY <1>5 DEF account
-----------------------------------------------------------------------------
(* The events with terms that a payment may be opened with. *)
Sound(r, t) ==
    /\ \A x, y \in RolesOf(r) : x # y => t[x] # t[y]
    /\ t.fee >= 0
    /\ r = "card" => t.fee <= t.amount

LEMMA AskedSound ==
    ASSUME RailsOfTheCode, setUp \in SetUps, NEW terms \in AskedTerms(setUp)
    PROVE  rail \in {"card", "a2a"} /\ Sound(rail, terms) /\ Ends(rail, terms) \subseteq Accounts
<1>1. rail \in {"card", "a2a"}
  BY DEF RailsOfTheCode, rail
<1>2. TermsOKOf(rail, terms) /\ \A role \in RolesOf(rail) : terms[role] \in Accounts
  BY AccountsListed DEF AskedTerms, rail
<1>3. Ends(rail, terms) \subseteq Accounts
  BY <1>2 DEF Ends
<1>4. Sound(rail, terms)
  <2>1. CASE rail = "card"
    <3>1. CardTermsOK(terms)
      BY <1>2, <2>1 DEF RailsOfTheCode, IsCard
    <3>2. RolesOf(rail) = {"payer", "payee", "hold", "fees", "chargeback"}
      BY <2>1 DEF RolesOf
    <3> QED  BY <3>1, <3>2 DEF CardTermsOK, Sound
  <2>2. CASE rail = "a2a"
    <3>1. A2ATermsOK(terms)
      BY <1>2, <2>2 DEF RailsOfTheCode, IsA2A
    <3>2. RolesOf(rail) = {"payer", "payee", "fees", "frozen"}
      BY <2>2 DEF RolesOf
    <3> QED  BY <2>2, <3>1, <3>2 DEF A2ATermsOK, Sound
  <2> QED  BY <1>1, <2>1, <2>2
<1> QED  BY <1>1, <1>3, <1>4

LEMMA EnrichedFaultless ==
    ASSUME NEW r, NEW lg, IsSequence(lg), NEW terms,
           \A i \in DOMAIN lg : Sound(r, terms[lg[i].payment])
    PROVE  /\ Len(Enriched(r, lg, terms)) = Len(lg)
           /\ DOMAIN Enriched(r, lg, terms) = 1..Len(lg)
           /\ Faultless(Enriched(r, lg, terms))
<1> DEFINE events == Enriched(r, lg, terms)
           Shown(i) == [id |-> lg[i].event, previous |-> lg[i].previous, payment |-> lg[i].payment,
                        kind |-> lg[i].op, rail |-> r, terms |-> terms[lg[i].payment]]
<1>1. Len(lg) \in Nat /\ DOMAIN lg = 1..Len(lg)
  BY Extended
<1>2. events = [i \in 1..Len(lg) |-> Shown(i)]
  BY <1>1 DEF Enriched
<1>3. DOMAIN events = 1..Len(lg)
  BY <1>2
<1>4. Len(events) = Len(lg)
  <2>1. events \in [1..Len(lg) -> {Shown(i) : i \in 1..Len(lg)}]
    BY <1>2
  <2>2. events \in Seq({Shown(i) : i \in 1..Len(lg)})
    BY <1>1, <2>1, SeqDef
  <2> HIDE DEF events
  <2> QED  BY <1>1, <1>3, <2>2, LenProperties
<1>5. \A i \in 1..Len(lg) : /\ events[i].rail = r /\ events[i].payment = lg[i].payment
                            /\ events[i].terms = terms[lg[i].payment]
  BY <1>2
<1> HIDE DEF events
<1>6. ASSUME NEW i \in 1..Len(lg)
      PROVE  AccountsApart(events[i]) /\ FeeGiven(events[i]) /\ SameContract(events, i)
  <2>1. AccountsApart(events[i]) /\ FeeGiven(events[i])
    BY <1>1, <1>5 DEF Sound, AccountsApart, FeeGiven
  <2>2. \A j \in 1..(i - 1) : j \in 1..Len(lg)
    BY <1>1
  <2>3. SameContract(events, i)
    BY <1>5, <2>2 DEF SameContract
  <2> QED  BY <2>1, <2>3
<1>7. Faultless(events)
  BY <1>3, <1>6 DEF Faultless
<1> QED  BY <1>3, <1>4, <1>7 DEF events
-----------------------------------------------------------------------------
(* What the oracle is shown, and the accounts it arrives at. *)
Shown(r, lg, ent, known) == Enriched(r, lg, [p \in known |-> ent[p].terms])

LoggedKnown(lg, known) == \A i \in DOMAIN lg : lg[i].payment \in known

AccountsAgree ==
    /\ LoggedKnown(log, Known(entity))
    /\ Accounted(Shown(rail, log, entity, Known(entity)), OnAccounts(opening))
          = Blank(OnAccounts(balances))

LEMMA NoMovement ==
    ASSUME RailsOfTheCode, NEW r \in {"card", "a2a"}, NEW terms
    PROVE  /\ MovementOf(r, NoEffect, terms).debit = <<>>
           /\ MovementOf(r, NoEffect, terms).credit = <<>>
<1>1. CardMovement("none", terms) = [debit |-> <<>>, credit |-> <<>>]
  BY DEF CardMovement
<1>2. A2AMovement("none", terms) = [debit |-> <<>>, credit |-> <<>>]
  BY DEF A2AMovement
<1> QED  BY <1>1, <1>2 DEF RailsOfTheCode, IsCard, IsA2A, NoEffect

(* The terms of a payment that is known are sound. *)
LEMMA KnownSound ==
    ASSUME RailsOfTheCode, RailInv, Settled, NEW p \in Known(entity)
    PROVE  rail \in {"card", "a2a"} /\ Sound(rail, entity[p].terms)
<1>1. entity[p].terms \in AskedTerms(setUp) /\ setUp \in SetUps
  BY DEF Settled, RailInv
<1> QED  BY <1>1, AskedSound

(* The ledger and the oracle make the same of the event of a command. *)
LEMMA EventTransfers ==
    ASSUME RailsOfTheCode, RailInv, Settled, NEW cmd \in Commands, HandleAdvance(cmd),
           cmd.payment \notin tampered,
           NEW e, e.rail = rail, e.kind = cmd.op, e.terms = Loaded(cmd).terms
    PROVE  /\ Transfer(Blank(OnAccounts(balances)), Effects(e)) = Blank(OnAccounts(balances'))
           /\ opening' = opening
<1> DEFINE t == <<Loaded(cmd).state, cmd.op>>
           legs == MovementOf(rail, TransitionsOf(rail)[t].effect, e.terms)
<1>1. e.terms \in AskedTerms(setUp) /\ t \in DOMAIN TransitionsOf(rail) /\ t[2] = cmd.op
  BY AdvancedEntity DEF HandleAdvance
<1>2. rail \in {"card", "a2a"} /\ Ends(rail, e.terms) \subseteq Accounts
  BY <1>1, AskedSound DEF RailInv
<1>3. Matches(Effects(e), legs, Ends(rail, e.terms))
  <2> HIDE DEF t
  <2> QED  BY <1>1, <1>2, RailEffects
<1>4. Matches(Effects(e), legs, Accounts)
  BY <1>2, <1>3 DEF Matches, IsSide
<1>5. Effect(cmd) = TransitionsOf(rail)[t].effect /\ Movement(Effect(cmd), Loaded(cmd).terms) = legs
  BY DEF Effect, Transitions, Movement
<1>6. \A a \in Accounts : L!Leg(legs.debit, a) \in Nat /\ L!Leg(legs.credit, a) \in Nat
  <2>1. PositionsFollow(rail, e.terms)
    BY <1>1, TablesFollow, AskedFollow DEF RailInv
  <2> HIDE DEF t
  <2> QED  BY <1>1, <2>1 DEF PositionsFollow
<1>7. balances \in [Accounts \X {Currency} -> Int]
  BY DEF Settled
<1>8. CASE Effect(cmd) = NoEffect
  <2>1. balances' = balances /\ opening' = opening
    BY <1>8 DEF HandleAdvance, ledgerVars
  <2>2. legs.debit = <<>> /\ legs.credit = <<>>
    <3> HIDE DEF t
    <3> QED  BY <1>2, <1>5, <1>8, NoMovement
  <2>3. Effects(e).from = <<>> /\ Effects(e).to = <<>>
    BY <1>4, <2>2 DEF Matches
  <2> QED  BY <1>7, <2>1, <2>3, TransferNothing
<1>9. CASE Effect(cmd) # NoEffect
  <2>1. L!Post(Entry(Effect(cmd), Loaded(cmd).terms, uuids))
    BY <1>9 DEF HandleAdvance
  <2>2. opening' = opening
    BY <2>1 DEF L!Post
  <2>3. /\ Matches(Effects(e), Movement(Effect(cmd), Loaded(cmd).terms), Accounts)
        /\ \A a \in Accounts :
              /\ L!Leg(Movement(Effect(cmd), Loaded(cmd).terms).debit, a) \in Nat
              /\ L!Leg(Movement(Effect(cmd), Loaded(cmd).terms).credit, a) \in Nat
    BY <1>4, <1>5, <1>6
  <2>4. Transfer(Blank(OnAccounts(balances)), Effects(e)) = Blank(OnAccounts(balances'))
    BY <1>7, <2>1, <2>3, TransferPosts
  <2> QED  BY <2>2, <2>4
<1> QED  BY <1>8, <1>9

LEMMA AccountsStart == Init => AccountsAgree
<1> SUFFICES ASSUME Init
             PROVE  AccountsAgree
  OBVIOUS
<1>1. log = <<>> /\ balances = opening
  BY DEF Init
<1>2. \A f : Enriched(rail, <<>>, f) = <<>>
  BY DEF Enriched
<1> QED  BY <1>1, <1>2, AccountedNothing DEF AccountsAgree, LoggedKnown, Shown

LEMMA AdvanceAgrees ==
    ASSUME RailsOfTheCode, MissingIsNoEntity, RailInv, Settled, AccountsAgree,
           NEW cmd \in Commands, HandleAdvance(cmd), cmd.payment \notin tampered, setUp' = setUp
    PROVE  AccountsAgree'
<1> DEFINE e == Loaded(cmd)
           p == cmd.payment
           known == Known(entity)
           left == Updated(e, cmd)
           n == Len(log)
           event == [payment |-> cmd.payment, op |-> cmd.op, effect |-> Effect(cmd),
                     event |-> uuids, previous |-> Loaded(cmd).last]
           events == Shown(rail, log, entity, known)
           longer == Shown(rail, log', entity', known \cup {p})
<1>1. Advances(cmd)
  BY DEF HandleAdvance
<1>2. /\ p \in Payments /\ e.terms \in AskedTerms(setUp)
      /\ left.terms = e.terms /\ left # Missing
      /\ IF entity[p] = Missing THEN e.state = Created ELSE e = entity[p]
  BY <1>1, AdvancedEntity
<1>3. rail' = rail /\ Payments' = Payments
  BY DEF rail, Payments
<1>4. entity' = [entity EXCEPT ![p] = left] /\ entity = [q \in Payments |-> entity[q]]
  BY DEF HandleAdvance, RailInv
<1>5. /\ entity'[p] = left /\ \A q \in Payments : q # p => entity'[q] = entity[q]
  BY <1>2, <1>4
<1>6. Known(entity)' = known \cup {p}
  <2>1. Known(entity)' = {q \in Payments : entity'[q] # Missing}
    BY <1>3 DEF Known
  <2>2. \A q \in Payments : entity'[q] # Missing <=> (entity[q] # Missing \/ q = p)
    BY <1>2, <1>5
  <2> QED  BY <1>2, <2>1, <2>2 DEF Known
<1>7. \A q \in known : q \in Payments /\ entity'[q].terms = entity[q].terms
  <2> SUFFICES ASSUME NEW q \in known
               PROVE  q \in Payments /\ entity'[q].terms = entity[q].terms
    OBVIOUS
  <2>1. q \in Payments /\ entity[q] # Missing
    BY DEF Known
  <2> QED  BY <1>2, <1>5, <2>1
<1>8. /\ log' = Append(log, event) /\ event.payment = p /\ event.op = cmd.op
  BY DEF HandleAdvance
<1> HIDE DEF event
<1>9. /\ n \in Nat /\ DOMAIN log = 1..n /\ IsSequence(log') /\ Len(log') = n + 1
      /\ DOMAIN log' = 1..(n + 1) /\ log'[n + 1] = event
      /\ \A i \in 1..n : log'[i] = log[i]
  BY <1>8, Extended DEF RailInv
<1>10. LoggedKnown(log, known)
  BY DEF AccountsAgree
<1>11. LoggedKnown(log', known \cup {p})
  <2> SUFFICES ASSUME NEW i \in 1..(n + 1)
               PROVE  log'[i].payment \in known \cup {p}
    BY <1>9 DEF LoggedKnown
  <2>1. i \in 1..n \/ i = n + 1
    BY <1>9
  <2> QED  BY <1>8, <1>9, <1>10, <2>1 DEF LoggedKnown
<1>12. \A q \in known \cup {p} : Sound(rail, entity'[q].terms)
  <2>1. \A q \in known : Sound(rail, entity[q].terms)
    BY KnownSound
  <2>2. Sound(rail, e.terms)
    BY <1>2, AskedSound DEF RailInv
  <2> HIDE DEF known, e, left
  <2> QED  BY <1>2, <1>5, <1>7, <2>1, <2>2
<1> HIDE DEF e, left
<1>13. Len(events) = n /\ DOMAIN events = 1..n /\ Faultless(events)
  <2> DEFINE f == [q \in known |-> entity[q].terms]
  <2>1. \A i \in DOMAIN log : Sound(rail, f[log[i].payment])
    <3>1. \A q \in known : f[q] = entity[q].terms /\ Sound(rail, entity[q].terms)
      BY KnownSound
    <3> HIDE DEF f, known
    <3> QED  BY <1>10, <3>1 DEF LoggedKnown
  <2>2. events = Enriched(rail, log, f)
    BY DEF Shown
  <2> HIDE DEF f, events
  <2> QED  BY <2>1, <2>2, EnrichedFaultless DEF RailInv
<1>14. Len(longer) = n + 1 /\ DOMAIN longer = 1..(n + 1) /\ Faultless(longer)
  <2> DEFINE f == [q \in known \cup {p} |-> entity'[q].terms]
  <2>1. \A i \in DOMAIN log' : Sound(rail, f[log'[i].payment])
    <3>1. \A q \in known \cup {p} : f[q] = entity'[q].terms /\ Sound(rail, entity'[q].terms)
      BY <1>12
    <3> HIDE DEF f, known
    <3> QED  BY <1>11, <3>1 DEF LoggedKnown
  <2>2. longer = Enriched(rail, log', f)
    BY DEF Shown
  <2>3. \A lg, g : IsSequence(lg) /\ (\A i \in DOMAIN lg : Sound(rail, g[lg[i].payment]))
            => LET shown == Enriched(rail, lg, g)
               IN  Len(shown) = Len(lg) /\ DOMAIN shown = 1..Len(lg) /\ Faultless(shown)
    BY EnrichedFaultless
  <2> HIDE DEF f, longer
  <2> QED  BY <1>9, <2>1, <2>2, <2>3
<1>15. \A i \in 1..n : longer[i] = events[i]
  <2> SUFFICES ASSUME NEW i \in 1..n
               PROVE  longer[i] = events[i]
    OBVIOUS
  <2>1. i \in DOMAIN log /\ i \in DOMAIN log' /\ log'[i] = log[i] /\ log[i].payment \in known
    BY <1>9, <1>10 DEF LoggedKnown
  <2>2. entity'[log[i].payment].terms = entity[log[i].payment].terms
    BY <1>7, <2>1
  <2> HIDE DEF known
  <2> QED  BY <2>1, <2>2 DEF Shown, Enriched
<1>16. longer[n + 1].rail = rail /\ longer[n + 1].kind = cmd.op /\ longer[n + 1].terms = e.terms
  <2>1. n + 1 \in DOMAIN log'
    BY <1>9
  <2> HIDE DEF known
  <2> QED  BY <1>2, <1>5, <1>8, <1>9, <2>1 DEF Shown, Enriched
<1>17. /\ Transfer(Blank(OnAccounts(balances)), Effects(longer[n + 1])) = Blank(OnAccounts(balances'))
       /\ opening' = opening
  <2> HIDE DEF longer
  <2> QED  BY <1>16, EventTransfers DEF e
<1> HIDE DEF events, longer
<1>18. Accounted(events, OnAccounts(opening)) = Blank(OnAccounts(balances))
  BY DEF AccountsAgree, events
<1>19. Accounted(longer, OnAccounts(opening)) = Blank(OnAccounts(balances'))
  <2>1. \A sh, more : /\ Len(sh) = n /\ DOMAIN sh = 1..n /\ Len(more) = n + 1 /\ DOMAIN more = 1..(n + 1)
                      /\ (\A i \in 1..n : more[i] = sh[i]) /\ Faultless(sh) /\ Faultless(more)
            => Accounted(more, OnAccounts(opening))
                   = Transfer(Accounted(sh, OnAccounts(opening)), Effects(more[n + 1]))
    BY <1>9, AccountedGrows
  <2>2. Accounted(longer, OnAccounts(opening))
            = Transfer(Accounted(events, OnAccounts(opening)), Effects(longer[n + 1]))
    BY <1>13, <1>14, <1>15, <2>1
  <2> QED  BY <1>17, <1>18, <2>2
<1>20. OnAccounts(opening)' = OnAccounts(opening) /\ OnAccounts(balances)' = OnAccounts(balances')
  BY <1>17 DEF OnAccounts
<1>21. Shown(rail, log, entity, Known(entity))' = longer
  BY <1>3, <1>6 DEF longer, Shown
<1> QED  BY <1>6, <1>11, <1>19, <1>20, <1>21 DEF AccountsAgree
-----------------------------------------------------------------------------
(* A sequence of one more element. *)
LEMMA AppendIs ==
    ASSUME NEW s, IsSequence(s), NEW t, IsSequence(t), NEW x, Len(t) = Len(s) + 1,
           \A i \in 1..Len(s) : t[i] = s[i], t[Len(s) + 1] = x
    PROVE  Append(s, x) = t
<1> DEFINE longer == Append(s, x)
<1>1. /\ Len(s) \in Nat /\ IsSequence(longer) /\ Len(longer) = Len(s) + 1
      /\ longer[Len(s) + 1] = x /\ \A i \in 1..Len(s) : longer[i] = s[i]
  BY Extended
<1> HIDE DEF longer
<1>2. \A q : IsSequence(q) => q = [i \in 1..Len(q) |-> q[i]]
  BY LenProperties DEF IsSequence
<1>3. \A i \in 1..(Len(s) + 1) : longer[i] = t[i]
  BY <1>1
<1>4. longer = t
  BY <1>1, <1>2, <1>3
<1> QED  BY <1>4 DEF longer

LEMMA Tuples ==
    ASSUME NEW a, NEW b, NEW c, NEW d, NEW e, NEW f, NEW g
    PROVE  /\ IsSequence(<<a>>) /\ Len(<<a>>) = 1
           /\ IsSequence(<<a, b>>) /\ Len(<<a, b>>) = 2
           /\ IsSequence(<<a, b, c>>) /\ Len(<<a, b, c>>) = 3
           /\ IsSequence(<<a, b, c, d>>) /\ Len(<<a, b, c, d>>) = 4
           /\ IsSequence(<<a, b, c, d, e>>) /\ Len(<<a, b, c, d, e>>) = 5
           /\ IsSequence(<<a, b, c, d, e, f>>) /\ Len(<<a, b, c, d, e, f>>) = 6
           /\ IsSequence(<<a, b, c, d, e, f, g>>) /\ Len(<<a, b, c, d, e, f, g>>) = 7
<1> DEFINE S == {a, b, c, d, e, f, g}
<1>1. /\ <<a>> \in Seq(S) /\ <<a, b>> \in Seq(S) /\ <<a, b, c>> \in Seq(S)
      /\ <<a, b, c, d>> \in Seq(S) /\ <<a, b, c, d, e>> \in Seq(S)
      /\ <<a, b, c, d, e, f>> \in Seq(S) /\ <<a, b, c, d, e, f, g>> \in Seq(S)
  OBVIOUS
<1>2. /\ Len(<<a>>) = 1 /\ Len(<<a, b>>) = 2 /\ Len(<<a, b, c>>) = 3 /\ Len(<<a, b, c, d>>) = 4
      /\ Len(<<a, b, c, d, e>>) = 5 /\ Len(<<a, b, c, d, e, f>>) = 6
      /\ Len(<<a, b, c, d, e, f, g>>) = 7
  OBVIOUS
<1> QED  BY <1>1, <1>2 DEF IsSequence

LEMMA Second == \A a, b : Append(<<a>>, b) = <<a, b>>
<1> SUFFICES ASSUME NEW a, NEW b
             PROVE  Append(<<a>>, b) = <<a, b>>
  OBVIOUS
<1>1. PICK s, t : s = <<a>> /\ t = <<a, b>>
  OBVIOUS
<1>2. IsSequence(s) /\ IsSequence(t) /\ Len(s) = 1 /\ Len(t) = 2
  BY <1>1, Tuples
<1>3. t[2] = b /\ \A i \in 1..1 : t[i] = s[i]
  BY <1>1
<1>4. Len(t) = Len(s) + 1 /\ t[Len(s) + 1] = b /\ \A i \in 1..Len(s) : t[i] = s[i]
  BY <1>2, <1>3
<1>5. Append(s, b) = t
  BY <1>2, <1>4, AppendIs, Zenon
<1> QED  BY <1>1, <1>5

LEMMA Third == \A a, b, c : Append(<<a, b>>, c) = <<a, b, c>>
<1> SUFFICES ASSUME NEW a, NEW b, NEW c
             PROVE  Append(<<a, b>>, c) = <<a, b, c>>
  OBVIOUS
<1>1. PICK s, t : s = <<a, b>> /\ t = <<a, b, c>>
  OBVIOUS
<1>2. IsSequence(s) /\ IsSequence(t) /\ Len(s) = 2 /\ Len(t) = 3
  BY <1>1, Tuples
<1>3. t[3] = c /\ \A i \in 1..2 : t[i] = s[i]
  BY <1>1
<1>4. Len(t) = Len(s) + 1 /\ t[Len(s) + 1] = c /\ \A i \in 1..Len(s) : t[i] = s[i]
  BY <1>2, <1>3
<1>5. Append(s, c) = t
  BY <1>2, <1>4, AppendIs, Zenon
<1> QED  BY <1>1, <1>5

LEMMA Fourth == \A a, b, c, d : Append(<<a, b, c>>, d) = <<a, b, c, d>>
<1> SUFFICES ASSUME NEW a, NEW b, NEW c, NEW d
             PROVE  Append(<<a, b, c>>, d) = <<a, b, c, d>>
  OBVIOUS
<1>1. PICK s, t : s = <<a, b, c>> /\ t = <<a, b, c, d>>
  OBVIOUS
<1>2. IsSequence(s) /\ IsSequence(t) /\ Len(s) = 3 /\ Len(t) = 4
  BY <1>1, Tuples
<1>3. t[4] = d /\ \A i \in 1..3 : t[i] = s[i]
  BY <1>1
<1>4. Len(t) = Len(s) + 1 /\ t[Len(s) + 1] = d /\ \A i \in 1..Len(s) : t[i] = s[i]
  BY <1>2, <1>3
<1>5. Append(s, d) = t
  BY <1>2, <1>4, AppendIs, Zenon
<1> QED  BY <1>1, <1>5

LEMMA Fifth == \A a, b, c, d, e : Append(<<a, b, c, d>>, e) = <<a, b, c, d, e>>
<1> SUFFICES ASSUME NEW a, NEW b, NEW c, NEW d, NEW e
             PROVE  Append(<<a, b, c, d>>, e) = <<a, b, c, d, e>>
  OBVIOUS
<1>1. PICK s, t : s = <<a, b, c, d>> /\ t = <<a, b, c, d, e>>
  OBVIOUS
<1>2. IsSequence(s) /\ IsSequence(t) /\ Len(s) = 4 /\ Len(t) = 5
  BY <1>1, Tuples
<1>3. t[5] = e /\ \A i \in 1..4 : t[i] = s[i]
  BY <1>1
<1>4. Len(t) = Len(s) + 1 /\ t[Len(s) + 1] = e /\ \A i \in 1..Len(s) : t[i] = s[i]
  BY <1>2, <1>3
<1>5. Append(s, e) = t
  BY <1>2, <1>4, AppendIs, Zenon
<1> QED  BY <1>1, <1>5

LEMMA Sixth == \A a, b, c, d, e, f : Append(<<a, b, c, d, e>>, f) = <<a, b, c, d, e, f>>
<1> SUFFICES ASSUME NEW a, NEW b, NEW c, NEW d, NEW e, NEW f
             PROVE  Append(<<a, b, c, d, e>>, f) = <<a, b, c, d, e, f>>
  OBVIOUS
<1>1. PICK s, t : s = <<a, b, c, d, e>> /\ t = <<a, b, c, d, e, f>>
  OBVIOUS
<1>2. IsSequence(s) /\ IsSequence(t) /\ Len(s) = 5 /\ Len(t) = 6
  BY <1>1, Tuples
<1>3. t[6] = f /\ \A i \in 1..5 : t[i] = s[i]
  BY <1>1
<1>4. Len(t) = Len(s) + 1 /\ t[Len(s) + 1] = f /\ \A i \in 1..Len(s) : t[i] = s[i]
  BY <1>2, <1>3
<1>5. Append(s, f) = t
  BY <1>2, <1>4, AppendIs, Zenon
<1> QED  BY <1>1, <1>5

LEMMA Seventh == \A a, b, c, d, e, f, g : Append(<<a, b, c, d, e, f>>, g) = <<a, b, c, d, e, f, g>>
<1> SUFFICES ASSUME NEW a, NEW b, NEW c, NEW d, NEW e, NEW f, NEW g
             PROVE  Append(<<a, b, c, d, e, f>>, g) = <<a, b, c, d, e, f, g>>
  OBVIOUS
<1>1. PICK s, t : s = <<a, b, c, d, e, f>> /\ t = <<a, b, c, d, e, f, g>>
  OBVIOUS
<1>2. IsSequence(s) /\ IsSequence(t) /\ Len(s) = 6 /\ Len(t) = 7
  BY <1>1, Tuples
<1>3. t[7] = g /\ \A i \in 1..6 : t[i] = s[i]
  BY <1>1
<1>4. Len(t) = Len(s) + 1 /\ t[Len(s) + 1] = g /\ \A i \in 1..Len(s) : t[i] = s[i]
  BY <1>2, <1>3
<1>5. Append(s, g) = t
  BY <1>2, <1>4, AppendIs, Zenon
<1> QED  BY <1>1, <1>5

(* The operations of a history, and those by which each state is reached. *)
Ops(records) == [k \in 1..Len(records) |-> records[k].op]

CardHistories ==
    {<<"declined", <<"decline">>>>,
     <<"authorized", <<"authorize">>>>,
     <<"reversed", <<"authorize", "reverse">>>>,
     <<"cleared", <<"authorize", "clear">>>>,
     <<"reversed", <<"authorize", "clear", "reverse">>>>,
     <<"settled", <<"authorize", "clear", "settle">>>>,
     <<"refunded", <<"authorize", "clear", "settle", "refund">>>>,
     <<"reported", <<"authorize", "clear", "settle", "report">>>>,
     <<"dispute", <<"authorize", "clear", "settle", "report", "dispute">>>>,
     <<"chargeback", <<"authorize", "clear", "settle", "report", "dispute", "chargeback">>>>,
     <<"recovery", <<"authorize", "clear", "settle", "report", "dispute", "chargeback", "recover">>>>}

A2AHistories ==
    {<<"initiated", <<"initiate">>>>,
     <<"rejected", <<"initiate", "reject">>>>,
     <<"accepted", <<"initiate", "accept">>>>,
     <<"posted", <<"initiate", "accept", "post">>>>,
     <<"returned", <<"initiate", "accept", "post", "return">>>>,
     <<"reported", <<"initiate", "accept", "post", "report">>>>,
     <<"frozen", <<"initiate", "accept", "post", "report", "freeze">>>>,
     <<"recovered", <<"initiate", "accept", "post", "report", "freeze", "recover">>>>}

Histories(r) == IF r = "card" THEN CardHistories ELSE A2AHistories

LEMMA CardHistoryGrows ==
    ASSUME NEW row \in CardTable, NEW ops,
           <<row[1], ops>> \in CardHistories \/ (row[1] = "created" /\ ops = <<>>)
    PROVE  <<row[3], Append(ops, row[2])>> \in CardHistories
<1>1. CASE row[1] = "created" /\ ops = <<>>
  BY <1>1 DEF CardTable, CardHistories
<1>2. CASE <<row[1], ops>> \in CardHistories
  <2>1. row[1] \in {"authorized", "cleared", "settled", "reported", "dispute", "chargeback"}
    BY <1>2 DEF CardTable, CardHistories
  <2>2. CASE row[1] = "authorized"
    <3>1. ops = <<"authorize">>
      BY <1>2, <2>2 DEF CardHistories
    <3>2. row \in {<<"authorized", "clear", "cleared", "none">>,
                   <<"authorized", "reverse", "reversed", "release_hold">>}
      BY <2>2 DEF CardTable
    <3>3. Append(ops, "clear") = <<"authorize", "clear">>
      BY <3>1, Second, Zenon
    <3>4. Append(ops, "reverse") = <<"authorize", "reverse">>
      BY <3>1, Second, Zenon
    <3> QED  BY <3>2, <3>3, <3>4 DEF CardHistories
  <2>3. CASE row[1] = "cleared"
    <3>1. ops = <<"authorize", "clear">>
      BY <1>2, <2>3 DEF CardHistories
    <3>2. row \in {<<"cleared", "reverse", "reversed", "release_hold">>,
                   <<"cleared", "settle", "settled", "settle">>}
      BY <2>3 DEF CardTable
    <3>3. Append(ops, "reverse") = <<"authorize", "clear", "reverse">>
      BY <3>1, Third, Zenon
    <3>4. Append(ops, "settle") = <<"authorize", "clear", "settle">>
      BY <3>1, Third, Zenon
    <3> QED  BY <3>2, <3>3, <3>4 DEF CardHistories
  <2>4. CASE row[1] = "settled"
    <3>1. ops = <<"authorize", "clear", "settle">>
      BY <1>2, <2>4 DEF CardHistories
    <3>2. row \in {<<"settled", "report", "reported", "none">>,
                   <<"settled", "refund", "refunded", "refund">>}
      BY <2>4 DEF CardTable
    <3>3. Append(ops, "report") = <<"authorize", "clear", "settle", "report">>
      BY <3>1, Fourth, Zenon
    <3>4. Append(ops, "refund") = <<"authorize", "clear", "settle", "refund">>
      BY <3>1, Fourth, Zenon
    <3> QED  BY <3>2, <3>3, <3>4 DEF CardHistories
  <2>5. CASE row[1] = "reported"
    <3>1. ops = <<"authorize", "clear", "settle", "report">>
      BY <1>2, <2>5 DEF CardHistories
    <3>2. row \in {<<"reported", "dispute", "dispute", "none">>}
      BY <2>5 DEF CardTable
    <3>3. Append(ops, "dispute") = <<"authorize", "clear", "settle", "report", "dispute">>
      BY <3>1, Fifth, Zenon
    <3> QED  BY <3>2, <3>3 DEF CardHistories
  <2>6. CASE row[1] = "dispute"
    <3>1. ops = <<"authorize", "clear", "settle", "report", "dispute">>
      BY <1>2, <2>6 DEF CardHistories
    <3>2. row \in {<<"dispute", "chargeback", "chargeback", "chargeback">>}
      BY <2>6 DEF CardTable
    <3>3. Append(ops, "chargeback") = <<"authorize", "clear", "settle", "report", "dispute", "chargeback">>
      BY <3>1, Sixth, Zenon
    <3> QED  BY <3>2, <3>3 DEF CardHistories
  <2>7. CASE row[1] = "chargeback"
    <3>1. ops = <<"authorize", "clear", "settle", "report", "dispute", "chargeback">>
      BY <1>2, <2>7 DEF CardHistories
    <3>2. row \in {<<"chargeback", "recover", "recovery", "recovery">>}
      BY <2>7 DEF CardTable
    <3>3. Append(ops, "recover")
            = <<"authorize", "clear", "settle", "report", "dispute", "chargeback", "recover">>
      BY <3>1, Seventh, Zenon
    <3> QED  BY <3>2, <3>3 DEF CardHistories
  <2> QED  BY <2>1, <2>2, <2>3, <2>4, <2>5, <2>6, <2>7
<1> QED  BY <1>1, <1>2

LEMMA A2AHistoryGrows ==
    ASSUME NEW row \in A2ATable, NEW ops,
           <<row[1], ops>> \in A2AHistories \/ (row[1] = "created" /\ ops = <<>>)
    PROVE  <<row[3], Append(ops, row[2])>> \in A2AHistories
<1>1. CASE row[1] = "created" /\ ops = <<>>
  BY <1>1 DEF A2ATable, A2AHistories
<1>2. CASE <<row[1], ops>> \in A2AHistories
  <2>1. row[1] \in {"initiated", "accepted", "posted", "reported", "frozen"}
    BY <1>2 DEF A2ATable, A2AHistories
  <2>2. CASE row[1] = "initiated"
    <3>1. ops = <<"initiate">>
      BY <1>2, <2>2 DEF A2AHistories
    <3>2. row \in {<<"initiated", "accept", "accepted", "none">>,
                   <<"initiated", "reject", "rejected", "none">>}
      BY <2>2 DEF A2ATable
    <3>3. Append(ops, "accept") = <<"initiate", "accept">>
      BY <3>1, Second, Zenon
    <3>4. Append(ops, "reject") = <<"initiate", "reject">>
      BY <3>1, Second, Zenon
    <3> QED  BY <3>2, <3>3, <3>4 DEF A2AHistories
  <2>3. CASE row[1] = "accepted"
    <3>1. ops = <<"initiate", "accept">>
      BY <1>2, <2>3 DEF A2AHistories
    <3>2. row \in {<<"accepted", "post", "posted", "post">>}
      BY <2>3 DEF A2ATable
    <3>3. Append(ops, "post") = <<"initiate", "accept", "post">>
      BY <3>1, Third, Zenon
    <3> QED  BY <3>2, <3>3 DEF A2AHistories
  <2>4. CASE row[1] = "posted"
    <3>1. ops = <<"initiate", "accept", "post">>
      BY <1>2, <2>4 DEF A2AHistories
    <3>2. row \in {<<"posted", "report", "reported", "none">>,
                   <<"posted", "return", "returned", "return">>}
      BY <2>4 DEF A2ATable
    <3>3. Append(ops, "report") = <<"initiate", "accept", "post", "report">>
      BY <3>1, Fourth, Zenon
    <3>4. Append(ops, "return") = <<"initiate", "accept", "post", "return">>
      BY <3>1, Fourth, Zenon
    <3> QED  BY <3>2, <3>3, <3>4 DEF A2AHistories
  <2>5. CASE row[1] = "reported"
    <3>1. ops = <<"initiate", "accept", "post", "report">>
      BY <1>2, <2>5 DEF A2AHistories
    <3>2. row \in {<<"reported", "freeze", "frozen", "freeze">>}
      BY <2>5 DEF A2ATable
    <3>3. Append(ops, "freeze") = <<"initiate", "accept", "post", "report", "freeze">>
      BY <3>1, Fifth, Zenon
    <3> QED  BY <3>2, <3>3 DEF A2AHistories
  <2>6. CASE row[1] = "frozen"
    <3>1. ops = <<"initiate", "accept", "post", "report", "freeze">>
      BY <1>2, <2>6 DEF A2AHistories
    <3>2. row \in {<<"frozen", "recover", "recovered", "recovery">>}
      BY <2>6 DEF A2ATable
    <3>3. Append(ops, "recover") = <<"initiate", "accept", "post", "report", "freeze", "recover">>
      BY <3>1, Sixth, Zenon
    <3> QED  BY <3>2, <3>3 DEF A2AHistories
  <2> QED  BY <2>1, <2>2, <2>3, <2>4, <2>5, <2>6
<1> QED  BY <1>1, <1>2

(* The histories the oracle lists. *)
LEMMA CardListed ==
    ASSUME NEW h \in CardHistories
    PROVE  h[2] \notin CardLifecycles
             <=> \/ h[1] \in {"authorized", "cleared", "reported", "dispute",
                              "initiated", "accepted", "frozen"}
                 \/ h[1] = "reversed" /\ Len(h[2]) = 3
BY DEF CardHistories, CardLifecycles

LEMMA A2AListed ==
    ASSUME NEW h \in A2AHistories
    PROVE  h[2] \notin TransferLifecycles
             <=> \/ h[1] \in {"authorized", "cleared", "reported", "dispute",
                              "initiated", "accepted", "frozen"}
                 \/ h[1] = "reversed" /\ Len(h[2]) = 3
BY DEF A2AHistories, TransferLifecycles

(* An appended record adds its operation. *)
LEMMA OpsAppended ==
    ASSUME NEW records, IsSequence(records), NEW record
    PROVE  Ops(Append(records, record)) = Append(Ops(records), record.op)
<1> DEFINE n == Len(records)
           more == Append(records, record)
           s == Ops(records)
           t == Ops(more)
<1>1. /\ n \in Nat /\ Len(more) = n + 1 /\ more[n + 1] = record
      /\ \A i \in 1..n : more[i] = records[i]
  BY Extended
<1>2. \A q, m : m \in Nat /\ Len(q) = m => IsSequence(Ops(q)) /\ Len(Ops(q)) = m
  <2> SUFFICES ASSUME NEW q, NEW m \in Nat, Len(q) = m
               PROVE  IsSequence(Ops(q)) /\ Len(Ops(q)) = m
    OBVIOUS
  <2> DEFINE S == {q[k].op : k \in 1..m}
  <2>1. Ops(q) \in [1..m -> S]
    BY DEF Ops
  <2> HIDE DEF S
  <2>2. Ops(q) \in Seq(S)
    BY <2>1, SeqDef
  <2>3. DOMAIN Ops(q) = 1..m
    BY DEF Ops
  <2> QED  BY <2>2, <2>3, LenProperties DEF IsSequence
<1>3. s = [k \in 1..n |-> records[k].op] /\ t = [k \in 1..(n + 1) |-> more[k].op]
  BY <1>1 DEF Ops
<1> HIDE DEF n, more, s, t
<1>4. IsSequence(s) /\ Len(s) = n /\ IsSequence(t) /\ Len(t) = n + 1
  <2>1. n = Len(records) /\ n + 1 \in Nat
    BY <1>1 DEF n
  <2>2. IsSequence(Ops(records)) /\ Len(Ops(records)) = n /\ IsSequence(Ops(more)) /\ Len(Ops(more)) = n + 1
    BY <1>1, <1>2, <2>1
  <2> QED  BY <2>2 DEF s, t
<1>5. Len(t) = Len(s) + 1 /\ t[Len(s) + 1] = record.op /\ \A i \in 1..Len(s) : t[i] = s[i]
  BY <1>1, <1>3, <1>4
<1>6. Append(s, record.op) = t
  BY <1>4, <1>5, AppendIs, Zenon
<1> QED  BY <1>6 DEF s, t, more

LEMMA HistoryGrows ==
    ASSUME RailsOfTheCode, NEW r \in {"card", "a2a"}, NEW t \in DOMAIN TransitionsOf(r), NEW ops,
           <<t[1], ops>> \in Histories(r) \/ (t[1] = Created /\ ops = <<>>)
    PROVE  <<TransitionsOf(r)[t].state, Append(ops, t[2])>> \in Histories(r)
<1>1. CASE r = "card"
  <2>1. TransitionsOf(r) = CardTransitions /\ Created = "created" /\ Histories(r) = CardHistories
    BY <1>1 DEF RailsOfTheCode, IsCard, Histories
  <2>2. PICK row \in CardTable : /\ t[1] = row[1] /\ t[2] = row[2]
                                /\ CardTransitions[t] = Step(row[3], row[4])
    BY <2>1, CardRow
  <2>3. CardTransitions[t].state = row[3]
    BY <2>2 DEF Step
  <2>4. <<row[3], Append(ops, row[2])>> \in CardHistories
    BY <2>1, <2>2, CardHistoryGrows
  <2> QED  BY <2>1, <2>2, <2>3, <2>4
<1>2. CASE r = "a2a"
  <2>1. TransitionsOf(r) = A2ATransitions /\ Created = "created" /\ Histories(r) = A2AHistories
    BY <1>2 DEF RailsOfTheCode, IsA2A, Histories
  <2>2. PICK row \in A2ATable : /\ t[1] = row[1] /\ t[2] = row[2]
                               /\ A2ATransitions[t] = A2AStep(row[3], row[4])
    BY <2>1, A2ARow
  <2>3. A2ATransitions[t].state = row[3]
    BY <2>2 DEF A2AStep
  <2>4. <<row[3], Append(ops, row[2])>> \in A2AHistories
    BY <2>1, <2>2, A2AHistoryGrows
  <2> QED  BY <2>1, <2>2, <2>3, <2>4
<1> QED  BY <1>1, <1>2

(* Every known payment has one of the histories of its state. *)
LivesFollow ==
    \A p \in Known(entity) : <<entity[p].state, Ops(entity[p].records)>> \in Histories(rail)

LEMMA LivesStart == Init => LivesFollow
  BY DEF Init, LivesFollow, Known

LEMMA AdvanceFollows ==
    ASSUME RailsOfTheCode, MissingIsNoEntity, RailInv, Settled, LivesFollow,
           NEW cmd \in Commands, HandleAdvance(cmd), cmd.payment \notin tampered, setUp' = setUp
    PROVE  LivesFollow'
<1> DEFINE e == Loaded(cmd)
           p == cmd.payment
           left == Updated(e, cmd)
           t == <<e.state, cmd.op>>
<1>1. Advances(cmd)
  BY DEF HandleAdvance
<1>2. /\ p \in Payments /\ left.state = TransitionsOf(rail)[t].state
      /\ t \in DOMAIN TransitionsOf(rail) /\ t[1] = e.state /\ t[2] = cmd.op
      /\ IF entity[p] = Missing THEN e.state = Created ELSE e = entity[p]
  BY <1>1, AdvancedEntity
<1>3. /\ rail' = rail /\ Payments' = Payments /\ rail \in {"card", "a2a"}
  BY DEF rail, Payments, RailInv, RailsOfTheCode
<1>4. entity' = [entity EXCEPT ![p] = left] /\ entity = [q \in Payments |-> entity[q]]
  BY DEF HandleAdvance, RailInv
<1>5. /\ entity'[p] = left /\ \A q \in Payments : q # p => entity'[q] = entity[q]
  BY <1>2, <1>4
<1>6. IsEntity(e) /\ e.records = RecordsOf(entity[p])
  BY <1>1, <1>2, LoadedEntity DEF Advances, RailInv
<1>7. <<e.state, Ops(e.records)>> \in Histories(rail) \/ (e.state = Created /\ Ops(e.records) = <<>>)
  <2>1. CASE entity[p] = Missing
    <3>1. e.records = <<>>
      BY <1>6, <2>1 DEF RecordsOf
    <3>2. Ops(<<>>) = <<>>
      BY DEF Ops
    <3> QED  BY <1>2, <2>1, <3>1, <3>2
  <2>2. CASE entity[p] # Missing
    <3>1. p \in Known(entity) /\ e = entity[p]
      BY <1>2, <2>2 DEF Known
    <3> QED  BY <3>1 DEF LivesFollow
  <2> QED  BY <2>1, <2>2
<1>8. PICK record : left.records = Append(e.records, record) /\ record.op = cmd.op
  <2>1. \E record : /\ Updated(Loaded(cmd), cmd).records = Append(Loaded(cmd).records, record)
                    /\ record.event = uuids /\ record.op = cmd.op
    BY <1>6, UpdatedEntity
  <2> QED  BY <2>1
<1>9. Ops(left.records) = Append(Ops(e.records), cmd.op)
  BY <1>6, <1>8, OpsAppended DEF IsEntity
<1> HIDE DEF e, left, t
<1>10. <<left.state, Ops(left.records)>> \in Histories(rail)
  BY <1>2, <1>3, <1>7, <1>9, HistoryGrows
<1>11. ASSUME NEW q \in Known(entity)'
       PROVE  <<entity'[q].state, Ops(entity'[q].records)>> \in Histories(rail)
  <2>1. q \in Payments /\ entity'[q] # Missing
    BY <1>3 DEF Known
  <2>2. CASE q = p
    BY <1>5, <1>10, <2>2
  <2>3. CASE q # p
    <3>1. entity'[q] = entity[q] /\ q \in Known(entity)
      BY <1>5, <2>1, <2>3 DEF Known
    <3> QED  BY <3>1 DEF LivesFollow
  <2> QED  BY <2>2, <2>3
<1> QED  BY <1>3, <1>11 DEF LivesFollow
-----------------------------------------------------------------------------
(* Every place up to the number of positions is taken. *)
LEMMA PlaceTaken ==
    ASSUME NEW n \in Nat, NEW S \in SUBSET (1..n), NEW k \in 1..Cardinality(S)
    PROVE  \E i \in S : Place(S, i) = k
<1> DEFINE Filled(T) == \A j \in 1..Cardinality(T) : \E i \in T : Place(T, i) = j
           G == {m \in Nat : \A T \in SUBSET (1..m) : Filled(T)}
<1>1. 0 \in G
  <2>1. 1..0 = {}
    OBVIOUS
  <2>2. \A T \in SUBSET (1..0) : 1..Cardinality(T) = {}
    BY <2>1, FS_EmptySet
  <2> QED  BY <2>2
<1>2. ASSUME NEW m \in Nat, m \in G
      PROVE  m + 1 \in G
  <2>1. ASSUME NEW T \in SUBSET (1..(m + 1)), m + 1 \notin T
        PROVE  Filled(T)
    <3>1. T \in SUBSET (1..m)
      BY <2>1
    <3> QED  BY <1>2, <3>1
  <2>2. ASSUME NEW T \in SUBSET (1..(m + 1)), m + 1 \in T
        PROVE  Filled(T)
    <3> DEFINE R == T \ {m + 1}
    <3>1. R \in SUBSET (1..m) /\ T = R \cup {m + 1}
      BY <2>2
    <3>2. /\ Cardinality(R) \in Nat /\ Cardinality(T) = Cardinality(R) + 1
          /\ Place(T, m + 1) = Cardinality(R) + 1
          /\ \A i \in R : Place(T, i) = Place(R, i)
      <4> HIDE DEF R
      <4>1. /\ Cardinality(R) \in Nat /\ Cardinality(R \cup {m + 1}) = Cardinality(R) + 1
            /\ Place(R \cup {m + 1}, m + 1) = Cardinality(R) + 1
            /\ \A i \in R : Place(R \cup {m + 1}, i) = Place(R, i)
        BY <3>1, NextPlace
      <4> QED  BY <3>1, <4>1
    <3>3. Filled(R)
      BY <1>2, <3>1
    <3> HIDE DEF R
    <3> SUFFICES ASSUME NEW j \in 1..Cardinality(T)
                 PROVE  \E i \in T : Place(T, i) = j
      OBVIOUS
    <3>4. CASE j = Cardinality(R) + 1
      BY <2>2, <3>2, <3>4
    <3>5. CASE j # Cardinality(R) + 1
      <4>1. j \in 1..Cardinality(R)
        BY <3>2, <3>5
      <4>2. PICK i \in R : Place(R, i) = j
        BY <3>3, <4>1
      <4> QED  BY <3>1, <3>2, <4>2
    <3> QED  BY <3>4, <3>5
  <2> QED  BY <2>1, <2>2
<1> HIDE DEF G
<1>3. Nat \subseteq G
  BY <1>1, <1>2, UpwardInduction
<1> QED  BY <1>3 DEF G

(* The life of a payment, as the oracle is shown it, is its history. *)
LifeOf(p) == OfPayment(Shown(rail, log, entity, Known(entity)), p)

LEMMA LifeIsHistory ==
    ASSUME RailInv, tampered = {}, LoggedKnown(log, Known(entity)), NEW p \in Known(entity)
    PROVE  LET n == Len(entity[p].records)
           IN  /\ n = Cardinality(Mine(log, p)) /\ n \in Nat
               /\ DOMAIN LifeOf(p) = 1..n
               /\ \A k \in 1..n :
                     /\ LifeOf(p)[k].kind = entity[p].records[k].op
                     /\ LifeOf(p)[k].id = entity[p].records[k].event
                     /\ LifeOf(p)[k].previous = IF k = 1 THEN NoId ELSE entity[p].records[k - 1].event
                     /\ LifeOf(p)[k].rail = rail
                     /\ LifeOf(p)[k].terms = entity[p].terms
<1> DEFINE events == Shown(rail, log, entity, Known(entity))
           own == Mine(log, p)
           kept == entity[p].records
           At(k) == CHOOSE i \in own : Place(own, i) = k
<1>1. DOMAIN log = 1..Len(log) /\ Len(log) \in Nat
  BY Extended DEF RailInv
<1>2. own \subseteq 1..Len(log)
  BY <1>1 DEF Mine
<1>3. p \in Payments \ tampered /\ RecordsOf(entity[p]) = kept
  BY DEF Known, RecordsOf
<1>4. Kept(log, p, kept)
  BY <1>3 DEF RailInv
<1>5. Len(kept) = Cardinality(own) /\ Cardinality(own) \in Nat
  BY <1>1, <1>2, <1>4, NextPlace DEF Kept
<1>6. \A i \in own :
        /\ events[i].kind = log[i].op /\ events[i].id = log[i].event
        /\ events[i].previous = log[i].previous
        /\ events[i].rail = rail /\ events[i].terms = entity[p].terms
  BY DEF Mine, Shown, Enriched
<1>7. {i \in DOMAIN events : events[i].payment = p} = own
  BY DEF Mine, Shown, Enriched
<1>8. LifeOf(p) = [k \in 1..Cardinality(own) |-> events[At(k)]]
  <2>1. LifeOf(p) = OfPayment(events, p)
    BY DEF LifeOf
  <2> DEFINE same == {i \in DOMAIN events : events[i].payment = p}
             life == [k \in 1..Cardinality(same) |-> events[CHOOSE i \in same : Place(same, i) = k]]
  <2>2. OfPayment(events, p) = life
    <3> HIDE DEF events
    <3> QED  BY DEF OfPayment
  <2>3. same = own
    BY <1>7
  <2> HIDE DEF same, own, events
  <2>4. life = [k \in 1..Cardinality(own) |-> events[At(k)]]
    BY <2>3
  <2> QED  BY <2>1, <2>2, <2>4
<1> HIDE DEF own, events, kept
<1>9. ASSUME NEW k \in 1..Cardinality(own)
      PROVE  At(k) \in own /\ Place(own, At(k)) = k
  <2>1. \E i \in own : Place(own, i) = k
    BY <1>1, <1>2, PlaceTaken
  <2> QED  BY <2>1
<1> HIDE DEF At
<1>10. ASSUME NEW k \in 1..Cardinality(own)
       PROVE  /\ LifeOf(p)[k].kind = kept[k].op
              /\ LifeOf(p)[k].id = kept[k].event
              /\ LifeOf(p)[k].previous = IF k = 1 THEN NoId ELSE kept[k - 1].event
              /\ LifeOf(p)[k].rail = rail
              /\ LifeOf(p)[k].terms = entity[p].terms
  <2>1. LifeOf(p)[k] = events[At(k)]
    BY <1>8
  <2>2. At(k) \in own /\ Place(own, At(k)) = k
    BY <1>9
  <2>3. /\ kept[k].event = log[At(k)].event /\ kept[k].op = log[At(k)].op
        /\ log[At(k)].previous = IF k = 1 THEN NoId ELSE kept[k - 1].event
    BY <1>4, <2>2 DEF Kept, own
  <2> QED  BY <1>6, <2>1, <2>2, <2>3
<1> QED  BY <1>5, <1>8, <1>10 DEF own, kept

(* A history of the rails has an event, and is one the oracle does not list in
   exactly the cases of Unlisted. *)
LEMMA HistoryListed ==
    ASSUME NEW r \in {"card", "a2a"}, NEW e, <<e.state, Ops(e.records)>> \in Histories(r),
           Len(e.records) \in Nat
    PROVE  Len(e.records) # 0 /\ (Ops(e.records) \notin Lifecycles(r) <=> Unlisted(e))
<1> DEFINE h == <<e.state, Ops(e.records)>>
<1>1. h \in Histories(r) /\ h[1] = e.state /\ h[2] = Ops(e.records)
  OBVIOUS
<1> HIDE DEF h
<1>2. h[2] \notin Lifecycles(r)
        <=> \/ h[1] \in {"authorized", "cleared", "reported", "dispute",
                         "initiated", "accepted", "frozen"}
            \/ h[1] = "reversed" /\ Len(h[2]) = 3
  <2>1. CASE r = "card"
    BY <1>1, <2>1, CardListed DEF Histories, Lifecycles
  <2>2. CASE r = "a2a"
    BY <1>1, <2>2, A2AListed DEF Histories, Lifecycles
  <2> QED  BY <2>1, <2>2
<1>3. Len(h[2]) \in 1..7
  BY <1>1 DEF Histories, CardHistories, A2AHistories
<1>4. Len(Ops(e.records)) = Len(e.records)
  <2> DEFINE n == Len(e.records)
             S == {e.records[k].op : k \in 1..n}
  <2>1. Ops(e.records) \in [1..n -> S]
    BY DEF Ops
  <2>2. n \in Nat
    OBVIOUS
  <2> HIDE DEF S, n
  <2>3. Ops(e.records) \in Seq(S) /\ DOMAIN Ops(e.records) = 1..n
    BY <2>1, <2>2, SeqDef
  <2>4. Len(Ops(e.records)) = n
    BY <2>2, <2>3, LenProperties
  <2> QED  BY <2>4 DEF n
<1>5. Len(e.records) # 0
  <2>1. Len(h[2]) = Len(e.records)
    BY <1>1, <1>4, Zenon
  <2>2. Len(e.records) \in 1..7
    BY <1>3, <2>1, Zenon
  <2>3. \A m \in 1..7 : m # 0
    OBVIOUS
  <2> QED  BY <2>2, <2>3, Zenon
<1>6. Unlisted(e) <=> \/ h[1] \in {"authorized", "cleared", "reported", "dispute",
                                   "initiated", "accepted", "frozen"}
                      \/ h[1] = "reversed" /\ Len(h[2]) = 3
  BY <1>1, <1>4 DEF Unlisted
<1> QED  BY <1>1, <1>2, <1>5, <1>6

(* What the oracle finds wrong with the lives. *)
LEMMA LivesAgree ==
    ASSUME RailsOfTheCode, RailInv, tampered = {}, LoggedKnown(log, Known(entity)), LivesFollow
    PROVE  LifecycleReasons(Shown(rail, log, entity, Known(entity)), NoId)
             = IF \E p \in Known(entity) : Unlisted(entity[p]) THEN {"ILLEGAL_LIFECYCLE"} ELSE {}
<1> DEFINE known == Known(entity)
           events == Shown(rail, log, entity, known)
           lives == {OfPayment(events, p) : p \in PaymentsIn(events)}
           Illegal(life) ==
               \/ [i \in DOMAIN life |-> life[i].kind] \notin Lifecycles(life[1].rail)
               \/ \E i \in DOMAIN life : life[i].rail # life[1].rail
           Changed(life) == \E i \in DOMAIN life : life[i].terms.amount # life[1].terms.amount
           Broken(life) ==
               \E i \in DOMAIN life : life[i].previous # IF i = 1 THEN NoId ELSE life[i-1].id
<1>1. rail \in {"card", "a2a"}
  BY DEF RailInv, RailsOfTheCode, rail
<1>2. ASSUME NEW p \in known
      PROVE  /\ 1 \in DOMAIN LifeOf(p) /\ Mine(log, p) # {}
             /\ Illegal(LifeOf(p)) <=> Unlisted(entity[p])
             /\ ~Changed(LifeOf(p)) /\ ~Broken(LifeOf(p))
  <2> DEFINE n == Len(entity[p].records)
             life == LifeOf(p)
             records == entity[p].records
  <2>1. /\ n = Cardinality(Mine(log, p)) /\ n \in Nat
        /\ DOMAIN life = 1..n
        /\ \A k \in 1..n : /\ life[k].kind = records[k].op
                           /\ life[k].id = records[k].event
                           /\ life[k].previous = IF k = 1 THEN NoId ELSE records[k - 1].event
                           /\ life[k].rail = rail
                           /\ life[k].terms = entity[p].terms
    BY LifeIsHistory
  <2>2. n # 0 /\ (Ops(records) \notin Lifecycles(rail) <=> Unlisted(entity[p]))
    BY <1>1, <2>1, HistoryListed DEF LivesFollow
  <2> HIDE DEF life, known
  <2>3. Ops(records) = [k \in 1..n |-> records[k].op]
    BY DEF Ops
  <2> HIDE DEF n, records
  <2>4. 1 \in DOMAIN life /\ life[1].rail = rail /\ life[1].terms = entity[p].terms
    BY <2>1, <2>2
  <2>5. Mine(log, p) # {}
    BY <2>1, <2>2, FS_EmptySet
  <2>6. [k \in DOMAIN life |-> life[k].kind] = Ops(records)
    BY <2>1, <2>3
  <2>7. Illegal(life) <=> Unlisted(entity[p])
    BY <2>1, <2>2, <2>4, <2>6
  <2>8. ~Changed(life)
    BY <2>1, <2>4
  <2>9. ~Broken(life)
    <3>1. \A k \in 1..n : k # 1 => k - 1 \in 1..n
      BY <2>1
    <3> QED  BY <2>1, <3>1
  <2> QED  BY <2>4, <2>5, <2>7, <2>8, <2>9 DEF life
<1>3. PaymentsIn(events) = known
  <2>1. DOMAIN events = DOMAIN log /\ \A i \in DOMAIN log : events[i].payment = log[i].payment
    BY DEF Shown, Enriched
  <2> HIDE DEF events
  <2>2. PaymentsIn(events) = {log[i].payment : i \in DOMAIN log}
    BY <2>1 DEF PaymentsIn
  <2> HIDE DEF known
  <2>3. \A p \in known : \E i \in DOMAIN log : log[i].payment = p
    BY <1>2 DEF Mine
  <2>4. \A i \in DOMAIN log : log[i].payment \in known
    BY DEF LoggedKnown, known
  <2> QED  BY <2>2, <2>3, <2>4
<1>4. lives = {LifeOf(p) : p \in known}
  BY <1>3 DEF LifeOf
<1>5. LifecycleReasons(events, NoId) =
        (IF \E life \in lives : Illegal(life) THEN {"ILLEGAL_LIFECYCLE"} ELSE {})
        \cup (IF \E life \in lives : Changed(life) THEN {"VALUE_CONSERVATION_FAILED"} ELSE {})
        \cup (IF \E life \in lives : Broken(life) THEN {"LINEAGE_INVALID"} ELSE {})
  BY DEF LifecycleReasons
<1> HIDE DEF Illegal, Changed, Broken, lives, known
<1>6. /\ (\E life \in lives : Illegal(life)) <=> \E p \in known : Unlisted(entity[p])
      /\ ~\E life \in lives : Changed(life)
      /\ ~\E life \in lives : Broken(life)
  BY <1>2, <1>4
<1> HIDE DEF events
<1>7. LifecycleReasons(events, NoId)
        = IF \E p \in known : Unlisted(entity[p]) THEN {"ILLEGAL_LIFECYCLE"} ELSE {}
  BY <1>5, <1>6
<1> QED  BY <1>7 DEF events, known
-----------------------------------------------------------------------------
(* The oracle and the ledger, as far as they have got. *)
OracleInv ==
    /\ MoneyInv
    /\ tampered = {} => AccountsAgree /\ LivesFollow

LEMMA InvAgrees ==
    ASSUME RailsOfTheCode, OracleInv
    PROVE  OracleAgrees
<1> SUFFICES ASSUME tampered = {}
             PROVE  OracleAgrees
  BY DEF OracleAgrees
<1> DEFINE known == {p \in Payments : entity[p] # Missing}
           events == Enriched(rail, log, [p \in known |-> entity[p].terms])
           account == Accounted(events, [a \in Accounts |-> opening[<<a, Currency>>]])
<1>1. AccountsAgree /\ LivesFollow /\ RailInv
  BY DEF OracleInv, MoneyInv
<1>2. known = Known(entity) /\ events = Shown(rail, log, entity, Known(entity))
  BY DEF Known, Shown
<1>3. account = Blank(OnAccounts(balances))
  BY <1>1, <1>2 DEF AccountsAgree, OnAccounts, Column
<1> HIDE DEF known, events, account
<1>4. (\A a \in Accounts : account.balances[a] = balances[<<a, Currency>>]) /\ account.reasons = {}
  BY <1>3 DEF Blank, OnAccounts, Column
<1>5. LifecycleReasons(events, NoId)
        = IF \E p \in known : Unlisted(entity[p]) THEN {"ILLEGAL_LIFECYCLE"} ELSE {}
  BY <1>1, <1>2, LivesAgree DEF AccountsAgree
<1> QED  BY <1>4, <1>5 DEF OracleAgrees, known, events, account

LEMMA OracleKeeps ==
    ASSUME RailsOfTheCode, MissingIsNoEntity, OracleInv, [Next]_vars
    PROVE  OracleInv'
<1>1. MoneyInv'
  BY TablesFollow, MoneyKeeps DEF OracleInv
<1>2. ASSUME tampered' = {}
      PROVE  AccountsAgree' /\ LivesFollow'
  <2>1. CASE UNCHANGED <<setUp, entity, opening, balances, log, tampered>>
    <3>1. AccountsAgree /\ LivesFollow
      BY <1>2, <2>1 DEF OracleInv
    <3>2. rail' = rail /\ Known(entity)' = Known(entity)
      BY <2>1 DEF rail, Known, Payments
    <3> QED  BY <2>1, <3>1, <3>2 DEF AccountsAgree, LivesFollow, OnAccounts, Shown
  <2>2. ASSUME NEW cmd \in Commands, UNCHANGED setUp, HandleAdvance(cmd)
        PROVE  AccountsAgree' /\ LivesFollow'
    <3>1. tampered = {}
      BY <1>2, <2>2 DEF HandleAdvance
    <3>2. RailInv /\ Settled /\ AccountsAgree /\ LivesFollow
      BY <3>1 DEF OracleInv, MoneyInv
    <3> QED  BY <2>2, <3>1, <3>2, AdvanceAgrees, AdvanceFollows
  <2>3. ASSUME NEW cmd \in Commands, UNCHANGED setUp,
               HandleRetry(cmd) \/ HandleUnfunded(cmd) \/ HandleIllegal(cmd)
        PROVE  AccountsAgree' /\ LivesFollow'
    BY <2>1, <2>3 DEF HandleRetry, HandleUnfunded, HandleIllegal, vars, ledgerVars
  <2>4. ASSUME NEW p \in Payments, Tamper(p)
        PROVE  AccountsAgree' /\ LivesFollow'
    BY <1>2, <2>4 DEF Tamper
  <2>5. CASE UNCHANGED vars
    BY <2>1, <2>5 DEF vars, ledgerVars
  <2> QED  BY <2>2, <2>3, <2>4, <2>5 DEF Next
<1> QED  BY <1>1, <1>2 DEF OracleInv

(* For any payments, amounts, fees, accounts, commands and order of delivery:
   the hidden validity oracle (evaluation_hidden/validity.py), which is given
   the events alone and has lists and postings of its own, arrives at the
   balances the engine's ledger has, finds no fee, contract, value or lineage
   fault, and objects to a life exactly when it is one its lists leave out. *)
THEOREM OracleAlwaysAgrees ==
    ASSUME MissingIsNoEntity, RailsOfTheCode
    PROVE  Spec => []OracleAgrees
<1>1. Init => OracleInv
  BY MoneyStarts, AccountsStart, LivesStart DEF OracleInv
<1>2. OracleInv /\ [Next]_vars => OracleInv'
  BY OracleKeeps
<1>3. OracleInv => OracleAgrees
  BY InvAgrees
<1> QED  BY <1>1, <1>2, <1>3, PTL DEF Spec
=============================================================================
