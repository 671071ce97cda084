----------------------------- MODULE PaymentRail -----------------------------
(***************************************************************************)
(* The command handler that the card and the account-to-account rails share *)
(* (src/apar/simulator/rails/card.py and a2a.py run the same code over two  *)
(* lifecycle tables, which are the constants of this module; CardRail and   *)
(* A2ARail give them).  The engine calls the handler for one command at a   *)
(* time, in whatever order the commands fall due, and is dead after the     *)
(* first exception.                                                         *)
(*                                                                          *)
(* A digest is an injective value: a request's fingerprint is what it       *)
(* covers (key and terms), and the commitment of a history record is the    *)
(* sequence of the fields chained so far.  Event ids are the engine's       *)
(* counter.  The posting goes through the Ledger module.                    *)
(***************************************************************************)
EXTENDS Places, Sequences, Functions

CONSTANTS
    Created,             \* the state of a payment nothing has happened to
    OpenersOf(_),        \* rail -> the operations that create a payment
    TransitionsOf(_),    \* rail -> <<state, operation>> -> [state, effect]
    TermsOKOf(_, _),     \* the checks an opening command's payload must pass
    MovementOf(_, _, _), \* effect, terms -> the debit and credit legs it posts
    PositionOf(_, _, _, _), \* state, terms, account -> what the payment put there
    Accounts,            \* ledger accounts
    Reserved,            \* those that only ever hold money in transit
    CommandsOf(_),       \* set-up -> what its scenario may schedule
    Tampers(_),          \* the one-field rewrites of an entity the owner may do
    SetUps,              \* the engines explored, see SetUpType
    Missing,             \* "no such entity"
    NoTerms,             \* the fingerprinted terms of a follow-up command
    Currency             \* the currency of all payments

(* An engine is built for the scenario of one rail.  maxEvents bounds the ids
   the engine hands out, 2^48 in the code. *)
SetUpType(setUp) ==
    /\ DOMAIN setUp = {"rail", "payments", "opening", "tampering", "maxEvents"}
    /\ setUp.opening \in [Accounts -> Int]
    /\ setUp.tampering \in BOOLEAN
    /\ setUp.maxEvents \in Nat

ASSUME SetUpsTyped ==
    \A setUp \in SetUps :
        /\ SetUpType(setUp) /\ IsFiniteSet(setUp.payments)
        /\ \A cmd \in CommandsOf(setUp) : cmd.payment \in setUp.payments

(* A reserved account starts out of debt, and no payment that is asked for has
   one as an end. *)
Between(terms) ==
    /\ terms.amount \in Int /\ terms.fee \in Int
    /\ {terms.payer, terms.payee, terms.fees} \cap Reserved = {}

ASSUME ReservedTyped ==
    /\ Reserved \subseteq Accounts
    /\ \A setUp \in SetUps :
          /\ \A a \in Reserved : setUp.opening[a] >= 0
          /\ \A cmd \in CommandsOf(setUp) : cmd.terms # NoTerms => Between(cmd.terms)

VARIABLES
    setUp,     \* the engine explored; fixed
    entity,    \* engine entity state, by payment
    opening,   \* the ledger
    balances,
    entries,
    entryIds,
    uuids,     \* the engine's UUID counter
    log,       \* the engine's event log
    failed,    \* the engine's terminal failure
    tampered   \* payments whose entity the owner rewrote

ledgerVars == <<opening, balances, entries, entryIds>>
vars == <<setUp, entity, ledgerVars, uuids, log, failed, tampered>>

NoEffect == "none"
NoId == -1

rail == setUp.rail
Payments == setUp.payments
Openers == OpenersOf(rail)
Transitions == TransitionsOf(rail)
TermsOK(terms) == TermsOKOf(rail, terms)
Movement(effect, terms) == MovementOf(rail, effect, terms)
Position(state, terms, account) == PositionOf(rail, state, terms, account)
Commands == CommandsOf(setUp)

L == INSTANCE Ledger WITH
        CreditAccounts <- {}, BlankAccount <- Missing, Currencies <- {Currency},
        Grain <- [c \in {Currency} |-> 1],
        CreditPairs <- {}, BlankId <- Missing, Openings <- {}, Requests <- {}
-----------------------------------------------------------------------------
Operations == {t[2] : t \in DOMAIN Transitions}

Legal(state, op) == <<state, op>> \in DOMAIN Transitions

(* _canonical_command: an opening command's payload passes the constructor's
   checks again, a follow-up carries no terms. *)
Canonical(cmd) ==
    /\ cmd.op \in Operations
    /\ IF cmd.op \in Openers THEN cmd.terms # NoTerms /\ TermsOK(cmd.terms)
                             ELSE cmd.terms = NoTerms

(* _payload_fingerprint of the command. *)
Fingerprint(cmd) == [payment |-> cmd.payment, key |-> cmd.key, terms |-> cmd.terms]

(* _payload_fingerprint of the command _command_from_record rebuilds. *)
RecordFingerprint(payment, record, terms) ==
    [payment |-> payment, key |-> record.key,
     terms   |-> IF record.op \in Openers THEN terms ELSE NoTerms]

(* _record_commitment *)
Commitment(previous, payment, record) ==
    Append(previous, [payment |-> payment, op |-> record.op, key |-> record.key,
                      fingerprint |-> record.fingerprint, event |-> record.event])

(* The state that replaying the first i records leads to. *)
Replay(records) ==
    LET state[i \in 0..Len(records)] ==
            IF i = 0 THEN Created
            ELSE LET before == state[i-1]
                 IN  IF Legal(before, records[i].op)
                     THEN Transitions[<<before, records[i].op>>].state
                     ELSE Missing
    IN  state[Len(records)]

(* Mutant: the history is not replayed against the stored state. *)
ValidWithoutReplay(e, payment) ==
    LET n == Len(e.records)
        prior(i) == IF i = 1 THEN <<>> ELSE e.records[i-1].commitment
    IN  /\ e.payment = payment
        /\ TermsOK(e.terms)
        /\ \A i, j \in 1..n : i # j => e.records[i].key # e.records[j].key
        /\ \A i \in 1..n :
              /\ e.records[i].fingerprint = RecordFingerprint(payment, e.records[i], e.terms)
              /\ e.records[i].commitment = Commitment(prior(i), payment, e.records[i])
        /\ e.last = IF n = 0 THEN NoId ELSE e.records[n].event
        /\ e.commitment = IF n = 0 THEN <<>> ELSE e.records[n].commitment

(* _validated_state: otherwise the entity is corrupt. *)
Valid(e, payment) ==
    LET n == Len(e.records)
        prior(i) == IF i = 1 THEN <<>> ELSE e.records[i-1].commitment
    IN  /\ e.payment = payment
        /\ TermsOK(e.terms)
        /\ \A i, j \in 1..n : i < j => /\ e.records[i].key # e.records[j].key
                                       /\ e.records[i].event < e.records[j].event
        /\ \A i \in 1..n :
              /\ e.records[i].op \in Operations
              /\ e.records[i].fingerprint = RecordFingerprint(payment, e.records[i], e.terms)
              /\ e.records[i].commitment = Commitment(prior(i), payment, e.records[i])
              /\ e.records[i].op \in Openers <=> i = 1
        /\ e.last = IF n = 0 THEN NoId ELSE e.records[n].event
        /\ e.commitment = IF n = 0 THEN <<>> ELSE e.records[n].commitment
        /\ e.state = Replay(e.records)

(* _opening_state *)
OpeningEntity(cmd) ==
    [payment |-> cmd.payment, state |-> Created, terms |-> cmd.terms,
     last |-> NoId, commitment |-> <<>>, records |-> <<>>]

(* What the handler loads: the entity, or for an opening command a new one. *)
Loaded(cmd) ==
    IF entity[cmd.payment] = Missing THEN OpeningEntity(cmd) ELSE entity[cmd.payment]

(* _is_idempotent_retry: the key is known; for the same request, or not. *)
KeyKnown(e, cmd) == \E i \in DOMAIN e.records : e.records[i].key = cmd.key

Retry(e, cmd) ==
    \E i \in DOMAIN e.records :
        /\ e.records[i].key = cmd.key
        /\ e.records[i].op = cmd.op
        /\ e.records[i].fingerprint = Fingerprint(cmd)

(* The entity after the transition. *)
Updated(e, cmd) ==
    LET record == [key |-> cmd.key, op |-> cmd.op, fingerprint |-> Fingerprint(cmd),
                   event |-> uuids, commitment |-> <<>>]
        sealed == [record EXCEPT !.commitment = Commitment(e.commitment, e.payment, record)]
    IN  [e EXCEPT !.state = Transitions[<<e.state, cmd.op>>].state,
                  !.last = uuids,
                  !.commitment = sealed.commitment,
                  !.records = Append(@, sealed)]

(* _post_effect *)
Entry(effect, terms, event) ==
    LET legs == Movement(effect, terms)
    IN  [id |-> <<event, effect>>, debit |-> legs.debit, credit |-> legs.credit,
         currency |-> Currency]
-----------------------------------------------------------------------------
(* A command handled up to the point where it either does nothing, raises, or
   goes through. *)
Loads(cmd) ==
    /\ Canonical(cmd)
    /\ entity[cmd.payment] = Missing => cmd.op \in Openers
    /\ Valid(Loaded(cmd), cmd.payment)

(* Mutant: the transition table is asked before the idempotency records. *)
IsNoOpLate(cmd) ==
    /\ Loads(cmd)
    /\ Legal(Loaded(cmd).state, cmd.op)
    /\ Retry(Loaded(cmd), cmd)

IsNoOp(cmd) == Loads(cmd) /\ Retry(Loaded(cmd), cmd)

Advances(cmd) ==
    /\ Loads(cmd)
    /\ ~KeyKnown(Loaded(cmd), cmd)
    /\ Legal(Loaded(cmd).state, cmd.op)
    /\ Valid(Updated(Loaded(cmd), cmd), cmd.payment)

Effect(cmd) == Transitions[<<Loaded(cmd).state, cmd.op>>].effect

PostingRefused(cmd) ==
    /\ Effect(cmd) # NoEffect
    /\ ~L!Accepts(Entry(Effect(cmd), Loaded(cmd).terms, uuids))

(* handle: a repeated request returns no event and changes nothing. *)
HandleRetry(cmd) ==
    /\ ~failed
    /\ IsNoOp(cmd)
    /\ UNCHANGED vars

(* handle: the transition, its posting, the new entity and its event. *)
HandleAdvance(cmd) ==
    /\ ~failed
    /\ uuids < setUp.maxEvents
    /\ Advances(cmd)
    /\ ~PostingRefused(cmd)
    /\ uuids' = uuids + 1
    /\ IF Effect(cmd) = NoEffect
       THEN UNCHANGED ledgerVars
       ELSE L!Post(Entry(Effect(cmd), Loaded(cmd).terms, uuids))
    /\ entity' = [entity EXCEPT ![cmd.payment] = Updated(Loaded(cmd), cmd)]
    /\ log' = Append(log, [payment |-> cmd.payment, op |-> cmd.op, effect |-> Effect(cmd),
                           event |-> uuids, previous |-> Loaded(cmd).last])
    /\ UNCHANGED <<failed, tampered>>

(* Mutant: the entity is stored before the posting is attempted. *)
HandleUnfundedStored(cmd) ==
    /\ ~failed
    /\ uuids < setUp.maxEvents
    /\ Advances(cmd)
    /\ PostingRefused(cmd)
    /\ uuids' = uuids + 1
    /\ entity' = [entity EXCEPT ![cmd.payment] = Updated(Loaded(cmd), cmd)]
    /\ failed' = TRUE
    /\ UNCHANGED <<ledgerVars, log, tampered>>

(* handle: the ledger refuses the posting; an id has been used up. *)
HandleUnfunded(cmd) ==
    /\ ~failed
    /\ uuids < setUp.maxEvents
    /\ Advances(cmd)
    /\ PostingRefused(cmd)
    /\ uuids' = uuids + 1
    /\ failed' = TRUE
    /\ UNCHANGED <<entity, ledgerVars, log, tampered>>

(* handle: every LifecycleError. *)
HandleIllegal(cmd) ==
    /\ ~failed
    /\ ~IsNoOp(cmd)
    /\ ~Advances(cmd)
    /\ failed' = TRUE
    /\ UNCHANGED <<entity, ledgerVars, uuids, log, tampered>>

(* The owner of the engine rewrites one field of one stored entity. *)
Tamper(payment) ==
    /\ setUp.tampering
    /\ ~failed
    /\ tampered = {}                   \* bound: one rewrite
    /\ entity[payment] # Missing
    /\ \E e \in Tampers(entity[payment]) :
          e # entity[payment] /\ entity' = [entity EXCEPT ![payment] = e]
    /\ tampered' = {payment}
    /\ UNCHANGED <<ledgerVars, uuids, log, failed>>

Init ==
    /\ setUp \in SetUps
    /\ entity = [p \in Payments |-> Missing]
    /\ opening = [k \in Accounts \X {Currency} |-> setUp.opening[k[1]]]
    /\ balances = opening
    /\ entries = <<>>
    /\ entryIds = {}
    /\ uuids = 0
    /\ log = <<>>
    /\ failed = FALSE
    /\ tampered = {}

Next ==
    /\ \/ \E cmd \in Commands :
              HandleRetry(cmd) \/ HandleAdvance(cmd) \/ HandleUnfunded(cmd) \/ HandleIllegal(cmd)
       \/ \E p \in Payments : Tamper(p)
    /\ UNCHANGED setUp

Spec == Init /\ [][Next]_vars
-----------------------------------------------------------------------------
(* The event log, the ledger and the entities tell the same story, also once
   the engine has failed: exactly the events with an effect have an entry, in
   the same order; and the history kept in an entity is the payment's part of
   the log, event by event, each naming its predecessor. *)
LedgerMatchesLog ==
    LET moving == {i \in DOMAIN log : log[i].effect # NoEffect}
    IN  /\ Len(entries) = Cardinality(moving)
        /\ \A i \in moving : entries[Place(moving, i)].id = <<log[i].event, log[i].effect>>

HistoryMatchesLog ==
    \A p \in Payments \ tampered :
        LET mine == {i \in DOMAIN log : log[i].payment = p}
            kept == IF entity[p] = Missing THEN <<>> ELSE entity[p].records
        IN  /\ Len(kept) = Cardinality(mine)
            /\ \A i \in mine :
                  LET k == Place(mine, i)
                  IN  /\ kept[k].event = log[i].event
                      /\ kept[k].op = log[i].op
                      /\ log[i].previous = IF k = 1 THEN NoId ELSE kept[k - 1].event

(* Ledger, event log and each payment's committed history tell one story. *)
OneStory == LedgerMatchesLog /\ HistoryMatchesLog

(* Every balance is the opening balance plus what each payment holds there in
   the lifecycle state it is in; in the states that undo a payment that is
   nothing, so the payer is whole again. *)
BalancesFollowStates ==
    tampered = {} =>
        \A a \in Accounts :
            LET held == [p \in {q \in Payments : entity[q] # Missing} |->
                            Position(entity[p].state, entity[p].terms, a)]
            IN  balances[<<a, Currency>>] = opening[<<a, Currency>>] + SumFunction(held)

(* Money in transit (holds, frozen funds, chargebacks) is always there for the
   payment it belongs to, whatever the other payments on the account do. *)
ReservedFunded ==
    tampered = {} =>
        \A p \in {q \in Payments : entity[q] # Missing}, op \in Operations :
            Legal(entity[p].state, op) =>
                LET debit == Movement(Transitions[<<entity[p].state, op>>].effect,
                                      entity[p].terms).debit
                IN  \A a \in DOMAIN debit \cap Reserved :
                        balances[<<a, Currency>>] >= debit[a]

(* Every unit of money is where the states of the payments say, and theirs to use. *)
MoneyFollowsStates == BalancesFollowStates /\ ReservedFunded

(* A request that has gone through may be delivered again at any later time,
   in any state of the payment, without failing the engine or moving value. *)
RetriesHarmless ==
    \A cmd \in Commands :
        (/\ entity[cmd.payment] # Missing
         /\ cmd.payment \notin tampered
         /\ Retry(entity[cmd.payment], cmd)) => IsNoOp(cmd)

(* "Detect isolated corruption": once one field of a payment's entity has been
   rewritten, no command moves value for that payment any more. *)
CorruptionContained ==
    [][\A p \in tampered : log' = log \/ log'[Len(log')].payment # p]_vars
=============================================================================
