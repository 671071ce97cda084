----------------------------- MODULE AgenticRail -----------------------------
(***************************************************************************)
(* The agentic rail adapter of src/apar/simulator/rails/agentic.py: the     *)
(* integrity verifier, a risk scorer, the ledger and the trust state that   *)
(* the engine keeps, combined in one handler.                               *)
(*                                                                          *)
(* One verifier may serve the adapters of several engines                   *)
(* (evaluation/v5_population.py builds it outside the factory), and its     *)
(* owner may use it between commands.  Every engine has its own ledger,     *)
(* event log and stored trust state; the verifier's own records are         *)
(* whatever its last user left there.  A handler call is atomic: one        *)
(* engine callback at a time.                                               *)
(***************************************************************************)
EXTENDS TrustVerifier, Places

CONSTANTS
    Engines,     \* engines whose adapters share the verifier
    Payer(_),    \* request -> the account the command debits
    Payee(_),    \* request -> the account it credits
    Amount(_),   \* request -> the amount
    Accounts,    \* ledger accounts
    Opening,     \* opening balances: Accounts -> Nat
    Damages(_),  \* trust states an owner may put in place of a stored one
    Currency,    \* the currency of all requests
    SetUps       \* what is explored: [engines, requests, times, damaging, outside,
                 \* maxEvents]; outside bounds the records the verifier's owner adds
                 \* to, maxEvents the ids an engine hands out, 2^48 in the code

ASSUME SetUpsTyped ==
    \A s \in SetUps : /\ s.engines \subseteq Engines /\ s.requests \subseteq Requests
                      /\ s.times \subseteq Times /\ s.damaging \in BOOLEAN
                      /\ s.outside \in Nat /\ s.maxEvents \in Nat

ASSUME AmountsTyped == \A r \in Requests : Amount(r) \in Nat

VARIABLES
    setUp,    \* the engines and requests explored; fixed
    clock,    \* by engine: its current time
    trust,    \* by engine: entity state "agentic-trust", as record sequence
    ledger,   \* by engine: [opening, balances, entries, entryIds]
    uuids,    \* by engine: its UUID counter
    log,      \* by engine: its event log
    failed,   \* by engine: its terminal failure
    damaged   \* engines whose trust state the owner replaced

engineVars == <<clock, trust, ledger, uuids, log, failed, damaged>>
agenticVars == <<setUp, verifierVars, engineVars>>

L(led) == INSTANCE Ledger WITH
             opening <- led.opening, balances <- led.balances,
             entries <- led.entries, entryIds <- led.entryIds,
             BlankAccount <- None, Currencies <- {Currency},
             Grain <- [c \in {Currency} |-> 1], CreditAccounts <- {}, CreditPairs <- {},
             BlankId <- None, Openings <- {}, Requests <- {}

Actions == {"approve", "challenge", "decline"}

ASSUME ActionsAreOutcomes == Actions \subseteq Outcomes
-----------------------------------------------------------------------------
(* Mutant: the handler goes on with the records the verifier happens to hold. *)
StoredShared(e) == records

(* What load_state is given: the stored state, or the empty one. *)
Stored(e) == trust[e]

Entry(request, event) ==
    [id |-> event, debit |-> [a \in {Payer(request)} |-> Amount(request)],
     credit |-> [a \in {Payee(request)} |-> Amount(request)], currency |-> Currency]

Entered(led, entry) ==
    [led EXCEPT !.balances = L(led)!Posted(L(led)!Normalized(entry)),
                !.entries = Append(@, L(led)!Normalized(entry)),
                !.entryIds = @ \cup {entry.id}]

Shows(e, request) == Receipt(request, LastReceipt(Stored(e), request.agent), "preview")

Previewed(e, request, prior) == PreviewReason(Stored(e), request, prior, clock[e]) = "none"

(* What is pending in the verifier once the scorer has answered: the preview
   issued to this handler, unless the scorer itself called the verifier. *)
Issued(e, request) ==
    {[receipt |-> Shows(e, request), at |-> clock[e]], None}
    \cup {[receipt |-> Shows(e, r), at |-> clock[e]] : r \in setUp.requests}

Refusal(e, request, prior, issued) ==
    PrepareReason(Stored(e), issued, Shows(e, request), request, prior, clock[e])

Event(e, request, kind, receipt, committed) ==
    [event |-> uuids[e], request |-> request.id, kind |-> kind, receipt |-> receipt,
     committed |-> committed]

Mint(e) == uuids[e] < setUp.maxEvents /\ uuids' = [uuids EXCEPT ![e] = @ + 1]

Idle(e) == preview' = None /\ pending' = None /\ records' = Stored(e)

Fail(e) == failed' = [failed EXCEPT ![e] = TRUE]
-----------------------------------------------------------------------------
(* handle: load_state refuses the stored trust state; the engine fails and the
   verifier keeps what it had. *)
HandleUnreadable(e) ==
    /\ ~failed[e]
    /\ ~Loadable(Stored(e))
    /\ Fail(e)
    /\ UNCHANGED <<verifierVars, clock, trust, ledger, uuids, log, damaged>>

(* handle: the preview is refused; a declined event and nothing else. *)
HandleRejected(e, request, prior) ==
    /\ ~failed[e]
    /\ Loadable(Stored(e))
    /\ ~Previewed(e, request, prior)
    /\ Mint(e)
    /\ log' = [log EXCEPT ![e] = Append(@, Event(e, request, "declined", NoReceipt, FALSE))]
    /\ Idle(e)
    /\ UNCHANGED <<plans, clock, trust, ledger, failed, damaged>>

(* process: the scorer raises or returns no Action; the preview is discarded. *)
HandleScorerRaises(e, request, prior) ==
    /\ ~failed[e]
    /\ Loadable(Stored(e))
    /\ Previewed(e, request, prior)
    /\ Fail(e)
    /\ Idle(e)
    /\ UNCHANGED <<plans, clock, trust, ledger, uuids, log, damaged>>

(* handle: prepare_commit refuses, because the scorer used the verifier. *)
HandleNotPrepared(e, request, prior) ==
    /\ ~failed[e]
    /\ Loadable(Stored(e))
    /\ Previewed(e, request, prior)
    /\ \E issued \in Issued(e, request) : Refusal(e, request, prior, issued) # "none"
    /\ Mint(e)
    /\ log' = [log EXCEPT ![e] = Append(@, Event(e, request, "declined", NoReceipt, FALSE))]
    /\ Idle(e)
    /\ UNCHANGED <<plans, clock, trust, ledger, failed, damaged>>

Prepared(e, request, prior) ==
    /\ ~failed[e]
    /\ Loadable(Stored(e))
    /\ Previewed(e, request, prior)
    /\ \E issued \in Issued(e, request) : Refusal(e, request, prior, issued) = "none"
    /\ plans < MaxPlans
    /\ plans' = plans + 1

(* Mutant: the trust state is stored before the posting is attempted. *)
HandleUnfundedConsumed(e, request, prior) ==
    /\ Prepared(e, request, prior)
    /\ ~L(ledger[e])!Accepts(Entry(request, uuids[e]))
    /\ Mint(e)
    /\ Fail(e)
    /\ trust' = [trust EXCEPT ![e] = Append(Stored(e), RecordOf(Stored(e), request, "approve"))]
    /\ Idle(e)
    /\ UNCHANGED <<clock, ledger, log, damaged>>

(* handle: approved, but the ledger refuses; the plan is discarded. *)
HandleUnfunded(e, request, prior) ==
    /\ Prepared(e, request, prior)
    /\ ~L(ledger[e])!Accepts(Entry(request, uuids[e]))
    /\ Mint(e)
    /\ Fail(e)
    /\ Idle(e)
    /\ UNCHANGED <<clock, trust, ledger, log, damaged>>

(* handle: the outcome is final.  Posting if approved, then the stored state,
   then the verifier's own records, then the event. *)
HandleCommitted(e, request, prior, action) ==
    LET record == RecordOf(Stored(e), request, action)
        entry  == Entry(request, uuids[e])
    IN  /\ Prepared(e, request, prior)
        /\ action = "approve" => L(ledger[e])!Accepts(entry)
        /\ Mint(e)
        /\ ledger' = IF action = "approve"
                     THEN [ledger EXCEPT ![e] = Entered(@, entry)] ELSE ledger
        /\ trust' = [trust EXCEPT ![e] = Append(Stored(e), record)]
        /\ records' = Append(Stored(e), record)
        /\ preview' = None /\ pending' = None
        /\ log' = [log EXCEPT ![e] = Append(@, Event(e, request, action, record.receipt, TRUE))]
        /\ UNCHANGED <<clock, failed, damaged>>

(* The owner of the verifier uses it on its own between two commands. *)
Outside ==
    /\ \E r \in setUp.requests, prior \in Priors, now \in setUp.times :
          \/ Preview(r, prior, now)
          \/ /\ preview # None
             /\ Len(records) < setUp.outside
             /\ \E outcome \in Outcomes : Commit(r, prior, preview.receipt, outcome, now)
    /\ UNCHANGED engineVars

(* The owner of an engine replaces the stored trust state. *)
Damage(e) ==
    /\ setUp.damaging
    /\ ~failed[e]
    /\ damaged = {}                   \* bound: one replacement
    /\ \E recs \in Damages(trust[e]) : trust' = [trust EXCEPT ![e] = recs]
    /\ damaged' = {e}
    /\ UNCHANGED <<verifierVars, clock, ledger, uuids, log, failed>>

Tick(e) ==
    /\ clock[e] + 1 \in setUp.times
    /\ clock' = [clock EXCEPT ![e] = @ + 1]
    /\ UNCHANGED <<verifierVars, trust, ledger, uuids, log, failed, damaged>>

(* prior_receipt_hash values a request can have been signed with: those of the
   engine's own chain, and one that fits nothing. *)
SignedPriors(e) == {NoReceipt} \cup {trust[e][i].receipt : i \in DOMAIN trust[e]}

AgenticInit ==
    /\ setUp \in SetUps
    /\ VerifierInit
    /\ clock = [e \in Engines |-> 0]
    /\ trust = [e \in Engines |-> <<>>]
    /\ LET opened == [k \in Accounts \X {Currency} |-> Opening[k[1]]]
       IN  ledger = [e \in Engines |->
                       [opening |-> opened, balances |-> opened, entries |-> <<>>,
                        entryIds |-> {}]]
    /\ uuids = [e \in Engines |-> 0]
    /\ log = [e \in Engines |-> <<>>]
    /\ failed = [e \in Engines |-> FALSE]
    /\ damaged = {}

HandleCommand(e, r, prior) ==
    \/ HandleRejected(e, r, prior)
    \/ HandleScorerRaises(e, r, prior)
    \/ HandleNotPrepared(e, r, prior)
    \/ HandleUnfunded(e, r, prior)
    \/ \E action \in Actions : HandleCommitted(e, r, prior, action)

AgenticNext ==
    /\ \/ \E e \in setUp.engines :
              \/ HandleUnreadable(e)
              \/ \E r \in setUp.requests, prior \in SignedPriors(e) : HandleCommand(e, r, prior)
              \/ Damage(e)
              \/ Tick(e)
       \/ Outside
    /\ UNCHANGED setUp

AgenticSpec == AgenticInit /\ [][AgenticNext]_agenticVars
-----------------------------------------------------------------------------
Finals(e)    == {i \in DOMAIN log[e] : log[e][i].committed}
Approvals(e) == {i \in DOMAIN log[e] : log[e][i].kind = "approve"}
Approved(e)  == {i \in DOMAIN trust[e] : trust[e][i].outcome = "approve"}

(* The engine's event log and the trust state it stores are the same chain:
   every final outcome logged is a stored record with that receipt, in order,
   whoever else used the verifier in between. *)
LogMatchesChain ==
    \A e \in Engines \ damaged :
        /\ Cardinality(Finals(e)) = Len(trust[e])
        /\ \A i \in Finals(e) :
              LET event  == log[e][i]
                  record == trust[e][Place(Finals(e), i)]
              IN  /\ event.receipt = record.receipt
                  /\ event.request = record.request
                  /\ event.kind = record.outcome

(* Value moves for logged approvals only, once for each, also after the stored
   trust state was replaced. *)
EntriesAreApprovals ==
    \A e \in Engines :
        /\ Cardinality(Approvals(e)) = Len(ledger[e].entries)
        /\ \A i \in Approvals(e) :
              \E r \in Requests :
                  /\ r.id = log[e][i].request
                  /\ r.defect = "none"
                  /\ ledger[e].entries[Place(Approvals(e), i)] = Entry(r, log[e][i].event)

(* Where the stored state was not replaced, the approvals are the approved
   records, in order: no (agent, nonce) pays twice, and no nonce is spent by an
   approval that moved nothing. *)
RecordsAreApprovals ==
    \A e \in Engines \ damaged :
        /\ Cardinality(Approved(e)) = Cardinality(Approvals(e))
        /\ \A i \in Approvals(e), j \in Approved(e) :
              Place(Approvals(e), i) = Place(Approved(e), j)
                  => trust[e][j].request = log[e][i].request

ApprovalsMatchEntries == EntriesAreApprovals /\ RecordsAreApprovals

(* What the rail is trusted for, over the lives of one verifier and two engines:
   the log, the stored trust state and the ledger tell one story, and what the
   verifier dumps is a state it would load. *)
TrustStory == LogMatchesChain /\ ApprovalsMatchEntries /\ DumpLoads
=============================================================================
