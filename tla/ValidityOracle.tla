---------------------------- MODULE ValidityOracle ----------------------------
(***************************************************************************)
(* The campaign validity oracle of src/apar/evaluation_hidden/validity.py:  *)
(* it is given the events of a campaign, to which the runner has added each *)
(* payment's terms and the opening balances, and replays the accounts from  *)
(* the events alone, with lists of legal lifecycles and postings of its     *)
(* own.                                                                     *)
(*                                                                          *)
(* An event has the kind of the operation that emits it.  Left out are the  *)
(* checks on roles, times, amounts' bounds, the campaign's connectedness    *)
(* and its distance from benign traffic, and the agentic rail's events.     *)
(***************************************************************************)
EXTENDS Places, Sequences, Functions

(* legal_card_prefixes *)
CardLifecycles ==
    {<<"decline">>,
     <<"authorize", "reverse">>,
     <<"authorize", "clear", "settle">>,
     <<"authorize", "clear", "settle", "refund">>,
     <<"authorize", "clear", "settle", "report", "dispute", "chargeback">>,
     <<"authorize", "clear", "settle", "report", "dispute", "chargeback", "recover">>}

(* legal_a2a *)
TransferLifecycles ==
    {<<"initiate", "reject">>,
     <<"initiate", "accept", "post">>,
     <<"initiate", "accept", "post", "return">>,
     <<"initiate", "accept", "post", "report", "freeze", "recover">>}

Lifecycles(rail) == IF rail = "card" THEN CardLifecycles ELSE TransferLifecycles

RolesOf(rail) ==
    {"payer", "payee", "fees"} \cup IF rail = "card" THEN {"hold", "chargeback"} ELSE {"frozen"}

(* The runner's events: the engine's, with the terms of the command that opened
   the payment; terms: payment -> these. *)
Enriched(rail, log, terms) ==
    [i \in DOMAIN log |->
        [id |-> log[i].event, previous |-> log[i].previous, payment |-> log[i].payment,
         kind |-> log[i].op, rail |-> rail, terms |-> terms[log[i].payment]]]

OfPayment(events, p) ==
    LET own == {i \in DOMAIN events : events[i].payment = p}
    IN  [k \in 1..Cardinality(own) |-> events[CHOOSE i \in own : Place(own, i) = k]]

PaymentsIn(events) == {events[i].payment : i \in DOMAIN events}
-----------------------------------------------------------------------------
(* _check_lifecycles; noId: no event named. *)
LifecycleReasons(events, noId) ==
    LET illegal(life) ==
            \/ [i \in DOMAIN life |-> life[i].kind] \notin Lifecycles(life[1].rail)
            \/ \E i \in DOMAIN life : life[i].rail # life[1].rail
        changed(life) == \E i \in DOMAIN life : life[i].terms.amount # life[1].terms.amount
        broken(life) ==
            \E i \in DOMAIN life :
                life[i].previous # IF i = 1 THEN noId ELSE life[i-1].id
        lives == {OfPayment(events, p) : p \in PaymentsIn(events)}
    IN  (IF \E life \in lives : illegal(life) THEN {"ILLEGAL_LIFECYCLE"} ELSE {})
        \cup (IF \E life \in lives : changed(life) THEN {"VALUE_CONSERVATION_FAILED"} ELSE {})
        \cup (IF \E life \in lives : broken(life) THEN {"LINEAGE_INVALID"} ELSE {})

(* The account effects of _check_balances. *)
Effects(e) ==
    LET t == e.terms
        gross(role) == [a \in {t[role]} |-> t.amount]
        withFee(n) == [a \in {t.payee, t.fees} |-> IF a = t.payee THEN n ELSE t.fee]
        net == withFee(t.amount - t.fee)
        moved(from, to) == [from |-> from, to |-> to]
    IN  CASE e.rail = "card" /\ e.kind = "authorize"  -> moved(gross("payer"), gross("hold"))
          [] e.rail = "card" /\ e.kind = "reverse"    -> moved(gross("hold"), gross("payer"))
          [] e.rail = "card" /\ e.kind = "settle"     -> moved(gross("hold"), net)
          [] e.rail = "card" /\ e.kind = "refund"     -> moved(net, gross("payer"))
          [] e.rail = "card" /\ e.kind = "chargeback" -> moved(net, gross("chargeback"))
          [] e.rail = "card" /\ e.kind = "recover"    -> moved(gross("chargeback"), gross("payer"))
          [] e.rail = "a2a" /\ e.kind = "post" ->
                moved([a \in {t.payer} |-> t.amount + t.fee], withFee(t.amount))
          [] e.rail = "a2a" /\ e.kind = "return"      -> moved(gross("payee"), gross("payer"))
          [] e.rail = "a2a" /\ e.kind = "freeze"      -> moved(gross("payee"), gross("frozen"))
          [] e.rail = "a2a" /\ e.kind = "recover"     -> moved(gross("frozen"), gross("payer"))
          [] OTHER -> moved(<<>>, <<>>)

(* transfer: equal sums, and every source has what it gives. *)
Transfer(account, effect) ==
    LET given(a) == IF a \in DOMAIN effect.from THEN effect.from[a] ELSE 0
        got(a) == IF a \in DOMAIN effect.to THEN effect.to[a] ELSE 0
    IN  IF SumFunction(effect.from) # SumFunction(effect.to)
        THEN [account EXCEPT !.reasons = @ \cup {"VALUE_CONSERVATION_FAILED"}]
        ELSE IF \E a \in DOMAIN effect.from : account.balances[a] < effect.from[a]
        THEN [account EXCEPT !.reasons = @ \cup {"BALANCE_INFEASIBLE"}]
        ELSE [account EXCEPT !.balances =
                [a \in DOMAIN account.balances |->
                    account.balances[a] - given(a) + got(a)]]

AccountsApart(e) ==
    \A r, q \in RolesOf(e.rail) : r # q => e.terms[r] # e.terms[q]

(* Mutant: a fee as large as the amount is refused. *)
FeeBelowAmount(e) == e.terms.fee >= 0 /\ (e.rail = "card" => e.terms.fee < e.terms.amount)

FeeGiven(e) == e.terms.fee >= 0 /\ (e.rail = "card" => e.terms.fee <= e.terms.amount)

(* The terms the payment's first usable event declared. *)
SameContract(events, i) ==
    LET usable(j) == AccountsApart(events[j]) /\ FeeGiven(events[j])
        before == {j \in 1..i-1 : events[j].payment = events[i].payment /\ usable(j)}
    IN  \A j \in before : (\A k \in before : j <= k) => events[j].terms = events[i].terms

(* _check_balances: the accounts after the events, and what was wrong with them. *)
Accounted(events, opening) ==
    LET after[i \in 0..Len(events)] ==
            IF i = 0 THEN [balances |-> opening, reasons |-> {}]
            ELSE LET account == after[i-1]
                     refuse(reason) == [account EXCEPT !.reasons = @ \cup {reason}]
                 IN  IF ~AccountsApart(events[i]) THEN refuse("ACCOUNT_EVIDENCE_INVALID")
                     ELSE IF ~FeeGiven(events[i]) THEN refuse("FEE_EVIDENCE_INVALID")
                     ELSE IF ~SameContract(events, i)
                          THEN refuse("ECONOMIC_EVIDENCE_INCONSISTENT")
                     ELSE Transfer(account, Effects(events[i]))
    IN  after[Len(events)]
=============================================================================
