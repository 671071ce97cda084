---------------------------- MODULE MCPaymentRail ----------------------------
(***************************************************************************)
(* Five engines.  Two card engines: two payments that share the default     *)
(* hold, fee and chargeback accounts, and where the payee of the first is   *)
(* the payer of the second, so that a chargeback can find the money spent.  *)
(* One card engine with one payment whose owner rewrites what is stored.    *)
(* And account-to-account engines whose payee passes the money on before a  *)
(* freeze or a return.  What the engine has logged is also shown to the     *)
(* validity oracle.                                                         *)
(***************************************************************************)
EXTENDS RailOracle

CONSTANTS p1, p2, alice, bob, carol, holds, fees, chargebacks, frozen

MCOpeners(r) == IF r = "card" THEN CardOpeners ELSE A2AOpeners
MCTransitions(r) == IF r = "card" THEN CardTransitions ELSE A2ATransitions
MCTermsOK(r, terms) == IF r = "card" THEN CardTermsOK(terms) ELSE A2ATermsOK(terms)
MCMovement(r, effect, terms) ==
    IF r = "card" THEN CardMovement(effect, terms) ELSE A2AMovement(effect, terms)
MCPosition(r, state, terms, account) ==
    IF r = "card" THEN CardPosition(state, terms, account) ELSE A2APosition(state, terms, account)
MCReserved == {holds, chargebacks, frozen}
MCAccounts == {alice, bob, carol, fees} \cup MCReserved

SetUp(r, payments, alices, bobs, tampering, maxEvents) ==
    [rail |-> r, payments |-> payments,
     opening |-> [a \in MCAccounts |-> CASE a = alice -> alices [] a = bob -> bobs [] OTHER -> 0],
     tampering |-> tampering, maxEvents |-> maxEvents]

MCSetUps ==
    {SetUp("card", {p1, p2}, 3, n, FALSE, 10) : n \in {0, 2}}
    \cup {SetUp("card", {p1}, 3, 0, TRUE, 6)}
    \cup {SetUp("a2a", {p1, p2}, 3, n, FALSE, 12) : n \in {1, 3}}

CardTerms(payer, payee, amount, fee) ==
    [amount |-> amount, fee |-> fee, payer |-> payer, payee |-> payee,
     hold |-> holds, fees |-> fees, chargeback |-> chargebacks]

TransferTerms(payer, payee, amount, fee) ==
    [amount |-> amount, fee |-> fee, payer |-> payer, payee |-> payee,
     fees |-> fees, frozen |-> frozen]

TermsOf(r, p) ==
    CASE r = "card" /\ p = p1 -> CardTerms(alice, bob, 3, 1)
      [] r = "card" /\ p = p2 -> CardTerms(bob, carol, 2, 2)
      [] r = "a2a" /\ p = p1 -> TransferTerms(alice, bob, 2, 1)
      [] r = "a2a" /\ p = p2 -> TransferTerms(bob, carol, 1, 2)

OtherTerms(p) == [TermsOf("card", p) EXCEPT !.amount = @ - 1, !.fee = 0]

Open(p, op, terms) == [payment |-> p, op |-> op, key |-> op, terms |-> terms]
Follow(p, op, key) == [payment |-> p, op |-> op, key |-> key, terms |-> NoTerms]

(* Every operation under its default key; for the first card payment also a
   changed request under a used key, one key for two operations, and a payload
   the constructor would have refused. *)
MCCommands(s) ==
    LET operations == {t[2] : t \in DOMAIN MCTransitions(s.rail)}
    IN  UNION {{Open(p, op, TermsOf(s.rail, p)) : op \in MCOpeners(s.rail)}
               \cup {Follow(p, op, op) : op \in operations \ MCOpeners(s.rail)} : p \in s.payments}
        \cup IF s.rail = "card"
             THEN {Open(p1, "authorize", OtherTerms(p1)),
                   Follow(p1, "settle", "clear"),
                   Open(p1, "authorize", [TermsOf("card", p1) EXCEPT !.fee = 4])}
             ELSE {}

(* One field of a stored card payment, or one field of one of its records. *)
MCTampers(e) ==
    {[e EXCEPT !.state = s] : s \in {CardTransitions[t].state : t \in DOMAIN CardTransitions}}
    \cup {[e EXCEPT !.terms = t] : t \in {OtherTerms(e.payment), TermsOf("card", p2)}}
    \cup {[e EXCEPT !.payment = p] : p \in {p1, p2}}
    \cup {[e EXCEPT !.last = i] : i \in {NoId, 0, 1}}
    \cup {[e EXCEPT !.commitment = <<>>],
          [e EXCEPT !.records = SubSeq(@, 1, Len(@) - 1)],
          [e EXCEPT !.records = SubSeq(@, 2, Len(@))]}
    \cup UNION {{[e EXCEPT !.records[i].op = op] : op \in Operations}
                \cup {[e EXCEPT !.records[i].key = "other"],
                      [e EXCEPT !.records[i].event = @ + 1],
                      [e EXCEPT !.records[i].commitment = <<>>],
                      [e EXCEPT !.records[i].fingerprint.key = "other"]} : i \in DOMAIN e.records}
=============================================================================
