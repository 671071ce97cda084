------------------------------ MODULE RailOracle ------------------------------
(***************************************************************************)
(* What the card or account-to-account engine has logged, shown to the      *)
(* validity oracle.                                                         *)
(***************************************************************************)
EXTENDS PaymentRail, CardRail, A2ARail, ValidityOracle

(* The accounts are all those that a payment asked for is between. *)
ASSUME AccountsListed ==
    \A s \in SetUps : \A cmd \in CommandsOf(s) :
        cmd.terms # NoTerms => \A r \in RolesOf(s.rail) : cmd.terms[r] \in Accounts
-----------------------------------------------------------------------------
(* A payment is between two of the ends the oracle lists, or was reversed when
   it was cleared already, which the card rail allows and the oracle does not. *)
Unlisted(e) ==
    \/ e.state \in {"authorized", "cleared", "reported", "dispute",
                     "initiated", "accepted", "frozen"}
    \/ e.state = "reversed" /\ Len(e.records) = 3

(* The oracle's replay of the events, written without the rails' tables, ends
   with the ledger's balances and finds fault with nothing the rails did, but
   for the lifecycles it does not list. *)
OracleAgrees ==
    tampered = {} =>
        LET known  == {p \in Payments : entity[p] # Missing}
            events == Enriched(rail, log, [p \in known |-> entity[p].terms])
            account == Accounted(events, [a \in Accounts |-> opening[<<a, Currency>>]])
            unlisted == \E p \in known : Unlisted(entity[p])
        IN  /\ \A a \in Accounts : account.balances[a] = balances[<<a, Currency>>]
            /\ account.reasons = {}
            /\ LifecycleReasons(events, NoId) = IF unlisted THEN {"ILLEGAL_LIFECYCLE"} ELSE {}
=============================================================================
