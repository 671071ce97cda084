------------------------------ MODULE CardRail ------------------------------
(***************************************************************************)
(* The card lifecycle of src/apar/simulator/rails/card.py: the tables that  *)
(* PaymentRail runs.                                                        *)
(***************************************************************************)
EXTENDS Integers

Step(state, effect) == [state |-> state, effect |-> effect]

(* _TRANSITIONS: state, operation, next state, effect. *)
CardTable ==
    {<<"created", "authorize", "authorized", "hold">>,
     <<"created", "decline", "declined", "none">>,
     <<"authorized", "clear", "cleared", "none">>,
     <<"authorized", "reverse", "reversed", "release_hold">>,
     <<"cleared", "reverse", "reversed", "release_hold">>,
     <<"cleared", "settle", "settled", "settle">>,
     <<"settled", "report", "reported", "none">>,
     <<"settled", "refund", "refunded", "refund">>,
     <<"reported", "dispute", "dispute", "none">>,
     <<"dispute", "chargeback", "chargeback", "chargeback">>,
     <<"chargeback", "recover", "recovery", "recovery">>}

CardTransitions ==
    [t \in {<<row[1], row[2]>> : row \in CardTable} |->
        LET row == CHOOSE r \in CardTable : <<r[1], r[2]>> = t IN Step(row[3], row[4])]

CardOpeners == {"authorize", "decline"}

(* The constructor's checks: a positive amount, a fee within it, and five
   accounts no two of which are the same. *)
CardTermsOK(terms) ==
    /\ terms.amount > 0
    /\ terms.fee >= 0
    /\ terms.fee <= terms.amount
    /\ LET roles == {"payer", "payee", "hold", "fees", "chargeback"}
       IN  \A r, q \in roles : r # q => terms[r] # terms[q]

(* Mutant: the hold leaves the fee uncovered. *)
CardMovementShortHold(effect, terms) ==
    LET on(role, amount) == [a \in {terms[role]} |-> amount]
        short == terms.amount - terms.fee
    IN  CASE effect = "none"         -> [debit |-> <<>>, credit |-> <<>>]
          [] effect = "hold"         -> [debit |-> on("payer", short), credit |-> on("hold", short)]
          [] effect = "release_hold" -> [debit |-> on("hold", short), credit |-> on("payer", short)]
          [] OTHER                   -> [debit  |-> on("hold", terms.amount),
                                         credit |-> on("payee", terms.amount)]

(* _post_effect *)
CardMovement(effect, terms) ==
    LET gross(role) == [a \in {terms[role]} |-> terms.amount]
        net == [a \in {terms.payee, terms.fees} |->
                   IF a = terms.payee THEN terms.amount - terms.fee ELSE terms.fee]
    IN  CASE effect = "none"         -> [debit |-> <<>>, credit |-> <<>>]
          [] effect = "hold"         -> [debit |-> gross("payer"), credit |-> gross("hold")]
          [] effect = "release_hold" -> [debit |-> gross("hold"), credit |-> gross("payer")]
          [] effect = "settle"       -> [debit |-> gross("hold"), credit |-> net]
          [] effect = "refund"       -> [debit |-> net, credit |-> gross("payer")]
          [] effect = "chargeback"   -> [debit |-> net, credit |-> gross("chargeback")]
          [] effect = "recovery"     -> [debit |-> gross("chargeback"), credit |-> gross("payer")]

(* Where a payment's money is meant to be in each state of its life, stated
   without the steps that lead there. *)
CardPosition(state, terms, account) ==
    LET with(role, amount) == IF account = terms[role] THEN amount ELSE 0
        spent == with("payer", 0 - terms.amount)
    IN  CASE state \in {"authorized", "cleared"} -> spent + with("hold", terms.amount)
          [] state \in {"settled", "reported", "dispute"} ->
                spent + with("payee", terms.amount - terms.fee) + with("fees", terms.fee)
          [] state = "chargeback" -> spent + with("chargeback", terms.amount)
          [] state \in {"created", "declined", "reversed", "refunded", "recovery"} -> 0
=============================================================================
