------------------------------- MODULE A2ARail -------------------------------
(***************************************************************************)
(* The account-to-account lifecycle of src/apar/simulator/rails/a2a.py: the *)
(* tables that PaymentRail runs.                                            *)
(***************************************************************************)
EXTENDS Integers

A2AStep(state, effect) == [state |-> state, effect |-> effect]

(* _TRANSITIONS: state, operation, next state, effect. *)
A2ATable ==
    {<<"created", "initiate", "initiated", "none">>,
     <<"initiated", "accept", "accepted", "none">>,
     <<"initiated", "reject", "rejected", "none">>,
     <<"accepted", "post", "posted", "post">>,
     <<"posted", "report", "reported", "none">>,
     <<"posted", "return", "returned", "return">>,
     <<"reported", "freeze", "frozen", "freeze">>,
     <<"frozen", "recover", "recovered", "recovery">>}

A2ATransitions ==
    [t \in {<<row[1], row[2]>> : row \in A2ATable} |->
        LET row == CHOOSE r \in A2ATable : <<r[1], r[2]>> = t IN A2AStep(row[3], row[4])]

A2AOpeners == {"initiate"}

(* The constructor's checks: a positive amount, a fee of any size, and four
   accounts no two of which are the same. *)
A2ATermsOK(terms) ==
    /\ terms.amount > 0
    /\ terms.fee >= 0
    /\ LET roles == {"payer", "payee", "fees", "frozen"}
       IN  \A r, q \in roles : r # q => terms[r] # terms[q]

(* Mutant: the fee is taken out of what the payee receives. *)
A2AMovementNetted(effect, terms) ==
    LET gross(role) == [a \in {terms[role]} |-> terms.amount]
        feeToo(n) == [a \in {terms.payee, terms.fees} |-> IF a = terms.payee THEN n ELSE terms.fee]
    IN  CASE effect = "none"     -> [debit |-> <<>>, credit |-> <<>>]
          [] effect = "post"     -> [debit  |-> gross("payer"),
                                     credit |-> feeToo(terms.amount - terms.fee)]
          [] effect = "return"   -> [debit |-> gross("payee"), credit |-> gross("payer")]
          [] effect = "freeze"   -> [debit |-> gross("payee"), credit |-> gross("frozen")]
          [] effect = "recovery" -> [debit |-> gross("frozen"), credit |-> gross("payer")]

(* _post_effect: the payer pays the fee on top, and does not get it back. *)
A2AMovement(effect, terms) ==
    LET gross(role) == [a \in {terms[role]} |-> terms.amount]
        feeToo(n) == [a \in {terms.payee, terms.fees} |-> IF a = terms.payee THEN n ELSE terms.fee]
    IN  CASE effect = "none"     -> [debit |-> <<>>, credit |-> <<>>]
          [] effect = "post"     -> [debit  |-> [a \in {terms.payer} |-> terms.amount + terms.fee],
                                     credit |-> feeToo(terms.amount)]
          [] effect = "return"   -> [debit |-> gross("payee"), credit |-> gross("payer")]
          [] effect = "freeze"   -> [debit |-> gross("payee"), credit |-> gross("frozen")]
          [] effect = "recovery" -> [debit |-> gross("frozen"), credit |-> gross("payer")]

(* Where a transfer's money is meant to be in each state of its life, stated
   without the steps that lead there. *)
A2APosition(state, terms, account) ==
    LET with(role, amount) == IF account = terms[role] THEN amount ELSE 0
        fee  == with("payer", 0 - terms.fee) + with("fees", terms.fee)
        paid == with("payer", 0 - terms.amount) + fee
    IN  CASE state \in {"posted", "reported"} -> paid + with("payee", terms.amount)
          [] state = "frozen" -> paid + with("frozen", terms.amount)
          [] state \in {"returned", "recovered"} -> fee
          [] state \in {"created", "initiated", "accepted", "rejected"} -> 0
=============================================================================
