---------------------------- MODULE MCAgenticRail ----------------------------
(***************************************************************************)
(* The verifier by itself, with requests that reuse a nonce, share one      *)
(* step-up evidence, carry evidence issued for another request, expire      *)
(* early or are out of scope, and evidence that expires before its request; *)
(* and one or two engines behind one verifier.  The user can fund two of    *)
(* the payments, so that an approval can fail at the ledger.                *)
(***************************************************************************)
EXTENDS AgenticRail, TLC

CONSTANTS e1, e2, a1, a2, n1, n2, v1, v2, user, shop

Req(id, agent, nonce, evidence, defect, until) ==
    [id |-> id, agent |-> agent, nonce |-> nonce, stepUp |-> evidence # NoEvidence,
     evidence |-> evidence, defect |-> defect, from |-> 0, until |-> until]

(* The requests the engines are given. *)
Commands ==
    {Req("first", a1, n1, NoEvidence, "none", 2),
     Req("second", a1, n2, NoEvidence, "none", 1),
     Req("other", a2, n1, NoEvidence, "none", 2),
     Req("outside", a2, n2, NoEvidence, "amount", 2)}

MCRequests ==
    Commands \cup
    {Req("again", a1, n1, NoEvidence, "none", 1),
     Req("step", a1, n2, v1, "none", 2),
     Req("borrowed", a2, n2, v1, "none", 2),
     Req("swapped", a1, n2, v1, "none", 2),
     Req("unknown", a2, n2, v2, "none", 2)}

MCRegistry ==
    v1 :> [agent |-> a1, nonce |-> n2, request |-> "step", verified |-> TRUE,
           from |-> 0, until |-> 1]

(* No engine; one engine whose stored state may be damaged; two engines, with
   requests of two agents, whose chains could be mixed up. *)
MCSetUps ==
    {[engines |-> {}, requests |-> MCRequests, times |-> Times, damaging |-> FALSE,
      outside |-> 3, maxEvents |-> 0],
     [engines |-> {e1}, requests |-> Commands, times |-> {0, 1}, damaging |-> TRUE,
      outside |-> 1, maxEvents |-> 3],
     [engines |-> {e1, e2}, requests |-> {r \in Commands : r.nonce = n1}, times |-> {0},
      damaging |-> FALSE, outside |-> 1, maxEvents |-> 2]}

MCAccounts == {user, shop}
MCOpening == [a \in MCAccounts |-> IF a = user THEN 3 ELSE 0]
MCPayer(r) == user
MCPayee(r) == shop
MCAmount(r) == IF r.agent = a1 THEN 2 ELSE 1

MCDamages(recs) == {[recs EXCEPT ![i].nonce = n2] : i \in DOMAIN recs}

(* Without an engine the callers use every call of the verifier. *)
MCNext ==
    \/ AgenticNext
    \/ setUp.engines = {} /\ VerifierNext /\ UNCHANGED <<setUp, engineVars>>

MCSpec == AgenticInit /\ [][MCNext]_agenticVars
=============================================================================
