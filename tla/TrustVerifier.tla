---------------------------- MODULE TrustVerifier ----------------------------
(***************************************************************************)
(* The integrity verifier of src/apar/trust/verifier.py: ordered checks of  *)
(* an agent's payment request, a preview that consumes nothing, a           *)
(* single-use commit plan, and the replay state (nonces, step-up evidence,  *)
(* one receipt chain per agent) that a commit extends.                      *)
(*                                                                          *)
(* The caller is anyone: it may interleave the calls in any order, present  *)
(* previews that were never issued, keep plans and use them late, and load  *)
(* state that was dumped earlier or was damaged.  A digest is an injective  *)
(* value: a receipt is the chain of the commitments that lead to it.        *)
(***************************************************************************)
EXTENDS Integers, Sequences

CONSTANTS
    Requests,    \* requests as signed, except for prior_receipt_hash:
                 \* [id, agent, nonce, stepUp, evidence, defect, from, until]
    Registry,    \* authentication_evidence: evidence id ->
                 \* [agent, nonce, request, verified, from, until]
    NoEvidence,  \* authentication_evidence_ref of a request without step-up
    Times,       \* the clock readings callers pass
    Outcomes,    \* the final receipt outcomes
    MaxRecords,  \* bound: committed records
    MaxPlans,    \* bound: commit plans issued
    None         \* no pending preview, no pending plan

ASSUME VerifierConstants ==
    /\ \A r \in Requests : r.stepUp = (r.evidence # NoEvidence)
    /\ "preview" \notin Outcomes
    /\ MaxRecords \in Nat /\ MaxPlans \in Nat

VARIABLES
    records,   \* _records
    preview,   \* _pending_preview: a receipt and the time it was issued
    pending,   \* _pending_commit: the plan's identity and the record
    plans      \* commit plans issued so far; plan i is the object issued i-th

verifierVars == <<records, preview, pending, plans>>

NoReceipt == <<>>
-----------------------------------------------------------------------------
(* _receipt_digest *)
Receipt(request, previous, outcome) ==
    Append(previous, [agent |-> request.agent, nonce |-> request.nonce,
                      evidence |-> request.evidence, request |-> request.id,
                      outcome |-> outcome])

(* _last_receipt: the receipt of the agent's latest record. *)
LastReceipt(recs, agent) ==
    LET mine == {i \in DOMAIN recs : recs[i].agent = agent}
    IN  IF mine = {} THEN NoReceipt
        ELSE recs[CHOOSE i \in mine : \A j \in mine : j <= i].receipt

NonceUsed(recs, request) ==
    \E i \in DOMAIN recs : recs[i].agent = request.agent /\ recs[i].nonce = request.nonce

EvidenceUsed(recs, request) ==
    \E i \in DOMAIN recs : recs[i].evidence # NoEvidence /\ recs[i].evidence = request.evidence

WithinWindow(window, now) == window.from <= now /\ now < window.until

EvidenceMatches(request) ==
    LET evidence == Registry[request.evidence]
    IN  /\ evidence.agent = request.agent
        /\ evidence.nonce = request.nonce
        /\ evidence.request = request.id
        /\ evidence.verified

(* The step-up checks of preview, in their order. *)
StepUpReason(recs, request, now) ==
    IF EvidenceUsed(recs, request) THEN "evidence_replay"
    ELSE IF request.evidence \notin DOMAIN Registry THEN "evidence_missing"
    ELSE IF ~EvidenceMatches(request) THEN "evidence_mismatch"
    ELSE IF ~WithinWindow(Registry[request.evidence], now) THEN "evidence_expired"
    ELSE "none"

(* The checks of preview, in their order.  request.defect is the first of the
   identity, signature, mandate-binding and scope checks the request fails. *)
PreviewReason(recs, request, prior, now) ==
    IF request.defect # "none" THEN request.defect
    ELSE IF ~WithinWindow(request, now) THEN "expired"
    ELSE IF NonceUsed(recs, request) THEN "nonce_replay"
    ELSE IF prior # LastReceipt(recs, request.agent) THEN "chain_broken"
    ELSE IF request.stepUp THEN StepUpReason(recs, request, now)
    ELSE "none"

(* _prepare_commit: why no plan is issued.  issued is what
   _take_pending_preview returned, shown the preview the caller presents. *)
PrepareReason(recs, issued, shown, request, prior, now) ==
    LET expected == Receipt(request, LastReceipt(recs, request.agent), "preview")
    IN  IF shown # expected \/ issued = None THEN "receipt_mismatch"
        ELSE IF issued.receipt # shown \/ now < issued.at THEN "receipt_mismatch"
        ELSE IF /\ request.stepUp
                /\ request.evidence \in DOMAIN Registry
                /\ ~WithinWindow(Registry[request.evidence], now) THEN "evidence_expired"
        ELSE IF ~WithinWindow(request, now) THEN "expired"
        ELSE IF NonceUsed(recs, request) THEN "nonce_replay"
        ELSE IF prior # LastReceipt(recs, request.agent) THEN "chain_broken"
        ELSE "none"

(* The record that a plan commits. *)
RecordOf(recs, request, outcome) ==
    LET previous == LastReceipt(recs, request.agent)
    IN  [agent |-> request.agent, nonce |-> request.nonce, evidence |-> request.evidence,
         request |-> request.id, previous |-> previous, outcome |-> outcome,
         receipt |-> Receipt(request, previous, outcome)]

(* What load_state accepts. *)
Loadable(recs) ==
    /\ \A i, j \in DOMAIN recs : i < j =>
          /\ <<recs[i].agent, recs[i].nonce>> # <<recs[j].agent, recs[j].nonce>>
          /\ recs[i].evidence # NoEvidence => recs[i].evidence # recs[j].evidence
    /\ \A i \in DOMAIN recs :
          /\ recs[i].outcome \in Outcomes
          /\ recs[i].previous = LastReceipt(SubSeq(recs, 1, i - 1), recs[i].agent)
          /\ recs[i].receipt = Append(recs[i].previous,
                [agent |-> recs[i].agent, nonce |-> recs[i].nonce,
                 evidence |-> recs[i].evidence, request |-> recs[i].request,
                 outcome |-> recs[i].outcome])
-----------------------------------------------------------------------------
VerifierInit ==
    /\ records = <<>>
    /\ preview = None
    /\ pending = None
    /\ plans = 0

(* preview(): whatever was pending is revoked first. *)
Preview(request, prior, now) ==
    /\ preview' = IF PreviewReason(records, request, prior, now) = "none"
                  THEN [receipt |-> Receipt(request, LastReceipt(records, request.agent), "preview"),
                        at |-> now]
                  ELSE None
    /\ pending' = None
    /\ UNCHANGED <<records, plans>>

(* prepare_commit(): the pending preview is taken, whatever comes of it. *)
Prepare(request, prior, shown, outcome, now) ==
    /\ preview' = None
    /\ IF PrepareReason(records, preview, shown, request, prior, now) = "none"
       THEN /\ plans < MaxPlans
            /\ plans' = plans + 1
            /\ pending' = [plan |-> plans + 1, record |-> RecordOf(records, request, outcome)]
       ELSE pending' = None /\ UNCHANGED plans
    /\ UNCHANGED records

(* commit(): prepare and apply in one call. *)
Commit(request, prior, shown, outcome, now) ==
    /\ preview' = None
    /\ pending' = None
    /\ IF PrepareReason(records, preview, shown, request, prior, now) = "none"
       THEN /\ Len(records) < MaxRecords
            /\ records' = Append(records, RecordOf(records, request, outcome))
       ELSE UNCHANGED records
    /\ UNCHANGED plans

(* Mutant: an applied plan stays pending. *)
ApplyKeepsPlan(plan) ==
    /\ Len(records) < MaxRecords
    /\ preview' = None
    /\ IF pending # None /\ pending.plan = plan
       THEN records' = Append(records, pending.record) /\ UNCHANGED pending
       ELSE pending' = None /\ UNCHANGED records
    /\ UNCHANGED plans

(* apply_commit(): pending is cleared first; a plan that is not the pending
   one raises. *)
Apply(plan) ==
    /\ Len(records) < MaxRecords
    /\ preview' = None
    /\ pending' = None
    /\ IF pending # None /\ pending.plan = plan
       THEN records' = Append(records, pending.record)
       ELSE UNCHANGED records
    /\ UNCHANGED plans

(* discard_preview(), discard_commit(), and every malformed call of the others. *)
Revoke ==
    /\ preview' = None
    /\ pending' = None
    /\ UNCHANGED <<records, plans>>

(* load_state(): a damaged state raises and changes nothing. *)
Load(recs) ==
    IF Loadable(recs)
    THEN records' = recs /\ preview' = None /\ pending' = None /\ UNCHANGED plans
    ELSE UNCHANGED verifierVars

(* What callers can put together from what they have seen. *)
Priors == {NoReceipt} \cup {records[i].receipt : i \in DOMAIN records}

Shown(request) ==
    {Receipt(request, LastReceipt(records, request.agent), "preview")}
    \cup IF preview = None THEN {} ELSE {preview.receipt}

Loads ==
    {SubSeq(records, 1, n) : n \in 0..Len(records)}
    \cup {SubSeq(records, n, Len(records)) : n \in 2..Len(records)}
    \cup {[records EXCEPT ![i].nonce = r.nonce] : i \in DOMAIN records, r \in Requests}

VerifierNext ==
    \/ \E r \in Requests, prior \in Priors, now \in Times :
          \/ Preview(r, prior, now)
          \/ \E shown \in Shown(r), outcome \in Outcomes :
                Prepare(r, prior, shown, outcome, now) \/ Commit(r, prior, shown, outcome, now)
    \/ \E plan \in 0..plans : Apply(plan)
    \/ Revoke
    \/ \E recs \in Loads : Load(recs)

VerifierSpec == VerifierInit /\ [][VerifierNext]_verifierVars
-----------------------------------------------------------------------------
(* Nothing a caller does, in any order, brings the verifier into a state its
   own load_state would refuse: no nonce twice for an agent, no step-up
   evidence twice for anyone, every agent's receipts one unbroken chain. *)
DumpLoads == Loadable(records)
=============================================================================
