-------------------------- MODULE AgenticRailProofs --------------------------
(***************************************************************************)
(* The verifier by itself, for any requests, evidence, times and callers:   *)
(* what it holds is a state it would load.  And the rail: the log, the      *)
(* stored trust state and the ledger of every engine tell one story, for    *)
(* any number of engines behind one verifier.                               *)
(***************************************************************************)
EXTENDS AgenticRail, Foundations
-----------------------------------------------------------------------------
(* The values that appear in records, for a set of names. *)
Links(Names) ==
    [agent : Names, nonce : Names, evidence : Names, request : Names, outcome : Names]

Chains(Names) == Seq(Links(Names))

Records(Names) ==
    [agent : Names, nonce : Names, evidence : Names, request : Names,
     previous : Chains(Names), outcome : Names, receipt : Chains(Names)]

(* The names that requests and outcomes are made of. *)
Covers(Names) ==
    /\ \A r \in Requests :
          r.agent \in Names /\ r.nonce \in Names /\ r.evidence \in Names /\ r.id \in Names
    /\ Outcomes \subseteq Names
    /\ "preview" \in Names

LEMMA LastReceiptChain ==
    ASSUME NEW Names, NEW recs \in Seq(Records(Names)), NEW agent
    PROVE  LastReceipt(recs, agent) \in Chains(Names)
<1> DEFINE mine == {i \in DOMAIN recs : recs[i].agent = agent}
<1>1. CASE mine = {}
  BY <1>1, EmptySeq DEF LastReceipt, NoReceipt, Chains
<1>2. CASE mine # {}
  <2>1. Len(recs) \in Nat /\ mine \subseteq 1..Len(recs)
    BY LenProperties
  <2>2. \E i \in mine : \A j \in mine : j <= i
    <3> HIDE DEF mine
    <3> QED  BY <1>2, <2>1, LastPosition
  <2> DEFINE last == CHOOSE i \in mine : \A j \in mine : j <= i
  <2>3. last \in mine
    <3> HIDE DEF mine
    <3> QED  BY <2>2
  <2>4. recs[last] \in Records(Names)
    BY <2>3, ElementOfSeq
  <2> QED  BY <1>2, <2>4 DEF LastReceipt, Records
<1> QED  BY <1>1, <1>2
-----------------------------------------------------------------------------
(* Nothing of the request is spent. *)
Fresh(recs, request) ==
    /\ ~NonceUsed(recs, request)
    /\ request.evidence # NoEvidence => ~EvidenceUsed(recs, request)

(* The record of a fresh request has its place at the end. *)
LEMMA RecordTyped ==
    ASSUME NEW Names, Covers(Names), NEW recs \in Seq(Records(Names)),
           NEW request \in Requests, NEW outcome \in Outcomes
    PROVE  RecordOf(recs, request, outcome) \in Records(Names)
<1> DEFINE previous == LastReceipt(recs, request.agent)
           link == [agent |-> request.agent, nonce |-> request.nonce,
                    evidence |-> request.evidence, request |-> request.id, outcome |-> outcome]
<1>1. previous \in Chains(Names)
  BY LastReceiptChain
<1>2. link \in Links(Names)
  BY DEF Links, Covers
<1>3. Append(previous, link) \in Chains(Names)
  <2> HIDE DEF previous, link
  <2> QED  BY <1>1, <1>2, AppendProperties DEF Chains
<1>4. Receipt(request, previous, outcome) = Append(previous, link)
  BY DEF Receipt
<1> QED  BY <1>1, <1>3, <1>4 DEF RecordOf, Records, Covers

LEMMA AppendLoads ==
    ASSUME NEW Names, Covers(Names), NEW recs \in Seq(Records(Names)), Loadable(recs),
           NEW request \in Requests, NEW outcome \in Outcomes, Fresh(recs, request)
    PROVE  /\ Append(recs, RecordOf(recs, request, outcome)) \in Seq(Records(Names))
           /\ Loadable(Append(recs, RecordOf(recs, request, outcome)))
<1> DEFINE record == RecordOf(recs, request, outcome)
           longer == Append(recs, record)
           n == Len(recs)
<1>1. record \in Records(Names)
  BY RecordTyped
<1>2. record.agent = request.agent /\ record.nonce = request.nonce
      /\ record.evidence = request.evidence /\ record.request = request.id
      /\ record.outcome = outcome /\ record.previous = LastReceipt(recs, request.agent)
      /\ record.receipt = Append(record.previous,
            [agent |-> record.agent, nonce |-> record.nonce, evidence |-> record.evidence,
             request |-> record.request, outcome |-> record.outcome])
  BY DEF RecordOf, Receipt
<1> HIDE DEF record
<1>3. /\ n \in Nat /\ DOMAIN recs = 1..n /\ longer \in Seq(Records(Names))
      /\ Len(longer) = n + 1 /\ DOMAIN longer = 1..(n + 1)
      /\ longer[n + 1] = record /\ \A i \in 1..n : longer[i] = recs[i]
  BY <1>1, LenProperties, AppendProperties
<1>4. \A i \in 1..(n + 1) : SubSeq(longer, 1, i - 1) = SubSeq(recs, 1, i - 1)
  <2> SUFFICES ASSUME NEW i \in 1..(n + 1)
               PROVE  SubSeq(longer, 1, i - 1) = SubSeq(recs, 1, i - 1)
    OBVIOUS
  <2> HIDE DEF longer
  <2> QED  BY <1>3, SubSeqProperties, SeqEqual
<1>5. SubSeq(recs, 1, n) = recs
  BY <1>3, SubSeqFull
<1> HIDE DEF longer, n
<1>6. ASSUME NEW i \in DOMAIN longer, NEW j \in DOMAIN longer, i < j
      PROVE  /\ <<longer[i].agent, longer[i].nonce>> # <<longer[j].agent, longer[j].nonce>>
             /\ longer[i].evidence # NoEvidence => longer[i].evidence # longer[j].evidence
  <2>1. CASE j \in 1..n
    BY <1>3, <1>6, <2>1 DEF Loadable
  <2>2. CASE j = n + 1
    <3>1. i \in 1..n
      BY <1>3, <1>6, <2>2
    <3> QED  BY <1>2, <1>3, <2>2, <3>1 DEF Fresh, NonceUsed, EvidenceUsed
  <2> QED  BY <1>3, <2>1, <2>2
<1>7. ASSUME NEW i \in DOMAIN longer
      PROVE  /\ longer[i].outcome \in Outcomes
             /\ longer[i].previous = LastReceipt(SubSeq(longer, 1, i - 1), longer[i].agent)
             /\ longer[i].receipt = Append(longer[i].previous,
                   [agent |-> longer[i].agent, nonce |-> longer[i].nonce,
                    evidence |-> longer[i].evidence, request |-> longer[i].request,
                    outcome |-> longer[i].outcome])
  <2>1. CASE i \in 1..n
    BY <1>3, <1>4, <2>1 DEF Loadable
  <2>2. CASE i = n + 1
    <3>1. SubSeq(longer, 1, i - 1) = recs
      BY <1>3, <1>4, <1>5, <2>2
    <3> QED  BY <1>2, <1>3, <2>2, <3>1
  <2> QED  BY <1>3, <2>1, <2>2
<1>8. Loadable(longer)
  BY <1>6, <1>7 DEF Loadable
<1> QED  BY <1>3, <1>8 DEF longer, record
-----------------------------------------------------------------------------
(* The amounts of a request are whole, so that the ledger records them as they are. *)
LEMMA EntryNormal ==
    ASSUME NEW led, NEW request \in Requests, NEW event
    PROVE  L(led)!Normalized(Entry(request, event)) = Entry(request, event)
<1>1. Amount(request) \in Nat
  BY AmountsTyped
<1>2. L(led)!HalfEven(Amount(request), 1) = Amount(request)
  BY <1>1 DEF L!HalfEven
<1> QED  BY <1>2 DEF L!Normalized, L!NormalizeLegs, L!Quantize, Entry
-----------------------------------------------------------------------------
(***************************************************************************)
(* The verifier by itself.                                                  *)
(***************************************************************************)
(* A pending preview is that of a request of which nothing is spent. *)
Issuable(recs, issued) ==
    issued # None =>
        \E r \in Requests :
            /\ Fresh(recs, r)
            /\ issued.receipt = Receipt(r, LastReceipt(recs, r.agent), "preview")

(* A pending plan still fits what the verifier holds. *)
Appliable(recs, plan) ==
    plan # None =>
        \E r \in Requests, outcome \in Outcomes :
            Fresh(recs, r) /\ plan.record = RecordOf(recs, r, outcome)

VerifierInv(Names) ==
    /\ records \in Seq(Records(Names))
    /\ Loadable(records)
    /\ Issuable(records, preview)
    /\ Appliable(records, pending)

(* What passed the checks of preview is fresh. *)
LEMMA PreviewedFresh ==
    ASSUME NEW recs, NEW request \in Requests, NEW prior, NEW now,
           PreviewReason(recs, request, prior, now) = "none"
    PROVE  Fresh(recs, request) /\ request.defect = "none"
<1>1. request.stepUp = (request.evidence # NoEvidence)
  BY VerifierConstants
<1> QED  BY <1>1 DEF PreviewReason, StepUpReason, Fresh

(* What passed the checks of prepare_commit is fresh: the preview shown is the
   one issued, and it names its request. *)
LEMMA PreparedFresh ==
    ASSUME NEW Names, Covers(Names), NEW recs \in Seq(Records(Names)),
           NEW issued, Issuable(recs, issued), NEW shown, NEW request \in Requests,
           NEW prior, NEW now,
           PrepareReason(recs, issued, shown, request, prior, now) = "none"
    PROVE  Fresh(recs, request)
<1> DEFINE Link(r) == [agent |-> r.agent, nonce |-> r.nonce, evidence |-> r.evidence,
                       request |-> r.id, outcome |-> "preview"]
           Last(r) == LastReceipt(recs, r.agent)
<1>1. /\ issued # None /\ issued.receipt = shown
      /\ shown = Receipt(request, LastReceipt(recs, request.agent), "preview")
      /\ ~NonceUsed(recs, request)
  BY DEF PrepareReason
<1>2. PICK r \in Requests :
         Fresh(recs, r) /\ issued.receipt = Receipt(r, LastReceipt(recs, r.agent), "preview")
  BY <1>1 DEF Issuable
<1>3. \A q \in Requests : Link(q) \in Links(Names) /\ Last(q) \in Chains(Names)
                           /\ Receipt(q, LastReceipt(recs, q.agent), "preview") = Append(Last(q), Link(q))
  BY LastReceiptChain DEF Covers, Links, Receipt
<1>4. Append(Last(r), Link(r)) = Append(Last(request), Link(request))
  BY <1>1, <1>2, <1>3
<1> HIDE DEF Last, Link
<1>5. Link(r) = Link(request)
  <2>1. \A q \in Requests : /\ Len(Append(Last(q), Link(q))) = Len(Last(q)) + 1
                            /\ Append(Last(q), Link(q))[Len(Last(q)) + 1] = Link(q)
    BY <1>3, AppendProperties DEF Chains
  <2>2. \A q \in Requests : Len(Last(q)) \in Nat
    BY <1>3, LenProperties DEF Chains
  <2> QED  BY <1>4, <2>1, <2>2
<1>6. r.evidence = request.evidence
  BY <1>5 DEF Link
<1> QED  BY <1>1, <1>2, <1>6 DEF Fresh, EvidenceUsed

LEMMA EmptyLoads ==
    ASSUME NEW Names
    PROVE  <<>> \in Seq(Records(Names)) /\ Loadable(<<>>)
  BY EmptySeq DEF Loadable

LEMMA VerifierStarts ==
    ASSUME NEW Names, VerifierInit
    PROVE  VerifierInv(Names)
  BY EmptyLoads DEF VerifierInit, VerifierInv, Issuable, Appliable

LEMMA PreviewKeeps ==
    ASSUME NEW Names, VerifierInv(Names), NEW request \in Requests, NEW prior, NEW now,
           Preview(request, prior, now)
    PROVE  VerifierInv(Names)'
<1>1. Issuable(records, preview')
  BY PreviewedFresh DEF Preview, Issuable
<1> QED  BY <1>1 DEF Preview, VerifierInv, Issuable, Appliable

LEMMA PrepareKeeps ==
    ASSUME NEW Names, Covers(Names), VerifierInv(Names), NEW request \in Requests, NEW prior,
           NEW shown, NEW outcome \in Outcomes, NEW now,
           Prepare(request, prior, shown, outcome, now)
    PROVE  VerifierInv(Names)'
<1>1. Appliable(records, pending')
  BY PreparedFresh DEF Prepare, Appliable, VerifierInv
<1> QED  BY <1>1 DEF Prepare, VerifierInv, Issuable, Appliable

LEMMA CommitKeeps ==
    ASSUME NEW Names, Covers(Names), VerifierInv(Names), NEW request \in Requests, NEW prior,
           NEW shown, NEW outcome \in Outcomes, NEW now,
           Commit(request, prior, shown, outcome, now)
    PROVE  VerifierInv(Names)'
<1>1. records' \in Seq(Records(Names)) /\ Loadable(records')
  BY PreparedFresh, AppendLoads DEF Commit, VerifierInv
<1> QED  BY <1>1 DEF Commit, VerifierInv, Issuable, Appliable

LEMMA ApplyKeeps ==
    ASSUME NEW Names, Covers(Names), VerifierInv(Names), NEW plan, Apply(plan)
    PROVE  VerifierInv(Names)'
<1>1. records' \in Seq(Records(Names)) /\ Loadable(records')
  BY AppendLoads DEF Apply, VerifierInv, Appliable
<1> QED  BY <1>1 DEF Apply, VerifierInv, Issuable, Appliable

LEMMA LoadKeeps ==
    ASSUME NEW Names, Covers(Names), VerifierInv(Names), NEW recs \in Loads, Load(recs)
    PROVE  VerifierInv(Names)'
<1>1. recs \in Seq(Records(Names))
  <2>1. records \in Seq(Records(Names)) /\ Len(records) \in Nat
    BY LenProperties DEF VerifierInv
  <2>2. CASE \E n \in 0..Len(records) : recs = SubSeq(records, 1, n)
    BY <2>1, <2>2, SubSeqProperties
  <2>3. CASE \E n \in 2..Len(records) : recs = SubSeq(records, n, Len(records))
    BY <2>1, <2>3, SubSeqProperties
  <2>4. CASE \E i \in DOMAIN records, r \in Requests : recs = [records EXCEPT ![i].nonce = r.nonce]
    <3>1. PICK i \in DOMAIN records, r \in Requests : recs = [records EXCEPT ![i].nonce = r.nonce]
      BY <2>4
    <3>2. [records[i] EXCEPT !.nonce = r.nonce] \in Records(Names)
      <4>1. records[i] \in Records(Names) /\ r.nonce \in Names
        BY <2>1, ElementOfSeq, LenProperties DEF Covers
      <4> QED  BY <4>1 DEF Records
    <3>3. recs = [records EXCEPT ![i] = [records[i] EXCEPT !.nonce = r.nonce]]
      BY <3>1
    <3> QED  BY <2>1, <3>1, <3>2, <3>3, ExceptSeq, LenProperties
  <2> QED  BY <2>2, <2>3, <2>4 DEF Loads
<1> QED  BY <1>1 DEF Load, VerifierInv, Issuable, Appliable, verifierVars

LEMMA VerifierKeeps ==
    ASSUME NEW Names, Covers(Names), VerifierInv(Names), [VerifierNext]_verifierVars
    PROVE  VerifierInv(Names)'
<1>1. CASE UNCHANGED verifierVars
  BY <1>1 DEF verifierVars, VerifierInv, Issuable, Appliable
<1>2. CASE VerifierNext
  BY <1>2, PreviewKeeps, PrepareKeeps, CommitKeeps, ApplyKeeps, LoadKeeps, Zenon
     DEF VerifierNext, Revoke, VerifierInv, Issuable, Appliable
<1> QED  BY <1>1, <1>2

(* Names that cover the requests exist. *)
RequestNames ==
    (UNION {{r.agent, r.nonce, r.evidence, r.id} : r \in Requests}) \cup Outcomes \cup {"preview"}

LEMMA NamesCover == Covers(RequestNames)
  BY DEF Covers, RequestNames

(* For any requests, registered evidence, clock readings and bounds, and
   callers that interleave all calls in any order (verifier.py:541-960): no
   agent's nonce and no step-up evidence is spent twice, and the receipts of an
   agent are one chain, so that load_state would accept what dump_state gives. *)
THEOREM VerifierAlwaysLoads == VerifierSpec => []DumpLoads
<1>1. VerifierInit => VerifierInv(RequestNames)
  BY VerifierStarts
<1>2. VerifierInv(RequestNames) /\ [VerifierNext]_verifierVars => VerifierInv(RequestNames)'
  BY VerifierKeeps, NamesCover
<1>3. VerifierInv(RequestNames) => DumpLoads
  BY DEF VerifierInv, DumpLoads
<1> QED  BY <1>1, <1>2, <1>3, PTL DEF VerifierSpec

Events(Names) ==
    [event : Nat, request : Names, kind : Names \cup {"declined"},
     receipt : Chains(Names), committed : BOOLEAN]

EntrySet == {Entry(r, n) : r \in Requests, n \in Nat}

FinalsOf(lg)      == {i \in DOMAIN lg : lg[i].committed}
ApprovalsOf(lg)   == {i \in DOMAIN lg : lg[i].kind = "approve"}
ApprovedOf(chain) == {i \in DOMAIN chain : chain[i].outcome = "approve"}

(* The three parts of the story, for the log, chain and entries of one engine. *)
Tells(event, record) ==
    event.receipt = record.receipt /\ event.request = record.request /\ event.kind = record.outcome

Pays(event, entry) ==
    \E r \in Requests : r.id = event.request /\ r.defect = "none" /\ entry = Entry(r, event.event)

Chained(lg, chain) ==
    /\ Cardinality(FinalsOf(lg)) = Len(chain)
    /\ \A i \in FinalsOf(lg) : Tells(lg[i], chain[Place(FinalsOf(lg), i)])

Booked(lg, booked) ==
    /\ Cardinality(ApprovalsOf(lg)) = Len(booked)
    /\ \A i \in ApprovalsOf(lg) : Pays(lg[i], booked[Place(ApprovalsOf(lg), i)])

Agreed(lg, chain) ==
    /\ Cardinality(ApprovedOf(chain)) = Cardinality(ApprovalsOf(lg))
    /\ \A i \in ApprovalsOf(lg), j \in ApprovedOf(chain) :
          Place(ApprovalsOf(lg), i) = Place(ApprovedOf(chain), j)
              => chain[j].request = lg[i].request

(* What an element at the end of a sequence does to the positions picked. *)
LEMMA Appended ==
    ASSUME NEW S, NEW seq \in Seq(S), NEW x \in S
    PROVE  /\ Len(seq) \in Nat /\ DOMAIN seq = 1..Len(seq)
           /\ Append(seq, x) \in Seq(S)
           /\ Len(Append(seq, x)) = Len(seq) + 1
           /\ DOMAIN Append(seq, x) = 1..(Len(seq) + 1)
           /\ Append(seq, x)[Len(seq) + 1] = x
           /\ \A i \in 1..Len(seq) : Append(seq, x)[i] = seq[i]
  BY LenProperties, AppendProperties

LEMMA FinalsAppended ==
    ASSUME NEW S, NEW seq \in Seq(S), NEW x \in S
    PROVE  /\ x.committed => FinalsOf(Append(seq, x)) = FinalsOf(seq) \cup {Len(seq) + 1}
           /\ ~x.committed => FinalsOf(Append(seq, x)) = FinalsOf(seq)
           /\ FinalsOf(seq) \subseteq 1..Len(seq)
<1> DEFINE longer == Append(seq, x)
           n == Len(seq)
<1>1. /\ n \in Nat /\ DOMAIN seq = 1..n /\ DOMAIN longer = 1..(n + 1)
      /\ longer[n + 1] = x /\ \A i \in 1..n : longer[i] = seq[i]
  BY Appended
<1> HIDE DEF longer, n
<1> QED  BY <1>1 DEF FinalsOf, longer, n

LEMMA ApprovalsAppended ==
    ASSUME NEW S, NEW seq \in Seq(S), NEW x \in S
    PROVE  /\ x.kind = "approve" =>
                 ApprovalsOf(Append(seq, x)) = ApprovalsOf(seq) \cup {Len(seq) + 1}
           /\ x.kind # "approve" => ApprovalsOf(Append(seq, x)) = ApprovalsOf(seq)
           /\ ApprovalsOf(seq) \subseteq 1..Len(seq)
<1> DEFINE longer == Append(seq, x)
           n == Len(seq)
<1>1. /\ n \in Nat /\ DOMAIN seq = 1..n /\ DOMAIN longer = 1..(n + 1)
      /\ longer[n + 1] = x /\ \A i \in 1..n : longer[i] = seq[i]
  BY Appended
<1> HIDE DEF longer, n
<1> QED  BY <1>1 DEF ApprovalsOf, longer, n

LEMMA ApprovedAppended ==
    ASSUME NEW S, NEW seq \in Seq(S), NEW x \in S
    PROVE  /\ x.outcome = "approve" =>
                 ApprovedOf(Append(seq, x)) = ApprovedOf(seq) \cup {Len(seq) + 1}
           /\ x.outcome # "approve" => ApprovedOf(Append(seq, x)) = ApprovedOf(seq)
           /\ ApprovedOf(seq) \subseteq 1..Len(seq)
<1> DEFINE longer == Append(seq, x)
           n == Len(seq)
<1>1. /\ n \in Nat /\ DOMAIN seq = 1..n /\ DOMAIN longer = 1..(n + 1)
      /\ longer[n + 1] = x /\ \A i \in 1..n : longer[i] = seq[i]
  BY Appended
<1> HIDE DEF longer, n
<1> QED  BY <1>1 DEF ApprovedOf, longer, n

(* A declined event changes nothing of the story. *)
LEMMA DeclinedTells ==
    ASSUME NEW Names, NEW lg \in Seq(Events(Names)), NEW chain, NEW booked,
           NEW event \in Events(Names), ~event.committed, event.kind # "approve"
    PROVE  /\ Append(lg, event) \in Seq(Events(Names))
           /\ Chained(lg, chain) => Chained(Append(lg, event), chain)
           /\ Booked(lg, booked) => Booked(Append(lg, event), booked)
           /\ Agreed(lg, chain) => Agreed(Append(lg, event), chain)
<1> DEFINE longer == Append(lg, event)
<1>1. /\ longer \in Seq(Events(Names)) /\ FinalsOf(longer) = FinalsOf(lg)
      /\ ApprovalsOf(longer) = ApprovalsOf(lg)
      /\ \A i \in FinalsOf(lg) \cup ApprovalsOf(lg) : longer[i] = lg[i]
  BY Appended, FinalsAppended, ApprovalsAppended
<1> HIDE DEF longer
<1> QED  BY <1>1, Zenon DEF longer, Chained, Booked, Agreed

(* A final outcome is logged with its record. *)
LEMMA FinalTells ==
    ASSUME NEW Names, NEW lg \in Seq(Events(Names)), NEW chain \in Seq(Records(Names)),
           NEW event \in Events(Names), NEW record \in Records(Names),
           event.committed, Tells(event, record), Chained(lg, chain)
    PROVE  Chained(Append(lg, event), Append(chain, record))
<1> DEFINE log2 == Append(lg, event)
           chain2 == Append(chain, record)
           F == FinalsOf(lg)
           n == Len(lg)
<1>1. /\ n \in Nat /\ log2[n + 1] = event /\ \A i \in F : log2[i] = lg[i]
      /\ FinalsOf(log2) = F \cup {n + 1} /\ F \subseteq 1..n
  BY Appended, FinalsAppended
<1>2. /\ Len(chain2) = Len(chain) + 1 /\ chain2[Len(chain) + 1] = record
      /\ \A i \in 1..Len(chain) : chain2[i] = chain[i]
  BY Appended
<1>3. /\ Cardinality(F \cup {n + 1}) = Cardinality(F) + 1
      /\ Place(F \cup {n + 1}, n + 1) = Cardinality(F) + 1
      /\ \A i \in F : Place(F \cup {n + 1}, i) = Place(F, i) /\ Place(F, i) \in 1..Cardinality(F)
  BY <1>1, NextPlace, Zenon
<1>4. Cardinality(F) = Len(chain) /\ \A i \in F : Tells(lg[i], chain[Place(F, i)])
  BY DEF Chained
<1> HIDE DEF log2, chain2, F, n
<1>5. Cardinality(FinalsOf(log2)) = Len(chain2)
  BY <1>1, <1>2, <1>3, <1>4, Zenon
<1>6. \A i \in FinalsOf(log2) : Tells(log2[i], chain2[Place(FinalsOf(log2), i)])
  <2>1. \A i \in F : Tells(log2[i], chain2[Place(FinalsOf(log2), i)])
    BY <1>1, <1>2, <1>3, <1>4, Zenon
  <2>2. Tells(log2[n + 1], chain2[Place(FinalsOf(log2), n + 1)])
    BY <1>1, <1>2, <1>3, <1>4, Zenon
  <2> QED  BY <1>1, <2>1, <2>2, Zenon
<1> QED  BY <1>5, <1>6 DEF Chained, log2, chain2

(* An outcome that is no approval moves nothing. *)
LEMMA NoApprovalTells ==
    ASSUME NEW Names, NEW lg \in Seq(Events(Names)), NEW chain \in Seq(Records(Names)), NEW booked,
           NEW event \in Events(Names), NEW record \in Records(Names),
           event.kind # "approve", record.outcome # "approve"
    PROVE  /\ Booked(lg, booked) => Booked(Append(lg, event), booked)
           /\ Agreed(lg, chain) => Agreed(Append(lg, event), Append(chain, record))
<1> DEFINE log2 == Append(lg, event)
           chain2 == Append(chain, record)
<1>1. /\ ApprovalsOf(log2) = ApprovalsOf(lg)
      /\ \A i \in ApprovalsOf(lg) : log2[i] = lg[i]
  BY Appended, ApprovalsAppended
<1>2. /\ ApprovedOf(chain2) = ApprovedOf(chain)
      /\ \A i \in ApprovedOf(chain) : chain2[i] = chain[i]
  BY Appended, ApprovedAppended
<1> HIDE DEF log2, chain2
<1> QED  BY <1>1, <1>2, Zenon DEF log2, chain2, Booked, Agreed

(* An approval is logged with its entry and its record. *)
LEMMA ApprovalBooked ==
    ASSUME NEW Names, NEW lg \in Seq(Events(Names)), NEW booked \in Seq(EntrySet),
           NEW event \in Events(Names), NEW entry \in EntrySet,
           event.kind = "approve", Pays(event, entry), Booked(lg, booked)
    PROVE  Booked(Append(lg, event), Append(booked, entry))
<1> DEFINE log2 == Append(lg, event)
           booked2 == Append(booked, entry)
           A == ApprovalsOf(lg)
           n == Len(lg)
<1>1. /\ n \in Nat /\ log2[n + 1] = event /\ \A i \in A : log2[i] = lg[i]
      /\ ApprovalsOf(log2) = A \cup {n + 1} /\ A \subseteq 1..n
  BY Appended, ApprovalsAppended
<1>2. /\ Len(booked2) = Len(booked) + 1 /\ booked2[Len(booked) + 1] = entry
      /\ \A i \in 1..Len(booked) : booked2[i] = booked[i]
  BY Appended
<1>3. /\ Cardinality(A \cup {n + 1}) = Cardinality(A) + 1
      /\ Place(A \cup {n + 1}, n + 1) = Cardinality(A) + 1
      /\ \A i \in A : Place(A \cup {n + 1}, i) = Place(A, i) /\ Place(A, i) \in 1..Cardinality(A)
  BY <1>1, NextPlace, Zenon
<1>4. Cardinality(A) = Len(booked) /\ \A i \in A : Pays(lg[i], booked[Place(A, i)])
  BY DEF Booked
<1> HIDE DEF log2, booked2, A, n
<1>5. Cardinality(ApprovalsOf(log2)) = Len(booked2)
  BY <1>1, <1>2, <1>3, <1>4, Zenon
<1>6. \A i \in ApprovalsOf(log2) : Pays(log2[i], booked2[Place(ApprovalsOf(log2), i)])
  <2>1. \A i \in A : Pays(log2[i], booked2[Place(ApprovalsOf(log2), i)])
    BY <1>1, <1>2, <1>3, <1>4, Zenon
  <2>2. Pays(log2[n + 1], booked2[Place(ApprovalsOf(log2), n + 1)])
    BY <1>1, <1>2, <1>3, <1>4, Zenon
  <2> QED  BY <1>1, <2>1, <2>2, Zenon
<1> QED  BY <1>5, <1>6 DEF Booked, log2, booked2

LEMMA ApprovalAgreed ==
    ASSUME NEW Names, NEW lg \in Seq(Events(Names)), NEW chain \in Seq(Records(Names)),
           NEW event \in Events(Names), NEW record \in Records(Names),
           event.kind = "approve", Tells(event, record), Agreed(lg, chain)
    PROVE  Agreed(Append(lg, event), Append(chain, record))
<1> DEFINE log2 == Append(lg, event)
           chain2 == Append(chain, record)
           A == ApprovalsOf(lg)
           B == ApprovedOf(chain)
           n == Len(lg)
           m == Len(chain)
<1>1. /\ n \in Nat /\ log2[n + 1] = event /\ \A i \in A : log2[i] = lg[i]
      /\ ApprovalsOf(log2) = A \cup {n + 1} /\ A \subseteq 1..n
  BY Appended, ApprovalsAppended
<1>2. record.outcome = "approve" /\ record.request = event.request
  BY DEF Tells
<1>3. /\ m \in Nat /\ chain2[m + 1] = record /\ \A i \in B : chain2[i] = chain[i]
      /\ ApprovedOf(chain2) = B \cup {m + 1} /\ B \subseteq 1..m
  BY <1>2, Appended, ApprovedAppended
<1>4. /\ Cardinality(A) \in Nat /\ Cardinality(A \cup {n + 1}) = Cardinality(A) + 1
      /\ Place(A \cup {n + 1}, n + 1) = Cardinality(A) + 1
      /\ \A i \in A : Place(A \cup {n + 1}, i) = Place(A, i) /\ Place(A, i) \in 1..Cardinality(A)
  BY <1>1, NextPlace, Zenon
<1>5. /\ Cardinality(B \cup {m + 1}) = Cardinality(B) + 1
      /\ Place(B \cup {m + 1}, m + 1) = Cardinality(B) + 1
      /\ \A i \in B : Place(B \cup {m + 1}, i) = Place(B, i) /\ Place(B, i) \in 1..Cardinality(B)
  BY <1>3, NextPlace, Zenon
<1>6. /\ Cardinality(B) = Cardinality(A)
      /\ \A i \in A, j \in B : Place(A, i) = Place(B, j) => chain[j].request = lg[i].request
  BY DEF Agreed
<1> HIDE DEF log2, chain2, A, B, n, m
<1>7. ASSUME NEW i \in A \cup {n + 1}, NEW j \in B \cup {m + 1},
             Place(A \cup {n + 1}, i) = Place(B \cup {m + 1}, j)
      PROVE  chain2[j].request = log2[i].request
  <2>1. CASE i \in A /\ j \in B
    BY <1>1, <1>3, <1>4, <1>5, <1>6, <1>7, <2>1
  <2>2. CASE i = n + 1 /\ j = m + 1
    BY <1>1, <1>2, <1>3, <2>2
  <2>3. CASE i \in A /\ j = m + 1
    <3>1. Place(B \cup {m + 1}, j) = Cardinality(A) + 1
      BY <1>5, <1>6, <2>3
    <3>2. Place(A \cup {n + 1}, i) \in 1..Cardinality(A)
      BY <1>4, <2>3
    <3> QED  BY <1>4, <1>7, <3>1, <3>2
  <2>4. CASE i = n + 1 /\ j \in B
    <3>1. Place(A \cup {n + 1}, i) = Cardinality(A) + 1
      BY <1>4, <2>4
    <3>2. Place(B \cup {m + 1}, j) \in 1..Cardinality(A)
      BY <1>5, <1>6, <2>4
    <3> QED  BY <1>4, <1>7, <3>1, <3>2
  <2> QED  BY <2>1, <2>2, <2>3, <2>4
<1>8. Cardinality(ApprovedOf(chain2)) = Cardinality(ApprovalsOf(log2))
  BY <1>1, <1>3, <1>4, <1>5, <1>6
<1> QED  BY <1>1, <1>3, <1>7, <1>8, Zenon DEF Agreed, log2, chain2

-----------------------------------------------------------------------------
(***************************************************************************)
(* The rail.                                                                *)
(***************************************************************************)
(* The fields of a ledger; only its entries matter here. *)
IsLedger(led) ==
    /\ led = [opening |-> led.opening, balances |-> led.balances,
              entries |-> led.entries, entryIds |-> led.entryIds]
    /\ led.entries \in Seq(EntrySet)

Story(lg, chain, booked, whole) ==
    /\ Booked(lg, booked)
    /\ whole => Chained(lg, chain) /\ Agreed(lg, chain)

RailTyped(Names) ==
    /\ setUp \in SetUps
    /\ trust \in [Engines -> Seq(Records(Names))]
    /\ log \in [Engines -> Seq(Events(Names))]
    /\ uuids \in [Engines -> Nat]
    /\ ledger = [e \in Engines |-> ledger[e]]
    /\ \A e \in Engines : IsLedger(ledger[e])

Stories == \A e \in Engines : Story(log[e], trust[e], ledger[e].entries, e \notin damaged)

RailInv(Names) == RailTyped(Names) /\ VerifierInv(Names) /\ Stories

(* A stored state that its owner replaces still consists of records: what is
   not made of records' fields is refused by load_state as it is. *)
DamagesAreRecords(Names) ==
    \A recs \in Seq(Records(Names)) : Damages(recs) \subseteq Seq(Records(Names))

LEMMA StoriesTold == Stories => LogMatchesChain /\ ApprovalsMatchEntries
  BY DEF Stories, Story, Chained, Booked, Agreed, Tells, Pays, FinalsOf, ApprovalsOf, ApprovedOf,
         LogMatchesChain, ApprovalsMatchEntries, EntriesAreApprovals, RecordsAreApprovals,
         Finals, Approvals, Approved

LEMMA EmptyStory == Story(<<>>, <<>>, <<>>, TRUE)
<1>1. FinalsOf(<<>>) = {} /\ ApprovalsOf(<<>>) = {} /\ ApprovedOf(<<>>) = {}
  BY DEF FinalsOf, ApprovalsOf, ApprovedOf
<1>2. Cardinality({}) = 0 /\ Len(<<>>) = 0
  BY FS_EmptySet
<1> QED  BY <1>1, <1>2 DEF Story, Chained, Booked, Agreed

LEMMA RailStarts ==
    ASSUME NEW Names, AgenticInit
    PROVE  RailInv(Names)
<1>1. RailTyped(Names)
  BY EmptySeq DEF AgenticInit, RailTyped, IsLedger
<1>2. VerifierInv(Names)
  BY VerifierStarts DEF AgenticInit
<1>3. Stories
  BY EmptyStory DEF AgenticInit, Stories
<1> QED  BY <1>1, <1>2, <1>3 DEF RailInv

(* The ledger takes an entry as it is. *)
LEMMA EnteredEntry ==
    ASSUME NEW led, IsLedger(led), NEW request \in Requests, NEW event \in Nat
    PROVE  /\ IsLedger(Entered(led, Entry(request, event)))
           /\ Entered(led, Entry(request, event)).entries = Append(led.entries, Entry(request, event))
           /\ Entry(request, event) \in EntrySet
<1> DEFINE entry == Entry(request, event)
           after == Entered(led, entry)
<1>1. entry \in EntrySet
  BY DEF EntrySet
<1>2. L(led)!Normalized(entry) = entry
  BY EntryNormal
<1>3. after = [opening |-> led.opening, balances |-> L(led)!Posted(L(led)!Normalized(entry)),
               entries |-> Append(led.entries, entry), entryIds |-> led.entryIds \cup {entry.id}]
  <2> DEFINE posted == L(led)!Posted(L(led)!Normalized(entry))
  <2>1. after = [led EXCEPT !.balances = posted, !.entries = Append(@, entry),
                            !.entryIds = @ \cup {entry.id}]
    BY <1>2 DEF Entered
  <2> HIDE DEF posted, entry, after
  <2>2. led = [opening |-> led.opening, balances |-> led.balances,
               entries |-> led.entries, entryIds |-> led.entryIds]
    BY DEF IsLedger
  <2>3. after = [opening |-> led.opening, balances |-> posted,
                 entries |-> Append(led.entries, entry), entryIds |-> led.entryIds \cup {entry.id}]
    BY <2>1, <2>2
  <2> QED  BY <2>3 DEF posted
<1>4. Append(led.entries, entry) \in Seq(EntrySet)
  BY <1>1, Appended DEF IsLedger
<1> HIDE DEF entry, after
<1>5. IsLedger(after) /\ after.entries = Append(led.entries, entry)
  BY <1>3, <1>4 DEF IsLedger
<1> QED  BY <1>1, <1>5 DEF after, entry

LEMMA IdleKeeps ==
    ASSUME NEW Names, RailTyped(Names), NEW e \in Engines, Loadable(Stored(e)), Idle(e)
    PROVE  VerifierInv(Names)'
<1>1. trust[e] \in Seq(Records(Names)) /\ Loadable(trust[e])
  BY DEF RailTyped, Stored
<1> QED  BY <1>1 DEF Idle, Stored, VerifierInv, Issuable, Appliable

LEMMA MintTyped ==
    ASSUME uuids \in [Engines -> Nat], NEW e \in Engines, Mint(e)
    PROVE  uuids' \in [Engines -> Nat]
<1>1. uuids[e] + 1 \in Nat
  OBVIOUS
<1> QED  BY <1>1 DEF Mint

(* A declined command, refused by the preview or by prepare_commit. *)
LEMMA DeclinedKeeps ==
    ASSUME NEW Names, Covers(Names), RailInv(Names), NEW e \in Engines, NEW request \in Requests,
           Loadable(Stored(e)), Mint(e), Idle(e), setUp' = setUp,
           log' = [log EXCEPT ![e] = Append(@, Event(e, request, "declined", NoReceipt, FALSE))],
           UNCHANGED <<trust, ledger, damaged>>
    PROVE  RailInv(Names)'
<1> DEFINE event == Event(e, request, "declined", NoReceipt, FALSE)
<1>1. event \in Events(Names)
  <2>1. uuids[e] \in Nat /\ request.id \in Names /\ NoReceipt \in Chains(Names)
    BY EmptySeq DEF RailInv, RailTyped, Covers, NoReceipt, Chains
  <2> QED  BY <2>1 DEF Events, Event
<1>2. ~event.committed /\ event.kind # "approve"
  BY DEF Event
<1>3. log' = [log EXCEPT ![e] = Append(@, event)]
  OBVIOUS
<1> HIDE DEF event
<1>4. log[e] \in Seq(Events(Names))
  BY DEF RailInv, RailTyped
<1>5. Append(log[e], event) \in Seq(Events(Names))
  BY <1>1, <1>4, Appended
<1>6. RailTyped(Names)'
  <2>1. uuids' \in [Engines -> Nat]
    BY MintTyped DEF RailInv, RailTyped
  <2>2. log' \in [Engines -> Seq(Events(Names))]
    BY <1>3, <1>5 DEF RailInv, RailTyped
  <2> QED  BY <2>1, <2>2 DEF RailInv, RailTyped
<1>7. VerifierInv(Names)'
  BY IdleKeeps DEF RailInv
<1>8. Stories'
  <2> SUFFICES ASSUME NEW f \in Engines
               PROVE  Story(log[f], trust[f], ledger[f].entries, f \notin damaged)'
    BY DEF Stories
  <2>1. Story(log[f], trust[f], ledger[f].entries, f \notin damaged)
    BY DEF RailInv, Stories
  <2>2. CASE f = e
    <3>1. log'[f] = Append(log[f], event)
      BY <1>3, <2>2 DEF RailInv, RailTyped
    <3> QED  BY <1>1, <1>2, <1>4, <2>1, <2>2, <3>1, DeclinedTells DEF Story
  <2>3. CASE f # e
    <3>1. log'[f] = log[f]
      BY <1>3, <2>3 DEF RailInv, RailTyped
    <3> QED  BY <2>1, <3>1
  <2> QED  BY <2>2, <2>3
<1> QED  BY <1>6, <1>7, <1>8 DEF RailInv

(* Whatever leaves the engines' state alone keeps the stories. *)
LEMMA QuietKeeps ==
    ASSUME NEW Names, RailInv(Names), VerifierInv(Names)', uuids' \in [Engines -> Nat],
           UNCHANGED <<setUp, trust, ledger, log, damaged>>
    PROVE  RailInv(Names)'
  BY DEF RailInv, RailTyped, Stories

(* A final outcome: event, record and, if approved, entry. *)
LEMMA CommittedKeeps ==
    ASSUME NEW Names, Covers(Names), RailInv(Names), NEW e \in Engines, NEW request \in Requests,
           NEW prior, NEW action \in Actions, HandleCommitted(e, request, prior, action),
           setUp' = setUp
    PROVE  RailInv(Names)'
<1> DEFINE record == RecordOf(Stored(e), request, action)
           entry == Entry(request, uuids[e])
           event == Event(e, request, action, record.receipt, TRUE)
<1>1. /\ trust[e] \in Seq(Records(Names)) /\ log[e] \in Seq(Events(Names))
      /\ uuids[e] \in Nat /\ IsLedger(ledger[e]) /\ action \in Outcomes /\ action \in Names
      /\ ledger[e].entries \in Seq(EntrySet)
  BY ActionsAreOutcomes DEF RailInv, RailTyped, Covers, IsLedger
<1>2. Loadable(trust[e]) /\ Fresh(trust[e], request) /\ request.defect = "none"
  BY PreviewedFresh DEF HandleCommitted, Prepared, Previewed, Stored
<1>3. /\ record \in Records(Names)
      /\ Append(trust[e], record) \in Seq(Records(Names))
      /\ Loadable(Append(trust[e], record))
  BY <1>1, <1>2, AppendLoads, RecordTyped DEF Stored
<1>4. record.receipt \in Chains(Names) /\ record.request = request.id /\ record.outcome = action
  BY <1>3 DEF Records, RecordOf
<1>5. event \in Events(Names)
  BY <1>1, <1>4 DEF Events, Event, Covers
<1>6. event.committed /\ event.kind = action /\ Tells(event, record)
  BY <1>4 DEF Event, Tells
<1>7. Pays(event, entry) /\ entry \in EntrySet
  <2>1. event.request = request.id /\ event.event = uuids[e]
    BY DEF Event
  <2>2. entry = Entry(request, event.event)
    BY <2>1
  <2>3. entry \in EntrySet
    BY <1>1 DEF EntrySet
  <2> HIDE DEF event, entry
  <2>4. Pays(event, entry)
    BY <1>2, <2>1, <2>2 DEF Pays
  <2> QED  BY <2>3, <2>4
<1>8. /\ log' = [log EXCEPT ![e] = Append(@, event)]
      /\ trust' = [trust EXCEPT ![e] = Append(trust[e], record)]
      /\ records' = Append(trust[e], record) /\ preview' = None /\ pending' = None
      /\ uuids' = [uuids EXCEPT ![e] = @ + 1] /\ damaged' = damaged
      /\ action = "approve" => ledger' = [ledger EXCEPT ![e] = Entered(@, entry)]
      /\ action # "approve" => ledger' = ledger
  BY DEF HandleCommitted, Mint, Stored
<1>9. IsLedger(Entered(ledger[e], entry))
      /\ Entered(ledger[e], entry).entries = Append(ledger[e].entries, entry)
  BY <1>1, EnteredEntry
<1> HIDE DEF record, entry, event
<1>10. /\ log'[e] = Append(log[e], event) /\ trust'[e] = Append(trust[e], record)
       /\ \A f \in Engines : f # e => log'[f] = log[f] /\ trust'[f] = trust[f]
  BY <1>8 DEF RailInv, RailTyped
<1>11. /\ ledger' = [f \in Engines |-> ledger'[f]]
       /\ ledger'[e] = IF action = "approve" THEN Entered(ledger[e], entry) ELSE ledger[e]
       /\ \A f \in Engines : f # e => ledger'[f] = ledger[f]
  <2>1. ledger = [f \in Engines |-> ledger[f]]
    BY DEF RailInv, RailTyped
  <2>2. CASE action = "approve"
    BY <1>8, <2>1, <2>2
  <2>3. CASE action # "approve"
    BY <1>8, <2>1, <2>3
  <2> QED  BY <2>2, <2>3
<1>12. RailTyped(Names)'
  <2>1. log' \in [Engines -> Seq(Events(Names))]
    BY <1>1, <1>5, <1>8, Appended DEF RailInv, RailTyped
  <2>2. trust' \in [Engines -> Seq(Records(Names))]
    BY <1>3, <1>8 DEF RailInv, RailTyped
  <2>3. uuids' \in [Engines -> Nat]
    BY <1>8 DEF RailInv, RailTyped
  <2>4. \A f \in Engines : IsLedger(ledger'[f])
    BY <1>1, <1>9, <1>11 DEF RailInv, RailTyped
  <2> QED  BY <1>11, <2>1, <2>2, <2>3, <2>4 DEF RailInv, RailTyped
<1>13. VerifierInv(Names)'
  BY <1>3, <1>8 DEF VerifierInv, Issuable, Appliable
<1>14. Story(log[e], trust[e], ledger[e].entries, e \notin damaged)'
  <2>1. Story(log[e], trust[e], ledger[e].entries, e \notin damaged)
    BY DEF RailInv, Stories
  <2>2. e \notin damaged => Chained(Append(log[e], event), Append(trust[e], record))
    BY <1>1, <1>3, <1>5, <1>6, <2>1, FinalTells DEF Story
  <2>3. CASE action = "approve"
    <3>1. Booked(Append(log[e], event), Append(ledger[e].entries, entry))
      BY <1>1, <1>5, <1>6, <1>7, <2>1, <2>3, ApprovalBooked DEF Story
    <3>2. e \notin damaged => Agreed(Append(log[e], event), Append(trust[e], record))
      BY <1>1, <1>3, <1>5, <1>6, <2>1, <2>3, ApprovalAgreed DEF Story
    <3> QED  BY <1>8, <1>9, <1>10, <1>11, <2>2, <2>3, <3>1, <3>2 DEF Story
  <2>4. CASE action # "approve"
    <3>1. /\ Booked(Append(log[e], event), ledger[e].entries)
          /\ e \notin damaged => Agreed(Append(log[e], event), Append(trust[e], record))
      BY <1>1, <1>3, <1>4, <1>5, <1>6, <2>1, <2>4, NoApprovalTells DEF Story
    <3> QED  BY <1>8, <1>10, <1>11, <2>2, <2>4, <3>1 DEF Story
  <2> QED  BY <2>3, <2>4
<1>15. Stories'
  <2> SUFFICES ASSUME NEW f \in Engines
               PROVE  Story(log[f], trust[f], ledger[f].entries, f \notin damaged)'
    BY DEF Stories
  <2>1. CASE f = e
    BY <1>14, <2>1
  <2>2. CASE f # e
    BY <1>8, <1>10, <1>11, <2>2 DEF RailInv, Stories
  <2> QED  BY <2>1, <2>2
<1> QED  BY <1>12, <1>13, <1>15 DEF RailInv

(* The owner of an engine replaces its stored state: its chain is no longer
   told, its entries still are. *)
LEMMA DamageKeeps ==
    ASSUME NEW Names, DamagesAreRecords(Names), RailInv(Names), NEW e \in Engines, Damage(e),
           setUp' = setUp
    PROVE  RailInv(Names)'
<1>1. PICK recs \in Damages(trust[e]) : trust' = [trust EXCEPT ![e] = recs]
  BY DEF Damage
<1>2. recs \in Seq(Records(Names))
  BY DEF DamagesAreRecords, RailInv, RailTyped
<1>3. RailTyped(Names)'
  BY <1>1, <1>2 DEF RailInv, RailTyped, Damage
<1>4. VerifierInv(Names)'
  BY DEF RailInv, Damage, verifierVars, VerifierInv, Issuable, Appliable
<1>5. Stories'
  <2> SUFFICES ASSUME NEW f \in Engines
               PROVE  Story(log[f], trust[f], ledger[f].entries, f \notin damaged)'
    BY DEF Stories
  <2>1. /\ Story(log[f], trust[f], ledger[f].entries, f \notin damaged)
        /\ log' = log /\ ledger' = ledger /\ damaged = {} /\ damaged' = {e}
    BY DEF RailInv, Stories, Damage
  <2>2. f # e => trust'[f] = trust[f]
    BY <1>1 DEF RailInv, RailTyped
  <2> QED  BY <2>1, <2>2 DEF Story
<1> QED  BY <1>3, <1>4, <1>5 DEF RailInv

LEMMA OutsideKeeps ==
    ASSUME NEW Names, Covers(Names), RailInv(Names), Outside, setUp' = setUp
    PROVE  RailInv(Names)'
<1>1. setUp.requests \subseteq Requests
  BY SetUpsTyped DEF RailInv, RailTyped
<1>2. VerifierInv(Names)'
  BY <1>1, PreviewKeeps, CommitKeeps DEF Outside, RailInv
<1>3. UNCHANGED <<setUp, trust, ledger, log, damaged, uuids>>
  BY DEF Outside, engineVars
<1> QED  BY <1>2, <1>3, QuietKeeps DEF RailInv, RailTyped

LEMMA RailKeeps ==
    ASSUME NEW Names, Covers(Names), DamagesAreRecords(Names), RailInv(Names),
           [AgenticNext]_agenticVars
    PROVE  RailInv(Names)'
<1>1. CASE UNCHANGED agenticVars
  BY <1>1 DEF agenticVars, engineVars, verifierVars, RailInv, RailTyped, VerifierInv,
              Issuable, Appliable, Stories
<1>2. CASE Outside /\ UNCHANGED setUp
  BY <1>2, OutsideKeeps
<1>3. ASSUME NEW e \in setUp.engines, UNCHANGED setUp,
             \/ HandleUnreadable(e) \/ Damage(e) \/ Tick(e)
             \/ \E r \in setUp.requests, prior \in SignedPriors(e) : HandleCommand(e, r, prior)
      PROVE  RailInv(Names)'
  <2>1. e \in Engines /\ setUp.requests \subseteq Requests
    BY SetUpsTyped DEF RailInv, RailTyped
  <2>2. RailTyped(Names) /\ uuids \in [Engines -> Nat]
    BY DEF RailInv, RailTyped
  <2>3. CASE HandleUnreadable(e) \/ Tick(e)
    <3>1. VerifierInv(Names)'
      BY <2>3 DEF HandleUnreadable, Tick, verifierVars, RailInv, VerifierInv, Issuable, Appliable
    <3> QED  BY <1>3, <2>2, <2>3, <3>1, QuietKeeps DEF HandleUnreadable, Tick
  <2>4. CASE Damage(e)
    BY <1>3, <2>1, <2>4, DamageKeeps
  <2>5. ASSUME NEW r \in setUp.requests, NEW prior, HandleCommand(e, r, prior)
        PROVE  RailInv(Names)'
    <3>1. r \in Requests
      BY <2>1
    <3>2. CASE HandleRejected(e, r, prior)
      BY <1>3, <2>1, <3>1, <3>2, DeclinedKeeps DEF HandleRejected
    <3>3. CASE HandleNotPrepared(e, r, prior)
      BY <1>3, <2>1, <3>1, <3>3, DeclinedKeeps DEF HandleNotPrepared
    <3>4. CASE HandleScorerRaises(e, r, prior)
      <4>1. VerifierInv(Names)'
        BY <2>1, <2>2, <3>4, IdleKeeps DEF HandleScorerRaises
      <4> QED  BY <1>3, <2>2, <3>4, <4>1, QuietKeeps DEF HandleScorerRaises
    <3>5. CASE HandleUnfunded(e, r, prior)
      <4>1. VerifierInv(Names)'
        BY <2>1, <2>2, <3>5, IdleKeeps DEF HandleUnfunded, Prepared
      <4>2. uuids' \in [Engines -> Nat]
        BY <2>1, <2>2, <3>5, MintTyped DEF HandleUnfunded
      <4> QED  BY <1>3, <3>5, <4>1, <4>2, QuietKeeps DEF HandleUnfunded
    <3>6. CASE \E action \in Actions : HandleCommitted(e, r, prior, action)
      BY <1>3, <2>1, <3>1, <3>6, CommittedKeeps
    <3> QED  BY <2>5, <3>2, <3>3, <3>4, <3>5, <3>6 DEF HandleCommand
  <2> QED  BY <1>3, <2>3, <2>4, <2>5
<1> QED  BY <1>1, <1>2, <1>3 DEF AgenticNext

(* For any number of engines behind one verifier, any requests, accounts,
   scorers and owners that use the verifier or replace a stored state
   (agentic.py:318-408): in every engine the final outcomes of the log are the
   records of the stored state, the entries of the ledger are the logged
   approvals, and what the verifier holds is a state it would load. *)
THEOREM TrustStoryHolds ==
    ASSUME NEW Names, Covers(Names), DamagesAreRecords(Names)
    PROVE  AgenticSpec => []TrustStory
<1>1. AgenticInit => RailInv(Names)
  BY RailStarts
<1>2. RailInv(Names) /\ [AgenticNext]_agenticVars => RailInv(Names)'
  BY RailKeeps
<1>3. RailInv(Names) => TrustStory
  BY StoriesTold DEF RailInv, VerifierInv, TrustStory, DumpLoads
<1> QED  BY <1>1, <1>2, <1>3, PTL DEF AgenticSpec
=============================================================================
