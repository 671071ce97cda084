------------------------------- MODULE Ledger -------------------------------
(***************************************************************************)
(* The append-only, currency-aware double-entry ledger of                   *)
(* src/apar/simulator/ledger.py.                                            *)
(*                                                                          *)
(* An amount a caller hands in is a whole number of raw units; a currency   *)
(* keeps Grain[c] raw units per minor unit, so an amount that is not a      *)
(* multiple of the grain is one the code has to quantize.  Balances and     *)
(* recorded legs are in minor units.  Non-Decimal and non-finite amounts    *)
(* are refused on the same path as negative ones and are represented by     *)
(* them.                                                                    *)
(***************************************************************************)
EXTENDS Integers, Sequences, FiniteSets, Functions

CONSTANTS
    Accounts,        \* account names
    BlankAccount,    \* the empty account name
    Currencies,      \* the currencies callers ask for
    Grain,           \* supported currency -> raw units per minor unit
    CreditAccounts,  \* accounts that may go negative in every currency
    CreditPairs,     \* <<account, currency>> pairs that may go negative
    BlankId,         \* an entry id that is empty once stripped
    Openings,        \* the opening balances a caller may construct with
    Requests         \* the entries callers may ask to post

Supported == DOMAIN Grain

Keys == Accounts \X Supported

ASSUME LedgerConstants ==
    /\ IsFiniteSet(Accounts) /\ BlankAccount \notin Accounts
    /\ Supported \subseteq Currencies
    /\ \A c \in Supported : Grain[c] \in Nat \ {0}
    /\ CreditAccounts \subseteq Accounts
    /\ CreditPairs \subseteq Keys
    /\ \A o \in Openings : DOMAIN o \subseteq Keys /\ \A k \in DOMAIN o : o[k] \in Int
    /\ \A r \in Requests :
          /\ r.currency \in Currencies
          /\ \A legs \in {r.debit, r.credit} :
                /\ DOMAIN legs \subseteq Accounts \cup {BlankAccount}
                /\ \A a \in DOMAIN legs : legs[a] \in Int

VARIABLES
    opening,   \* _opening_totals, kept per account
    balances,  \* _balances; an absent key reads as zero
    entries,   \* _entries
    entryIds   \* _entry_ids

vars == <<opening, balances, entries, entryIds>>
-----------------------------------------------------------------------------
(* Decimal.quantize(..., ROUND_HALF_EVEN). *)
HalfEven(raw, grain) ==
    LET whole == raw \div grain
        rest  == raw % grain
    IN  IF 2 * rest > grain \/ (2 * rest = grain /\ whole % 2 = 1)
        THEN whole + 1
        ELSE whole

Quantize(raw, currency) == HalfEven(raw, Grain[currency])

CreditAllowed(account, currency) ==
    \/ account \in CreditAccounts
    \/ <<account, currency>> \in CreditPairs

(* Mutant: the sign of an amount is not checked. *)
LegsValidAnySign(legs) == \A a \in DOMAIN legs : a # BlankAccount

(* _normalize_legs: what it refuses, and what it returns otherwise. *)
LegsValid(legs) == \A a \in DOMAIN legs : a # BlankAccount /\ legs[a] >= 0

NormalizeLegs(legs, currency) == [a \in DOMAIN legs |-> Quantize(legs[a], currency)]

LegTotal(legs) == SumFunction(legs)

Leg(legs, account) == IF account \in DOMAIN legs THEN legs[account] ELSE 0

(* The entry that post records: the request with its legs normalized. *)
Normalized(request) ==
    [id       |-> request.id,
     debit    |-> NormalizeLegs(request.debit, request.currency),
     credit   |-> NormalizeLegs(request.credit, request.currency),
     currency |-> request.currency]

(* Every check of post that comes before a balance is read. *)
WellFormed(request) ==
    /\ request.id # BlankId
    /\ request.id \notin entryIds
    /\ request.currency \in Supported
    /\ LegsValid(request.debit)
    /\ LegsValid(request.credit)

Balanced(entry) == LegTotal(entry.debit) = LegTotal(entry.credit)

(* Mutant: the check reads the opening balance instead of the current one. *)
OverdrawsOpening(entry) ==
    \E a \in DOMAIN entry.debit :
        /\ opening[<<a, entry.currency>>] - entry.debit[a] < 0
        /\ ~CreditAllowed(a, entry.currency)

(* The debits are taken before any credit of the same entry is given. *)
Overdraws(entry) ==
    \E a \in DOMAIN entry.debit :
        /\ balances[<<a, entry.currency>>] - entry.debit[a] < 0
        /\ ~CreditAllowed(a, entry.currency)

(* Mutant: the credit side reads the balances as they were before the debits,
   so an account on both sides keeps its debit. *)
PostedFromOriginal(entry) ==
    [k \in Keys |->
        IF k[2] = entry.currency
        THEN IF k[1] \in DOMAIN entry.credit
             THEN balances[k] + entry.credit[k[1]]
             ELSE balances[k] - Leg(entry.debit, k[1])
        ELSE balances[k]]

Posted(entry) ==
    [k \in Keys |->
        IF k[2] = entry.currency
        THEN balances[k] - Leg(entry.debit, k[1]) + Leg(entry.credit, k[1])
        ELSE balances[k]]

(* Mutant: the totals are compared as the caller sent them, then rounded. *)
AcceptsRawTotals(request) ==
    /\ WellFormed(request)
    /\ Balanced(request)
    /\ ~Overdraws(Normalized(request))

Accepts(request) ==
    /\ WellFormed(request)
    /\ LET entry == Normalized(request) IN Balanced(entry) /\ ~Overdraws(entry)
-----------------------------------------------------------------------------
(* The constructor: opening balances are quantized, and one that is negative
   on an account without credit is refused, so no ledger comes to exist. *)
Opened(o) == [k \in Keys |-> IF k \in DOMAIN o THEN Quantize(o[k], k[2]) ELSE 0]

Constructible(o) ==
    \A k \in Keys : Opened(o)[k] < 0 => CreditAllowed(k[1], k[2])

Init ==
    /\ opening \in {Opened(o) : o \in {p \in Openings : Constructible(p)}}
    /\ balances = opening
    /\ entries = <<>>
    /\ entryIds = {}

Post(request) ==
    /\ Accepts(request)
    /\ balances' = Posted(Normalized(request))
    /\ entries' = Append(entries, Normalized(request))
    /\ entryIds' = entryIds \cup {request.id}
    /\ UNCHANGED opening

(* Mutant: the debits are taken from the live balances, not from a copy, so a
   refused entry leaves them behind. *)
RejectInPlace(request) ==
    /\ ~Accepts(request)
    /\ WellFormed(request)
    /\ balances' = Posted([Normalized(request) EXCEPT !.credit = <<>>])
    /\ UNCHANGED <<opening, entries, entryIds>>

(* post raises: the working copy of the balances is dropped. *)
Reject(request) ==
    /\ ~Accepts(request)
    /\ UNCHANGED vars

Next == \E request \in Requests : Post(request) \/ Reject(request)

Spec == Init /\ [][Next]_vars
-----------------------------------------------------------------------------
LegsOK(legs) == DOMAIN legs \subseteq Accounts /\ \A a \in DOMAIN legs : legs[a] \in Nat

EntryOK(entry) ==
    /\ DOMAIN entry = {"id", "debit", "credit", "currency"}
    /\ LegsOK(entry.debit)
    /\ LegsOK(entry.credit)
    /\ entry.currency \in Supported

(* The state is well formed: whole balances, and recorded legs that are
   non-negative amounts on named accounts in a supported currency. *)
TypeOK ==
    /\ opening \in [Keys -> Int]
    /\ balances \in [Keys -> Int]
    /\ \A i \in 1..Len(entries) : EntryOK(entries[i])
    /\ entryIds \subseteq {r.id : r \in Requests}

(* assert_conserved: postings never create or destroy value in any currency,
   whatever the rounding of the individual legs did to their totals. *)
Conserved ==
    \A c \in Supported :
        LET held(b) == SumFunctionOnSet(b, Accounts \X {c}) IN held(balances) = held(opening)

(* The overdraft check of the constructor and of post, together: an account
   is negative only where credit was granted for it. *)
NoOverdraft ==
    \A k \in Keys : balances[k] < 0 => CreditAllowed(k[1], k[2])

(* The recorded entries are the amounts that moved: replaying them over the
   opening balances gives the balances, key by key. *)
EntriesExplainBalances ==
    \A k \in Keys :
        LET moved == [i \in {j \in DOMAIN entries : entries[j].currency = k[2]} |->
                        Leg(entries[i].credit, k[1]) - Leg(entries[i].debit, k[1])]
        IN  balances[k] = opening[k] + SumFunction(moved)

(* Value is neither made nor lost, and the entries say where it went. *)
BooksBalance == Conserved /\ EntriesExplainBalances

(* _entry_ids and _entries never drift apart, and no entry id is recorded
   twice. *)
EntriesIdentified ==
    /\ entryIds = {entries[i].id : i \in DOMAIN entries}
    /\ BlankId \notin entryIds
    /\ \A i, j \in DOMAIN entries : entries[i].id = entries[j].id => i = j

(* "append-only": a step only ever adds one entry at the end, and balances
   move only together with the entry that says so. *)
AppendOnly ==
    [][/\ SubSeq(entries', 1, Len(entries)) = entries
       /\ Len(entries') <= Len(entries) + 1
       /\ balances' # balances => Len(entries') = Len(entries) + 1]_vars
=============================================================================
