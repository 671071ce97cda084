--------------------------- MODULE SimulatorProofs ---------------------------
(***************************************************************************)
(* The ledger of an engine by itself, and then the engine.                  *)
(***************************************************************************)
EXTENDS Ledger, SimulationEngine, Foundations
-----------------------------------------------------------------------------
(***************************************************************************)
(* For every choice of accounts, currencies, grains, credit grants, opening *)
(* balances and requested entries: the ledger's state stays well formed, no *)
(* account without credit is ever negative, and the entry ids and the       *)
(* recorded entries agree; no value is made or lost, and the entries say    *)
(* where it went.                                                           *)
(***************************************************************************)
Ids == {r.id : r \in Requests}

(* What an element of entries may be. *)
Entries ==
    [id : Ids,
     debit : UNION {[D -> Nat] : D \in SUBSET Accounts},
     credit : UNION {[D -> Nat] : D \in SUBSET Accounts},
     currency : Supported]

(* The inductive invariant: TypeOK with entries as a typed sequence. *)
IndInv ==
    /\ opening \in [Keys -> Int]
    /\ balances \in [Keys -> Int]
    /\ entries \in Seq(Entries)
    /\ entryIds \subseteq Ids
    /\ NoOverdraft
    /\ EntriesIdentified

(* Rounding half to even of an integer is an integer, and never turns a
   non-negative amount negative. *)
LEMMA HalfEvenInt ==
    ASSUME NEW raw \in Int, NEW grain \in Nat \ {0}
    PROVE  /\ HalfEven(raw, grain) \in Int
           /\ raw >= 0 => HalfEven(raw, grain) \in Nat
<1> DEFINE whole == raw \div grain
           rest  == raw % grain
<1>1. whole \in Int /\ rest \in 0..(grain - 1) /\ raw = grain * whole + rest
  OBVIOUS
<1>2. raw >= 0 => whole >= 0
  OBVIOUS
<1>3. HalfEven(raw, grain) \in {whole, whole + 1}
  BY <1>1 DEF HalfEven
<1> QED
  BY <1>1, <1>2, <1>3

(* A well-formed request is recorded as an entry: its legs are natural
   amounts on named accounts. *)
LEMMA NormalizedEntry ==
    ASSUME NEW request \in Requests, WellFormed(request)
    PROVE  Normalized(request) \in Entries
<1> DEFINE legsets == UNION {[D -> Nat] : D \in SUBSET Accounts}
<1>1. ASSUME NEW legs \in {request.debit, request.credit}
      PROVE  NormalizeLegs(legs, request.currency) \in legsets
  <2>1. LegsValid(legs) /\ request.currency \in Supported
    BY <1>1 DEF WellFormed
  <2>2. Grain[request.currency] \in Nat \ {0}
    BY <2>1, LedgerConstants
  <2>3. /\ DOMAIN legs \subseteq Accounts
        /\ \A a \in DOMAIN legs : legs[a] \in Nat
    BY <2>1, LedgerConstants, <1>1 DEF LegsValid
  <2>4. \A a \in DOMAIN legs : Quantize(legs[a], request.currency) \in Nat
    BY <2>2, <2>3, HalfEvenInt DEF Quantize
  <2>5. NormalizeLegs(legs, request.currency) \in [DOMAIN legs -> Nat]
    BY <2>4 DEF NormalizeLegs
  <2> QED
    BY <2>3, <2>5
<1>2. request.currency \in Supported /\ request.id \in Ids
  BY DEF WellFormed, Ids
<1> QED
  BY <1>1, <1>2 DEF Normalized, Entries

LEMMA InitIndInv == Init => IndInv
<1> SUFFICES ASSUME Init PROVE IndInv
  OBVIOUS
<1>1. PICK o \in Openings : Constructible(o) /\ opening = Opened(o)
  BY DEF Init
<1>2. opening \in [Keys -> Int]
  <2>1. ASSUME NEW k \in Keys PROVE Opened(o)[k] \in Int
    <3>1. Grain[k[2]] \in Nat \ {0}
      BY LedgerConstants DEF Keys
    <3>2. k \in DOMAIN o => o[k] \in Int
      BY LedgerConstants
    <3>3. k \in DOMAIN o => Quantize(o[k], k[2]) \in Int
      BY <3>1, <3>2, HalfEvenInt DEF Quantize
    <3> QED
      BY <3>3 DEF Opened
  <2> QED
    BY <1>1, <2>1 DEF Opened
<1>3. NoOverdraft
  BY <1>1 DEF Init, NoOverdraft, Constructible
<1>4. EntriesIdentified
  BY DEF Init, EntriesIdentified
<1>5. entries \in Seq(Entries) /\ entryIds \subseteq Ids
  BY DEF Init
<1> QED
  BY <1>2, <1>3, <1>4, <1>5 DEF Init, IndInv

LEMMA NextIndInv == IndInv /\ [Next]_vars => IndInv'
<1> SUFFICES ASSUME IndInv, [Next]_vars PROVE IndInv'
  OBVIOUS
<1>1. CASE UNCHANGED vars
  BY <1>1 DEF IndInv, vars, NoOverdraft, EntriesIdentified
<1>2. ASSUME NEW request \in Requests, Reject(request)
      PROVE  IndInv'
  BY <1>2 DEF Reject, IndInv, vars, NoOverdraft, EntriesIdentified
<1>3. ASSUME NEW request \in Requests, Post(request)
      PROVE  IndInv'
  <2> DEFINE entry == Normalized(request)
  <2>1. WellFormed(request) /\ ~Overdraws(entry)
    BY <1>3 DEF Post, Accepts
  <2>2. entry \in Entries
    BY <2>1, NormalizedEntry
  <2>3. entry.currency \in Supported
    BY <2>2 DEF Entries
  <2>4. /\ \A a : Leg(entry.debit, a) \in Nat
        /\ \A a : Leg(entry.credit, a) \in Nat
    BY <2>2 DEF Entries, Leg
  <2>5. balances' \in [Keys -> Int]
    <3> HIDE DEF entry
    <3>1. ASSUME NEW k \in Keys
          PROVE  /\ balances[k] \in Int
                 /\ balances[k] - Leg(entry.debit, k[1]) + Leg(entry.credit, k[1]) \in Int
      BY <2>4 DEF IndInv
    <3>2. Posted(entry) \in [Keys -> Int]
      BY <3>1 DEF Posted
    <3> QED
      BY <3>2, <1>3 DEF Post, entry
  <2>6. entries' \in Seq(Entries) /\ entryIds' \subseteq Ids
    BY <1>3, <2>2 DEF Post, IndInv, Ids
  <2>7. NoOverdraft'
    <3> SUFFICES ASSUME NEW k \in Keys, balances'[k] < 0
                 PROVE  CreditAllowed(k[1], k[2])
      BY DEF NoOverdraft, CreditAllowed
    <3> HIDE DEF entry
    <3>1. balances' = Posted(entry)
      BY <1>3 DEF Post, entry
    <3>2. CASE k[2] # entry.currency
      BY <3>1, <3>2 DEF Posted, IndInv, NoOverdraft
    <3>3. CASE k[2] = entry.currency
      <4>1. balances[k] \in Int
        BY DEF IndInv
      <4>2. balances[k] - Leg(entry.debit, k[1]) < 0
        BY <3>1, <3>3, <4>1, <2>4 DEF Posted
      <4>3. CASE k[1] \in DOMAIN entry.debit
        <5>1. k = <<k[1], entry.currency>>
          BY <3>3 DEF Keys
        <5> QED
          BY <4>2, <4>3, <5>1, <2>1, <3>3 DEF Overdraws, Leg
      <4>4. CASE k[1] \notin DOMAIN entry.debit
        <5>1. balances[k] < 0
          BY <4>1, <4>2, <4>4 DEF Leg
        <5> QED
          BY <5>1 DEF IndInv, NoOverdraft
      <4> QED
        BY <4>3, <4>4
    <3> QED
      BY <3>2, <3>3
  <2>8. EntriesIdentified'
    <3>1. /\ entries \in Seq(Entries)
          /\ entries' = Append(entries, entry)
          /\ entryIds' = entryIds \cup {entry.id}
          /\ entry.id = request.id
          /\ entry.id \notin entryIds
          /\ entry.id # BlankId
      BY <1>3, <2>1 DEF Post, IndInv, Normalized, WellFormed
    <3> HIDE DEF entry
    <3>2. /\ DOMAIN entries = 1..Len(entries)
          /\ Len(entries) \in Nat
          /\ DOMAIN entries' = 1..(Len(entries) + 1)
          /\ \A i \in 1..Len(entries) : entries'[i] = entries[i]
          /\ entries'[Len(entries) + 1] = entry
      BY <3>1, <2>2 DEF entry
    <3>3. \A i \in DOMAIN entries' : i \in DOMAIN entries \/ i = Len(entries) + 1
      BY <3>2
    <3>4. /\ entryIds = {entries[i].id : i \in DOMAIN entries}
          /\ BlankId \notin entryIds
          /\ \A i, j \in DOMAIN entries : entries[i].id = entries[j].id => i = j
      BY DEF IndInv, EntriesIdentified
    <3>5. entryIds' = {entries'[i].id : i \in DOMAIN entries'}
      <4>1. ASSUME NEW x \in entryIds'
            PROVE  \E i \in DOMAIN entries' : x = entries'[i].id
        <5>1. CASE x \in entryIds
          <6>1. PICK i \in DOMAIN entries : x = entries[i].id
            BY <5>1, <3>4
          <6> QED
            BY <6>1, <3>2
        <5>2. CASE x = entry.id
          BY <5>2, <3>2
        <5> QED
          BY <5>1, <5>2, <3>1
      <4>2. ASSUME NEW i \in DOMAIN entries'
            PROVE  entries'[i].id \in entryIds'
        BY <3>1, <3>2, <3>3, <3>4
      <4> QED
        BY <4>1, <4>2
    <3>6. \A i \in DOMAIN entries : entries[i].id # entry.id
      BY <3>1, <3>4
    <3>7. \A i, j \in DOMAIN entries' : entries'[i].id = entries'[j].id => i = j
      BY <3>2, <3>3, <3>4, <3>6
    <3> QED
      BY <3>1, <3>4, <3>5, <3>7 DEF EntriesIdentified
  <2>9. opening' \in [Keys -> Int]
    BY <1>3 DEF Post, IndInv
  <2> QED
    BY <2>5, <2>6, <2>7, <2>8, <2>9 DEF IndInv
<1> QED
  BY <1>1, <1>2, <1>3 DEF Next

LEMMA IndInvTypeOK == IndInv => TypeOK
<1> SUFFICES ASSUME IndInv PROVE TypeOK
  OBVIOUS
<1>1. ASSUME NEW i \in 1..Len(entries) PROVE EntryOK(entries[i])
  <2>1. entries[i] \in Entries
    BY DEF IndInv
  <2> QED
    BY <2>1 DEF Entries, EntryOK, LegsOK
<1> QED
  BY <1>1 DEF IndInv, TypeOK, Ids

(* The ledger's state is well formed in every reachable state. *)
THEOREM TypeCorrect == Spec => []TypeOK
  BY InitIndInv, NextIndInv, IndInvTypeOK, PTL DEF Spec

(* post and the constructor never leave an account negative unless credit was
   granted for it: the debit check runs on the balances before the credits,
   and rounding never makes a leg negative. *)
THEOREM OverdraftSafe == Spec => []NoOverdraft
<1>1. IndInv => NoOverdraft
  BY DEF IndInv
<1> QED
  BY InitIndInv, NextIndInv, <1>1, PTL DEF Spec

(* Entry ids are recorded exactly once, and exactly those of the entries. *)
THEOREM IdsUnique == Spec => []EntriesIdentified
<1>1. IndInv => EntriesIdentified
  BY DEF IndInv
<1> QED
  BY InitIndInv, NextIndInv, <1>1, PTL DEF Spec

(* THE BOOKS.  Of the legs of an entry, spread over all accounts, the sum is
   what post compares. *)
LEMMA LegsSum ==
    ASSUME NEW legs \in UNION {[D -> Nat] : D \in SUBSET Accounts}, NEW f,
           \A a \in Accounts : f[a] = Leg(legs, a)
    PROVE  SumFunctionOnSet(f, Accounts) = LegTotal(legs)
<1> DEFINE E == DOMAIN legs
<1>1. E \in SUBSET Accounts /\ IsFiniteSet(Accounts) /\ IsFiniteSet(E)
  BY LedgerConstants, FS_Subset
<1>2. \A a \in Accounts : f[a] \in Int /\ (a \notin E => f[a] = 0) /\ (a \in E => f[a] = legs[a])
  BY DEF Leg
<1> HIDE DEF E
<1>3. SumFunctionOnSet(f, Accounts) = SumFunctionOnSet(f, E)
  BY <1>1, <1>2, SumZeroOutside
<1>4. \A a \in E : f[a] \in Int /\ legs[a] = f[a]
  BY <1>1, <1>2
<1>5. SumFunctionOnSet(legs, E) = SumFunctionOnSet(f, E)
  BY <1>1, <1>4, SumSame
<1> QED  BY <1>3, <1>5 DEF LegTotal, SumFunction, E

(* A balanced entry leaves the total of every currency as it is. *)
LEMMA PostedConserves ==
    ASSUME balances \in [Keys -> Int], NEW entry \in Entries, Balanced(entry), NEW c \in Supported
    PROVE  SumFunctionOnSet(Posted(entry), Accounts \X {c}) = SumFunctionOnSet(balances, Accounts \X {c})
<1> DEFINE before == [a \in Accounts |-> balances[<<a, c>>]]
           taken  == [a \in Accounts |-> Leg(entry.debit, a)]
           given  == [a \in Accounts |-> Leg(entry.credit, a)]
           after  == [a \in Accounts |-> Posted(entry)[<<a, c>>]]
           turned == [a \in Accounts |-> before[a] + given[a]]
<1>1. IsFiniteSet(Accounts)
  BY LedgerConstants
<1>2. \A a \in Accounts : before[a] \in Int /\ taken[a] \in Int /\ given[a] \in Int
  BY DEF Entries, Leg, Keys
<1>3. \A a \in Accounts : <<a, c>> \in Keys
  BY DEF Keys
<1>4. \A a \in Accounts : after[a] = IF c = entry.currency THEN before[a] - taken[a] + given[a] ELSE before[a]
  BY <1>3 DEF Posted
<1>5. \A a \in Accounts : balances[<<a, c>>] = before[a] /\ Posted(entry)[<<a, c>>] = after[a]
  OBVIOUS
<1>6. SumFunctionOnSet(taken, Accounts) = SumFunctionOnSet(given, Accounts)
  <2>1. entry.debit \in UNION {[D -> Nat] : D \in SUBSET Accounts}
    BY DEF Entries
  <2>2. entry.credit \in UNION {[D -> Nat] : D \in SUBSET Accounts}
    BY DEF Entries
  <2>3. \A a \in Accounts : taken[a] = Leg(entry.debit, a) /\ given[a] = Leg(entry.credit, a)
    OBVIOUS
  <2> HIDE DEF taken, given
  <2>4. SumFunctionOnSet(taken, Accounts) = LegTotal(entry.debit)
    BY <2>1, <2>3, LegsSum
  <2>5. SumFunctionOnSet(given, Accounts) = LegTotal(entry.credit)
    BY <2>2, <2>3, LegsSum
  <2> QED  BY <2>4, <2>5 DEF Balanced
<1>7. \A a \in Accounts : turned[a] \in Int /\ turned[a] = before[a] + given[a]
  BY <1>2
<1> HIDE DEF before, taken, given, after, turned
<1>8. \A a \in Accounts : after[a] \in Int
  BY <1>2, <1>4
<1>9. SumFunctionOnSet(after, Accounts) = SumFunctionOnSet(before, Accounts)
  <2>1. CASE c # entry.currency
    <3>1. \A a \in Accounts : before[a] \in Int /\ after[a] = before[a]
      BY <1>2, <1>4, <2>1
    <3> QED  BY <1>1, <3>1, SumSame
  <2>2. CASE c = entry.currency
    <3>1. \A a \in Accounts : after[a] \in Int /\ taken[a] \in Int /\ turned[a] = after[a] + taken[a]
      BY <1>2, <1>4, <1>7, <1>8, <2>2
    <3>2. SumFunctionOnSet(turned, Accounts) = SumFunctionOnSet(after, Accounts) + SumFunctionOnSet(taken, Accounts)
      BY <1>1, <3>1, SumPlus
    <3>3. SumFunctionOnSet(turned, Accounts) = SumFunctionOnSet(before, Accounts) + SumFunctionOnSet(given, Accounts)
      BY <1>1, <1>2, <1>7, SumPlus
    <3>4. \A f \in {after, before, taken, given} : SumFunctionOnSet(f, Accounts) \in Int
      BY <1>1, <1>2, <1>8, SumIsInt
    <3>5. \A t, x, y, z : x \in Int /\ y \in Int /\ z \in Int /\ t = x + z /\ t = y + z => x = y
      OBVIOUS
    <3>6. SumFunctionOnSet(turned, Accounts) = SumFunctionOnSet(before, Accounts) + SumFunctionOnSet(taken, Accounts)
      BY <1>6, <3>3
    <3> QED  BY <3>2, <3>4, <3>5, <3>6
  <2> QED  BY <2>1, <2>2
<1>10. SumFunctionOnSet(balances, Accounts \X {c}) = SumFunctionOnSet(before, Accounts)
  <2>1. IsColumn(before, balances, Accounts, c)
    BY <1>2, <1>5 DEF IsColumn
  <2> QED  BY <1>1, <2>1, SumOfColumn
<1>11. SumFunctionOnSet(Posted(entry), Accounts \X {c}) = SumFunctionOnSet(after, Accounts)
  <2>1. IsColumn(after, Posted(entry), Accounts, c)
    BY <1>5, <1>8 DEF IsColumn
  <2> QED  BY <1>1, <2>1, SumOfColumn
<1> QED  BY <1>9, <1>10, <1>11

(* What the entries moved under a key. *)
InCurrency(es, k) == {j \in DOMAIN es : es[j].currency = k[2]}

MovedBy(es, k) ==
    [i \in InCurrency(es, k) |-> Leg(es[i].credit, k[1]) - Leg(es[i].debit, k[1])]

(* One entry more moves what it says. *)
LEMMA MovedFurther ==
    ASSUME NEW es \in Seq(Entries), NEW entry \in Entries, NEW k \in Keys
    PROVE  /\ SumFunction(MovedBy(es, k)) \in Int
           /\ SumFunction(MovedBy(Append(es, entry), k)) =
                 SumFunction(MovedBy(es, k))
                    + (IF k[2] = entry.currency
                       THEN Leg(entry.credit, k[1]) - Leg(entry.debit, k[1]) ELSE 0)
<1> DEFINE n == Len(es)
           longer == Append(es, entry)
           S == InCurrency(es, k)
           f == MovedBy(es, k)
           g == MovedBy(longer, k)
           step == Leg(entry.credit, k[1]) - Leg(entry.debit, k[1])
<1>1. /\ n \in Nat /\ DOMAIN es = 1..n /\ DOMAIN longer = 1..(n + 1)
      /\ longer[n + 1] = entry /\ \A i \in 1..n : longer[i] = es[i] /\ es[i] \in Entries
  BY AppendProperties, LenProperties, ElementOfSeq
<1>2. \A e \in Entries : Leg(e.credit, k[1]) \in Nat /\ Leg(e.debit, k[1]) \in Nat
  BY DEF Entries, Leg
<1>3. IsFiniteSet(S) /\ n + 1 \notin S /\ S \subseteq 1..n
  <2>1. S \subseteq 1..n
    BY <1>1 DEF InCurrency
  <2>2. IsFiniteSet(1..n)
    BY <1>1, FS_Interval
  <2> HIDE DEF S
  <2>3. n + 1 \notin S
    BY <1>1, <2>1
  <2> QED  BY <2>1, <2>2, <2>3, FS_Subset
<1>4. InCurrency(longer, k) = IF k[2] = entry.currency THEN S \cup {n + 1} ELSE S
  <2> HIDE DEF longer, n
  <2>1. \A i \in 1..(n + 1) : i \in 1..n \/ i = n + 1
    BY <1>1
  <2>2. \A i \in 1..n : i \in 1..(n + 1)
    BY <1>1
  <2>3. n + 1 \in 1..(n + 1)
    BY <1>1
  <2>4. CASE k[2] = entry.currency
    BY <1>1, <2>1, <2>2, <2>3, <2>4 DEF InCurrency
  <2>5. CASE k[2] # entry.currency
    BY <1>1, <2>1, <2>2, <2>3, <2>5 DEF InCurrency
  <2> QED  BY <2>4, <2>5
<1>5. /\ DOMAIN f = S /\ DOMAIN g = InCurrency(longer, k)
      /\ \A i \in S : f[i] = Leg(es[i].credit, k[1]) - Leg(es[i].debit, k[1])
      /\ \A i \in InCurrency(longer, k) :
            g[i] = Leg(longer[i].credit, k[1]) - Leg(longer[i].debit, k[1])
  BY DEF MovedBy
<1> HIDE DEF f, g, S, longer, n
<1>6. \A i \in S : f[i] \in Int /\ g[i] = f[i]
  <2> SUFFICES ASSUME NEW i \in S
               PROVE  f[i] \in Int /\ g[i] = f[i]
    OBVIOUS
  <2>1. i \in InCurrency(longer, k) /\ longer[i] = es[i] /\ es[i] \in Entries
    BY <1>1, <1>3, <1>4
  <2>2. Leg(es[i].credit, k[1]) \in Nat /\ Leg(es[i].debit, k[1]) \in Nat
    BY <1>2, <2>1
  <2>3. f[i] = Leg(es[i].credit, k[1]) - Leg(es[i].debit, k[1])
    BY <1>5
  <2>4. g[i] = Leg(es[i].credit, k[1]) - Leg(es[i].debit, k[1])
    BY <1>5, <2>1
  <2> QED  BY <2>2, <2>3, <2>4
<1>7. SumFunctionOnSet(f, S) \in Int /\ SumFunctionOnSet(g, S) = SumFunctionOnSet(f, S)
  BY <1>3, <1>6, SumIsInt, SumSame
<1>8. SumFunction(f) = SumFunctionOnSet(f, S) /\ SumFunction(g) = SumFunctionOnSet(g, InCurrency(longer, k))
  BY <1>5 DEF SumFunction
<1>9. CASE k[2] = entry.currency
  <2>1. g[n + 1] = step /\ step \in Int
    <3>1. n + 1 \in InCurrency(longer, k)
      BY <1>4, <1>9
    <3>2. longer[n + 1] = entry
      BY <1>1
    <3>3. Leg(entry.credit, k[1]) \in Nat /\ Leg(entry.debit, k[1]) \in Nat
      BY <1>2
    <3>4. g[n + 1] = Leg(longer[n + 1].credit, k[1]) - Leg(longer[n + 1].debit, k[1])
      BY <1>5, <3>1
    <3> QED  BY <3>2, <3>3, <3>4
  <2> HIDE DEF step
  <2>2. \A i \in S \cup {n + 1} : g[i] \in Int
    BY <1>6, <2>1
  <2>3. SumFunctionOnSet(g, S \cup {n + 1}) = SumFunctionOnSet(g, S) + g[n + 1]
    BY <1>3, <2>2, SumOneMore
  <2>4. SumFunction(g) = SumFunction(f) + step
    BY <1>4, <1>7, <1>8, <1>9, <2>1, <2>3
  <2> QED  BY <1>7, <1>8, <1>9, <2>4 DEF f, g, longer, step
<1>10. CASE k[2] # entry.currency
  <2>1. SumFunction(g) = SumFunction(f) + 0
    BY <1>4, <1>7, <1>8, <1>10
  <2> QED  BY <1>7, <1>8, <1>10, <2>1 DEF f, g, longer
<1> QED  BY <1>9, <1>10

LEMMA EntriesExplain ==
    EntriesExplainBalances <=>
        \A k \in Keys : balances[k] = opening[k] + SumFunction(MovedBy(entries, k))
BY DEF EntriesExplainBalances, MovedBy, InCurrency

LEMMA BooksStart == Init => BooksBalance
<1> SUFFICES ASSUME Init PROVE BooksBalance
  OBVIOUS
<1>1. balances = opening /\ entries = <<>> /\ opening \in [Keys -> Int]
  BY InitIndInv DEF Init, IndInv
<1>2. \A k \in Keys : SumFunction(MovedBy(<<>>, k)) = 0
  <2> SUFFICES ASSUME NEW k \in Keys PROVE SumFunction(MovedBy(<<>>, k)) = 0
    OBVIOUS
  <2>1. DOMAIN MovedBy(<<>>, k) = {}
    BY DEF MovedBy, InCurrency
  <2> QED  BY <2>1, SumOfNothing DEF SumFunction
<1>3. EntriesExplainBalances
  BY <1>1, <1>2, EntriesExplain
<1> QED  BY <1>1, <1>3 DEF BooksBalance, Conserved

LEMMA BooksKeep == IndInv /\ BooksBalance /\ [Next]_vars => BooksBalance'
<1> SUFFICES ASSUME IndInv, BooksBalance, [Next]_vars PROVE BooksBalance'
  OBVIOUS
<1>1. CASE UNCHANGED vars
  BY <1>1 DEF BooksBalance, Conserved, EntriesExplainBalances, vars
<1>2. ASSUME NEW request \in Requests, Reject(request)
      PROVE  BooksBalance'
  BY <1>2 DEF Reject, BooksBalance, Conserved, EntriesExplainBalances, vars
<1>3. ASSUME NEW request \in Requests, Post(request)
      PROVE  BooksBalance'
  <2>1. PICK entry : entry = Normalized(request)
    OBVIOUS
  <2>2. entry \in Entries /\ Balanced(entry)
    BY <1>3, <2>1, NormalizedEntry DEF Post, Accepts
  <2>3. balances' = Posted(entry) /\ entries' = Append(entries, entry) /\ opening' = opening
    BY <1>3, <2>1 DEF Post
  <2>4. balances \in [Keys -> Int] /\ opening \in [Keys -> Int] /\ entries \in Seq(Entries)
    BY DEF IndInv
  <2>5. Conserved'
    <3> SUFFICES ASSUME NEW c \in Supported
                 PROVE  SumFunctionOnSet(balances', Accounts \X {c}) = SumFunctionOnSet(opening', Accounts \X {c})
      BY DEF Conserved
    <3>1. SumFunctionOnSet(balances, Accounts \X {c}) = SumFunctionOnSet(opening, Accounts \X {c})
      BY DEF BooksBalance, Conserved
    <3>2. SumFunctionOnSet(Posted(entry), Accounts \X {c}) = SumFunctionOnSet(balances, Accounts \X {c})
      BY <2>2, <2>4, PostedConserves
    <3> QED  BY <2>3, <3>1, <3>2
  <2>6. EntriesExplainBalances'
    <3> SUFFICES ASSUME NEW k \in Keys
                 PROVE  balances'[k] = opening'[k] + SumFunction(MovedBy(entries', k))
      BY DEF EntriesExplainBalances, MovedBy, InCurrency
    <3> DEFINE step == IF k[2] = entry.currency
                       THEN Leg(entry.credit, k[1]) - Leg(entry.debit, k[1]) ELSE 0
    <3>1. balances[k] = opening[k] + SumFunction(MovedBy(entries, k))
      BY EntriesExplain DEF BooksBalance
    <3>2. /\ SumFunction(MovedBy(entries, k)) \in Int
          /\ SumFunction(MovedBy(entries', k)) = SumFunction(MovedBy(entries, k)) + step
      BY <2>2, <2>3, <2>4, MovedFurther
    <3>3. Leg(entry.credit, k[1]) \in Nat /\ Leg(entry.debit, k[1]) \in Nat
      BY <2>2 DEF Entries, Leg
    <3>4. opening[k] \in Int /\ balances[k] \in Int
      BY <2>4
    <3>5. balances'[k] = balances[k] + step /\ step \in Int
      BY <2>3, <3>3, <3>4 DEF Posted
    <3> HIDE DEF step
    <3> QED  BY <2>3, <3>1, <3>2, <3>4, <3>5
  <2> QED  BY <2>5, <2>6 DEF BooksBalance
<1> QED  BY <1>1, <1>2, <1>3 DEF Next

(* No posting makes or loses value in any currency, whatever its legs are
   rounded to, and replaying the recorded entries over the opening balances
   gives every balance. *)
THEOREM BooksAlwaysBalance == Spec => []BooksBalance
  BY InitIndInv, NextIndInv, BooksStart, BooksKeep, PTL DEF Spec

(* The posting history is append-only, and a balance changes only in the step
   that records why. *)
THEOREM HistoryAppendOnly == Spec => AppendOnly
<1> DEFINE Step == /\ SubSeq(entries', 1, Len(entries)) = entries
                   /\ Len(entries') <= Len(entries) + 1
                   /\ balances' # balances => Len(entries') = Len(entries) + 1
<1>1. IndInv /\ [Next]_vars => [Step]_vars
  <2> SUFFICES ASSUME IndInv, Next, entries \in Seq(Entries) PROVE [Step]_vars
    BY DEF IndInv
  <2>1. ASSUME NEW request \in Requests, Reject(request) PROVE [Step]_vars
    BY <2>1 DEF Reject
  <2>2. ASSUME NEW request \in Requests, Post(request) PROVE [Step]_vars
    <3>1. Normalized(request) \in Entries
      BY <2>2, NormalizedEntry DEF Post, Accepts
    <3>2. entries' = Append(entries, Normalized(request))
      BY <2>2 DEF Post
    <3>3. /\ Len(entries') = Len(entries) + 1
          /\ entries' \in Seq(Entries)
          /\ \A i \in 1..Len(entries) : entries'[i] = entries[i]
      BY <3>1, <3>2
    <3>4. SubSeq(entries', 1, Len(entries)) = entries
      BY <3>3
    <3> QED
      BY <3>3, <3>4
  <2> QED
    BY <2>1, <2>2 DEF Next
<1> QED
  BY InitIndInv, NextIndInv, <1>1, PTL DEF Spec, AppendOnly
-----------------------------------------------------------------------------
(***************************************************************************)
(* Theorems about the engine, for every horizon and every set of profiles:  *)
(* any priorities, any id space and any bounds.                             *)
(*                                                                          *)
(* The inductive invariant has a part per concern: the two heaps, what has  *)
(* been delivered, the log, the ids of the running callback and its scope.  *)
(* A lemma per action shows that the action preserves all of them.          *)
(***************************************************************************)
Command == [at : Times, priority : Int, sequence : Nat]
Delivery == [command : Command, upTo : Nat]
Entry == [time : Times, id : EventIds]

Typed ==
    /\ profile \in ProfileType
    /\ now \in Times
    /\ sequence \in Nat
    /\ queue \in SUBSET Command
    /\ IsFiniteSet(queue)
    /\ due \in [Times -> Nat]
    /\ uuids \in 0..profile.uuidLimit
    /\ events \in Seq(Entry)
    /\ invocations \in Nat
    /\ pc \in {"idle", "initialize", "loop", "handle"}
    /\ delivered \in Seq(Delivery)

(* The clock's heap: insertion numbers are used once, nothing is late. *)
Waiting ==
    /\ \A c \in queue : now <= c.at /\ c.sequence < sequence
    /\ \A c, d \in queue : c.sequence = d.sequence => c = d

(* What was delivered is not waiting, and went before all that waited then. *)
Deliveries ==
    \A i \in 1..Len(delivered) :
        /\ delivered[i].upTo <= sequence
        /\ delivered[i].command.sequence < sequence
        /\ \A c \in queue :
              /\ delivered[i].command.sequence # c.sequence
              /\ c.sequence < delivered[i].upTo => Before(delivered[i].command, c)

LoggedByNow == \A i \in 1..Len(events) : events[i].time <= now

(* Ids minted in the running callback are above all that are in the log. *)
MintedAbove ==
    Honest =>
        /\ seen \cup minted \subseteq 0..(uuids - 1)
        /\ \A m \in minted, s \in seen : s < m

(* Outside a callback no scope resolves, in it only its own. *)
Scoped ==
    /\ scopes \subseteq {invocations}
    /\ ~InCallback => scopes = {} /\ minted = {}

(* The clock never finds its two heaps in disagreement. *)
NeverDiverged == failure # "diverged"

IInv ==
    /\ Typed
    /\ Waiting
    /\ IndexAgrees
    /\ Deliveries
    /\ DeliveryOrder
    /\ LoggedByNow
    /\ LogCanonical
    /\ MintedAbove
    /\ HonestNeverRefused
    /\ Scoped
    /\ NeverDiverged
-----------------------------------------------------------------------------
(* The heap's order on commands is a strict order, total on a heap in which
   insertion numbers are used once. *)
LEMMA BeforeIsStrict ==
  /\ \A c \in Command : ~Before(c, c)
  /\ \A c, d, e \in Command : Before(c, d) /\ Before(d, e) => Before(c, e)
  /\ \A c, d \in Command : c.sequence # d.sequence => Before(c, d) \/ Before(d, c)
  BY EngineConstants DEF Command, Before, Times

(* A heap that is not empty has a first command: the one with the fewest
   before it. *)
LEMMA HeapHasFirst ==
  ASSUME Typed, Waiting, queue # {}
  PROVE  \E c \in queue : First(c)
<1> DEFINE Earlier(c) == {d \in queue : Before(d, c)}
           Ranks == {Cardinality(Earlier(c)) : c \in queue}
<1>1. \A c \in queue : IsFiniteSet(Earlier(c)) /\ Cardinality(Earlier(c)) \in Nat
  BY FS_Subset, FS_CardinalityType DEF Typed
<1>2. \A c, d \in queue : Before(d, c) =>
        Earlier(d) \subseteq Earlier(c) /\ d \in Earlier(c) /\ d \notin Earlier(d)
  BY BeforeIsStrict DEF Typed
<1> HIDE DEF Earlier
<1>3. PICK c \in queue : \A d \in queue : Cardinality(Earlier(c)) <= Cardinality(Earlier(d))
  <2>1. Ranks \in SUBSET Nat /\ Ranks # {}
    BY <1>1
  <2>2. PICK n \in Ranks : \A m \in Ranks : n <= m
    BY <2>1, LeastNat
  <2>3. QED
    BY <2>2
<1>4. ASSUME NEW d \in queue, Before(d, c)
      PROVE  FALSE
  <2>1. Earlier(d) \in SUBSET Earlier(c) /\ Earlier(d) # Earlier(c)
    BY <1>2, <1>4
  <2>2. /\ Cardinality(Earlier(d)) <= Cardinality(Earlier(c))
        /\ Cardinality(Earlier(d)) # Cardinality(Earlier(c))
    BY <1>1, <2>1, FS_Subset
  <2>3. QED
    BY <1>1, <1>3, <2>2
<1>5. \A d \in queue \ {c} : Before(c, d)
  BY <1>4, BeforeIsStrict DEF Typed, Waiting
<1>6. QED
  BY <1>5 DEF First

-----------------------------------------------------------------------------
(* What does not touch the clock keeps the clock's part of the invariant; what
   does not touch the log keeps the log's, as long as time does not run back. *)
Clock == Waiting /\ IndexAgrees /\ Deliveries /\ DeliveryOrder

LEMMA ClockFrame ==
  ASSUME Clock, UNCHANGED <<clockVars, delivered>>
  PROVE  Clock'
  BY DEF Clock, Waiting, IndexAgrees, Deliveries, DeliveryOrder, Before, clockVars

LEMMA LogFrame ==
  ASSUME Typed, LoggedByNow, LogCanonical, UNCHANGED logVars, now' \in Times, now <= now'
  PROVE  LoggedByNow' /\ LogCanonical'
<1>1. \A i \in 1..Len(events) : events[i] \in Entry
  BY DEF Typed
<1>2. LoggedByNow'
  <2>1. \A i \in 1..Len(events) : events[i].time \in Int
    BY <1>1, EngineConstants DEF Entry, Times
  <2>2. now \in Int /\ now' \in Int
    BY EngineConstants DEF Typed, Times
  <2>3. QED
    BY <2>1, <2>2 DEF LoggedByNow, logVars
<1>3. LogCanonical'
  BY DEF LogCanonical, EventBefore, logVars
<1>4. QED
  BY <1>2, <1>3

(* The index after a command is added, and after one is taken away. *)
LEMMA IndexAfterAdd ==
  ASSUME Typed, IndexAgrees, NEW new, new.at \in Times, new \notin queue,
         queue' = queue \cup {new},
         due' = [due EXCEPT ![new.at] = @ + 1]
  PROVE  IndexAgrees'
<1> SUFFICES ASSUME NEW t \in Times
             PROVE  due'[t] = Cardinality({c \in queue' : c.at = t})
  BY DEF IndexAgrees
<1> DEFINE Then == {c \in queue : c.at = t}
<1>1. IsFiniteSet(Then) /\ due[t] = Cardinality(Then)
  BY FS_Subset DEF Typed, IndexAgrees
<1>2. CASE t = new.at
  <2>1. {c \in queue' : c.at = t} = Then \cup {new} /\ new \notin Then
    BY <1>2
  <2>2. due'[t] = due[t] + 1
    BY <1>2 DEF Typed
  <2>3. QED
    BY <1>1, <2>1, <2>2, FS_AddElement
<1>3. CASE t # new.at
  <2>1. {c \in queue' : c.at = t} = Then /\ due'[t] = due[t]
    BY <1>3 DEF Typed
  <2>2. QED
    BY <1>1, <2>1
<1>4. QED
  BY <1>2, <1>3

LEMMA IndexAfterRemove ==
  ASSUME Typed, IndexAgrees, NEW old \in queue,
         queue' = queue \ {old},
         due' = [due EXCEPT ![old.at] = @ - 1]
  PROVE  IndexAgrees' /\ due' \in [Times -> Nat]
<1>1. ASSUME NEW t \in Times
      PROVE  /\ due'[t] = Cardinality({c \in queue' : c.at = t})
             /\ Cardinality({c \in queue' : c.at = t}) \in Nat
  <2> DEFINE Then == {c \in queue : c.at = t}
  <2>1. IsFiniteSet(Then) /\ due[t] = Cardinality(Then)
    BY FS_Subset DEF Typed, IndexAgrees
  <2>2. CASE t = old.at
    <3>1. {c \in queue' : c.at = t} = Then \ {old} /\ old \in Then
      BY <2>2
    <3>2. due'[t] = due[t] - 1
      BY <2>2 DEF Typed
    <3>3. QED
      BY <2>1, <3>1, <3>2, FS_RemoveElement, FS_CardinalityType
  <2>3. CASE t # old.at
    <3>1. {c \in queue' : c.at = t} = Then /\ due'[t] = due[t]
      BY <2>3 DEF Typed
    <3>2. QED
      BY <2>1, <3>1, FS_CardinalityType
  <2>4. QED
    BY <2>2, <2>3
<1>2. due' \in [Times -> Nat]
  BY <1>1 DEF Typed, Command
<1>3. QED
  BY <1>1, <1>2 DEF IndexAgrees

-----------------------------------------------------------------------------
Fixed == UNCHANGED <<profile, hasAdapter>>

(* A command that the clock accepts has the highest insertion number, so that
   it waits behind no order that was already decided. *)
LEMMA EnqueueClock ==
  ASSUME Typed, Clock, Fixed, NEW at \in Times, NEW p \in Int,
         at >= now, Enqueue(at, p), UNCHANGED delivered
  PROVE  /\ Clock'
         /\ sequence' \in Nat /\ queue' \in SUBSET Command /\ IsFiniteSet(queue')
         /\ due' \in [Times -> Nat]
<1> DEFINE new == [at |-> at, priority |-> p, sequence |-> sequence]
<1>1. /\ new \in Command /\ new.at = at /\ new.sequence = sequence
      /\ queue' = queue \cup {new} /\ sequence' = sequence + 1
      /\ due' = [due EXCEPT ![new.at] = @ + 1]
      /\ UNCHANGED now
  BY DEF Enqueue, Typed, Command
<1>2. \A c \in queue : c.sequence \in Nat /\ c.sequence < sequence
  BY DEF Typed, Command, Clock, Waiting
<1>3. new \notin queue
  BY <1>1, <1>2
<1> HIDE DEF new
<1>4. IndexAgrees'
  BY <1>1, <1>3, IndexAfterAdd DEF Clock
<1>5. Waiting'
  BY <1>1, <1>2 DEF Clock, Waiting, Typed
<1>6. \A i \in 1..Len(delivered) : delivered[i] \in Delivery
  BY DEF Typed
<1>7. Deliveries'
  <2> SUFFICES ASSUME NEW i \in 1..Len(delivered)
               PROVE  /\ delivered[i].upTo <= sequence'
                      /\ delivered[i].command.sequence < sequence'
                      /\ \A c \in queue' :
                            /\ delivered[i].command.sequence # c.sequence
                            /\ c.sequence < delivered[i].upTo => Before(delivered[i].command, c)
    BY DEF Deliveries, Before
  <2>1. delivered[i].upTo \in Nat /\ delivered[i].command.sequence \in Nat /\ sequence \in Nat
    BY <1>6 DEF Delivery, Command, Typed
  <2>2. /\ delivered[i].upTo <= sequence
        /\ delivered[i].command.sequence < sequence
        /\ \A c \in queue :
              /\ delivered[i].command.sequence # c.sequence
              /\ c.sequence < delivered[i].upTo => Before(delivered[i].command, c)
    BY DEF Clock, Deliveries
  <2>3. QED
    BY <1>1, <2>1, <2>2
<1>8. DeliveryOrder'
  BY DEF Clock, DeliveryOrder, Before
<1>9. sequence' \in Nat /\ queue' \in SUBSET Command /\ IsFiniteSet(queue')
  <2>1. IsFiniteSet(queue \cup {new})
    BY FS_AddElement DEF Typed
  <2>2. QED
    BY <1>1, <2>1 DEF Typed
<1>10. due' \in [Times -> Nat]
  BY <1>1 DEF Typed
<1>11. QED
  BY <1>4, <1>5, <1>7, <1>8, <1>9, <1>10 DEF Clock

LEMMA ScheduleInv ==
  ASSUME IInv, Fixed, NEW at \in Times, NEW p \in profile.priorities, Schedule(at, p)
  PROVE  IInv'
<1>1. /\ UNCHANGED <<uuids, logVars, posts, writes, initialized, pc, until, callVars, delivered>>
      /\ UNCHANGED now
      /\ failure' # failure => failure' = "schedule"
  BY DEF Schedule, Enqueue, RefuseSchedule, MarkFailed, clockVars
<1>2. p \in Int
  BY DEF IInv, Typed, ProfileType
<1>3. /\ Clock'
      /\ sequence' \in Nat /\ queue' \in SUBSET Command /\ IsFiniteSet(queue')
      /\ due' \in [Times -> Nat]
  <2>1. CASE AcceptsTime(at) /\ Enqueue(at, p)
    <3>1. at >= now /\ Enqueue(at, p)
      BY <2>1 DEF AcceptsTime
    <3>2. QED
      BY <1>1, <1>2, <3>1, EnqueueClock DEF IInv, Clock
  <2>2. CASE RefuseSchedule(at)
    <3>1. UNCHANGED clockVars
      BY <2>2 DEF RefuseSchedule
    <3>2. QED
      BY <1>1, <3>1, ClockFrame DEF IInv, Clock, Typed, clockVars
  <2>3. QED
    BY <2>1, <2>2 DEF Schedule
<1>4. Typed'
  BY <1>1, <1>3 DEF IInv, Typed, Fixed, Entry, EventIds, callVars, logVars
<1>5. LoggedByNow' /\ LogCanonical'
  BY <1>1 DEF IInv, LoggedByNow, LogCanonical, EventBefore, logVars
<1>6. MintedAbove' /\ Scoped' /\ HonestNeverRefused' /\ NeverDiverged'
  BY <1>1 DEF IInv, MintedAbove, Scoped, HonestNeverRefused, NeverDiverged, Honest, InCallback,
              Fixed, callVars, logVars
<1>7. QED
  BY <1>3, <1>4, <1>5, <1>6 DEF IInv, Clock

(* What only posts, writes an entity, fails for a reason of its own or leaks a
   context. *)
LEMMA QuietInv ==
  ASSUME IInv, Fixed,
         UNCHANGED <<clockVars, uuids, logVars, pc, minted, invocations, scopes, delivered>>,
         failure' = failure \/ failure' \in {"post", "entity", "adapter", "raised"}
  PROVE  IInv'
<1>1. Clock'
  BY ClockFrame DEF IInv, Clock
<1>2. Typed'
  BY DEF IInv, Typed, Fixed, Entry, EventIds, clockVars, logVars
<1>3. LoggedByNow' /\ LogCanonical'
  BY DEF IInv, LoggedByNow, LogCanonical, EventBefore, clockVars, logVars
<1>4. MintedAbove' /\ Scoped' /\ HonestNeverRefused' /\ NeverDiverged'
  BY DEF IInv, MintedAbove, Scoped, HonestNeverRefused, NeverDiverged, Honest, InCallback, Fixed,
         logVars
<1>5. QED
  BY <1>1, <1>2, <1>3, <1>4 DEF IInv, Clock

LEMMA LedgerPostInv ==
  ASSUME IInv, Fixed, NEW ok \in BOOLEAN, LedgerPost(ok)
  PROVE  IInv'
<1>1. failure' = failure \/ failure' = "post"
  BY DEF LedgerPost, MarkFailed
<1>2. QED
  BY <1>1, QuietInv DEF LedgerPost, callVars

LEMMA SetEntityStateInv ==
  ASSUME IInv, Fixed, NEW ok \in BOOLEAN, SetEntityState(ok)
  PROVE  IInv'
<1>1. failure' = failure \/ failure' = "entity"
  BY DEF SetEntityState, MarkFailed
<1>2. QED
  BY <1>1, QuietInv DEF SetEntityState, callVars

(* A new id is above all that came before it. *)
LEMMA NewUuidInv ==
  ASSUME IInv, Fixed, InCallback, NewUuid
  PROVE  IInv'
<1>1. /\ UNCHANGED <<clockVars, logVars, pc, invocations, scopes, delivered>>
      /\ failure' = failure \/ failure' = "uuid"
      /\ \/ UNCHANGED <<uuids, minted>>
         \/ /\ uuids < profile.uuidLimit
            /\ uuids' = uuids + 1
            /\ minted' = minted \cup {uuids}
  BY DEF NewUuid, MarkFailed, IInv, Typed, ProfileType
<1>2. Clock'
  BY <1>1, ClockFrame DEF IInv, Clock
<1>3. LoggedByNow' /\ LogCanonical'
  BY <1>1 DEF IInv, LoggedByNow, LogCanonical, EventBefore, clockVars, logVars
<1>4. uuids \in Nat /\ profile.uuidLimit \in Nat
  BY DEF IInv, Typed, ProfileType
<1>5. Typed'
  BY <1>1, <1>4 DEF IInv, Typed, Fixed, Entry, EventIds, clockVars, logVars
<1>6. MintedAbove'
  BY <1>1, <1>4 DEF IInv, MintedAbove, Honest, Fixed, logVars
<1>7. Scoped' /\ HonestNeverRefused' /\ NeverDiverged'
  BY <1>1 DEF IInv, Scoped, HonestNeverRefused, NeverDiverged, Honest, InCallback, Fixed
<1>8. QED
  BY <1>2, <1>3, <1>5, <1>6, <1>7 DEF IInv, Clock

(* A callback begins with no id of its own, so that all it mints is above
   the log. *)
LEMMA BeginInv ==
  ASSUME IInv, Fixed, ~InCallback, BeginCallback,
         pc' \in {"initialize", "handle"},
         UNCHANGED <<uuids, logVars, failure>>,
         now' \in Times, now <= now',
         Clock',
         sequence' \in Nat, queue' \in SUBSET Command, IsFiniteSet(queue'),
         due' \in [Times -> Nat], delivered' \in Seq(Delivery)
  PROVE  IInv'
<1>1. Typed'
  BY DEF IInv, Typed, Fixed, Entry, EventIds, BeginCallback, logVars
<1>2. LoggedByNow' /\ LogCanonical'
  BY LogFrame DEF IInv
<1>3. MintedAbove' /\ Scoped' /\ HonestNeverRefused' /\ NeverDiverged'
  BY DEF IInv, MintedAbove, Scoped, HonestNeverRefused, NeverDiverged, Honest, InCallback, Fixed,
         BeginCallback, logVars
<1>4. QED
  BY <1>1, <1>2, <1>3 DEF IInv, Clock

LEMMA RunInitializeInv ==
  ASSUME IInv, Fixed, NEW cutoff, RunInitialize(cutoff)
  PROVE  IInv'
<1>1. Clock'
  BY ClockFrame DEF RunInitialize, IInv, Clock
<1>2. /\ now' \in Times /\ now <= now'
      /\ sequence' \in Nat /\ queue' \in SUBSET Command /\ IsFiniteSet(queue')
      /\ due' \in [Times -> Nat] /\ delivered' \in Seq(Delivery)
  BY EngineConstants DEF RunInitialize, IInv, Typed, Times, clockVars
<1>3. QED
  BY <1>1, <1>2, BeginInv DEF RunInitialize, InCallback

(* run() between two callbacks. *)
LEMMA MoveInv ==
  ASSUME IInv, Fixed, ~InCallback, pc' \in {"idle", "loop"},
         UNCHANGED <<clockVars, uuids, logVars, failure, callVars, delivered>>
  PROVE  IInv'
<1>1. Clock'
  BY ClockFrame DEF IInv, Clock
<1>2. Typed'
  BY DEF IInv, Typed, Fixed, Entry, EventIds, clockVars, logVars, callVars
<1>3. LoggedByNow' /\ LogCanonical'
  BY DEF IInv, LoggedByNow, LogCanonical, EventBefore, clockVars, logVars
<1>4. MintedAbove' /\ Scoped' /\ HonestNeverRefused' /\ NeverDiverged'
  BY DEF IInv, MintedAbove, Scoped, HonestNeverRefused, NeverDiverged, Honest, InCallback, Fixed,
         logVars, callVars
<1>5. QED
  BY <1>1, <1>2, <1>3, <1>4 DEF IInv, Clock

-----------------------------------------------------------------------------
(* Where the index says that work is due first, the clock's heap has its first
   command: the two never disagree. *)
LEMMA HeapsAgree ==
  ASSUME Typed, Clock, NEW t \in Times, due[t] > 0,
         \A s \in Times : due[s] > 0 => t <= s
  PROVE  \E c \in queue : First(c) /\ c.at = t
<1> DEFINE At(s) == {c \in queue : c.at = s}
<1>1. \A s \in Times : IsFiniteSet(At(s)) /\ due[s] = Cardinality(At(s)) /\ due[s] \in Nat
  BY FS_Subset DEF Typed, Clock, IndexAgrees
<1>2. \A s \in Times : due[s] > 0 <=> At(s) # {}
  <2> SUFFICES ASSUME NEW s \in Times
               PROVE  due[s] > 0 <=> At(s) # {}
    OBVIOUS
  <2> HIDE DEF At
  <2>1. Cardinality(At(s)) = 0 <=> At(s) = {}
    BY <1>1, FS_EmptySet
  <2>2. QED
    BY <1>1, <2>1
<1>3. PICK d \in queue : d.at = t
  BY <1>2
<1>4. PICK c \in queue : First(c)
  BY <1>3, HeapHasFirst DEF Clock
<1>5. c.at \in Times /\ \A s \in Times : s \in Int
  BY EngineConstants DEF Typed, Command, Times
<1>6. t <= c.at
  BY <1>2, <1>5
<1>7. c.at <= t
  BY <1>3, <1>4, <1>5 DEF First, Before, Typed, Command
<1>8. QED
  BY <1>4, <1>5, <1>6, <1>7

(* The command that is first goes before all that wait, and everything
   delivered earlier that it waited beside goes before it. *)
LEMMA DispatchClock ==
  ASSUME Typed, Clock, NEW c \in queue, First(c), Dispatch(c),
         due' = [due EXCEPT ![c.at] = @ - 1], UNCHANGED sequence
  PROVE  /\ Clock'
         /\ now' \in Times /\ now <= now'
         /\ sequence' \in Nat /\ queue' \in SUBSET Command /\ IsFiniteSet(queue')
         /\ due' \in [Times -> Nat] /\ delivered' \in Seq(Delivery)
<1> DEFINE new == [command |-> c, upTo |-> sequence]
<1>1. /\ new \in Delivery /\ new.command = c /\ new.upTo = sequence
      /\ c \in Command /\ c.sequence \in Nat /\ c.sequence < sequence /\ now <= c.at
      /\ sequence \in Nat
  BY DEF Typed, Delivery, Clock, Waiting, Command
<1>2. /\ queue' = queue \ {c} /\ now' = c.at
      /\ delivered' = Append(delivered, new)
  BY DEF Dispatch
<1> HIDE DEF new
<1>3. IndexAgrees' /\ due' \in [Times -> Nat]
  BY <1>2, IndexAfterRemove DEF Clock
<1>4. /\ delivered' \in Seq(Delivery)
      /\ Len(delivered) \in Nat /\ Len(delivered') = Len(delivered) + 1
      /\ \A i \in 1..Len(delivered) : delivered'[i] = delivered[i]
      /\ delivered'[Len(delivered) + 1] = new
  BY <1>1, <1>2 DEF Typed
<1>5. now' \in Times /\ IsFiniteSet(queue')
  BY <1>1, <1>2, FS_RemoveElement DEF Typed, Command
<1>6. \A d \in queue' : Before(c, d) /\ d.sequence < sequence /\ d.at >= c.at /\ d \in queue
  <2> SUFFICES ASSUME NEW d \in queue'
               PROVE  Before(c, d) /\ d.sequence < sequence /\ d.at >= c.at /\ d \in queue
    OBVIOUS
  <2>1. d \in queue /\ Before(c, d)
    BY <1>2 DEF First
  <2>2. c.at \in Int /\ d.at \in Int
    BY <1>1, <2>1, EngineConstants DEF Typed, Command, Times
  <2>3. QED
    BY <2>1, <2>2 DEF Before, Clock, Waiting
<1>7. Waiting'
  BY <1>2, <1>6 DEF Clock, Waiting
<1>8. Deliveries'
  <2> SUFFICES ASSUME NEW i \in 1..Len(delivered')
               PROVE  /\ delivered'[i].upTo <= sequence
                      /\ delivered'[i].command.sequence < sequence
                      /\ \A d \in queue' :
                            /\ delivered'[i].command.sequence # d.sequence
                            /\ d.sequence < delivered'[i].upTo => Before(delivered'[i].command, d)
    BY DEF Deliveries, Before
  <2>1. CASE i = Len(delivered) + 1
    <3>1. \A d \in queue' : c.sequence # d.sequence
      BY <1>2 DEF Clock, Waiting
    <3>2. QED
      BY <1>1, <1>4, <1>6, <2>1, <3>1
  <2>2. CASE i # Len(delivered) + 1
    <3>1. i \in 1..Len(delivered)
      BY <1>4, <2>2
    <3>2. QED
      BY <1>4, <1>6, <3>1 DEF Clock, Deliveries
  <2>3. QED
    BY <2>1, <2>2
<1>9. DeliveryOrder'
  <2> SUFFICES ASSUME NEW i \in 1..Len(delivered'), NEW j \in 1..Len(delivered'), i < j
               PROVE  /\ delivered'[i].command # delivered'[j].command
                      /\ delivered'[j].command.sequence < delivered'[i].upTo =>
                            Before(delivered'[i].command, delivered'[j].command)
    BY DEF DeliveryOrder, Before
  <2>1. i \in 1..Len(delivered)
    BY <1>4
  <2>2. CASE j = Len(delivered) + 1
    BY <1>1, <1>4, <2>1, <2>2 DEF Clock, Deliveries
  <2>3. CASE j # Len(delivered) + 1
    <3>1. j \in 1..Len(delivered)
      BY <1>4, <2>3
    <3>2. QED
      BY <1>4, <2>1, <3>1 DEF Clock, DeliveryOrder
  <2>4. QED
    BY <2>2, <2>3
<1>10. QED
  BY <1>1, <1>2, <1>3, <1>4, <1>5, <1>7, <1>8, <1>9 DEF Clock, Typed

LEMMA DeliverInv ==
  ASSUME IInv, Fixed, Deliver
  PROVE  IInv'
<1>1. PICK t \in Times :
        /\ Due(t)
        /\ \A s \in Times : due[s] > 0 => t <= s
        /\ due' = [due EXCEPT ![t] = @ - 1]
        /\ IF \E c \in queue : First(c) /\ c.at = t
           THEN \E c \in queue : First(c) /\ Dispatch(c)
           ELSE Diverge
  BY DEF Deliver
<1>2. PICK d \in queue : First(d) /\ d.at = t
  BY <1>1, HeapsAgree DEF IInv, Clock, Due
<1>3. PICK c \in queue : First(c) /\ Dispatch(c)
  BY <1>1, <1>2
<1>4. c.at = t
  <2>1. c = d \/ ~(Before(c, d) /\ Before(d, c))
    BY BeforeIsStrict DEF IInv, Typed
  <2>2. QED
    BY <1>2, <1>3, <2>1 DEF First
<1>5. UNCHANGED <<sequence, uuids, logVars, failure>> /\ pc' = "handle" /\ BeginCallback /\ ~InCallback
  BY <1>3 DEF Deliver, Dispatch, InCallback
<1>6. /\ Clock'
      /\ now' \in Times /\ now <= now'
      /\ sequence' \in Nat /\ queue' \in SUBSET Command /\ IsFiniteSet(queue')
      /\ due' \in [Times -> Nat] /\ delivered' \in Seq(Delivery)
  BY <1>1, <1>3, <1>4, <1>5, DispatchClock DEF IInv, Clock
<1>7. QED
  BY <1>5, <1>6, BeginInv

-----------------------------------------------------------------------------
(* The log's order is strict, and total on entries with different ids. *)
LEMMA EventBeforeIsStrict ==
  ASSUME Typed
  PROVE  /\ \A e, f, g \in Entry : EventBefore(e, f) /\ EventBefore(f, g) => EventBefore(e, g)
         /\ \A e, f \in Entry : e.id # f.id => EventBefore(e, f) \/ EventBefore(f, e)
<1>1. \A e \in Entry : e.time \in Int /\ e.id \in Int
  BY EngineConstants DEF Entry, EventIds, Times, Typed, ProfileType
<1>2. QED
  BY <1>1 DEF EventBefore

LEMMA BatchesAreEvents ==
  ASSUME NEW batch \in Batches
  PROVE  batch \in Seq(Events)
<1>1. \/ batch = <<>>
      \/ \E e \in Events : batch = <<e>>
      \/ \E e, f \in Events : batch = <<e, f>>
  BY DEF Batches
<1>2. \A e, f \in Events : <<e>> \in Seq(Events) /\ <<e, f>> \in Seq(Events)
  OBVIOUS
<1>3. <<>> \in Seq(Events)
  OBVIOUS
<1>4. QED
  BY <1>1, <1>2, <1>3

(* An admitted batch goes behind the whole log, in order. *)
LEMMA AppendInv ==
  ASSUME Typed, LoggedByNow, LogCanonical, NEW batch \in Seq(Events), AppendBatch(batch),
         now' = now
  PROVE  /\ events' \in Seq(Entry)
         /\ LoggedByNow' /\ LogCanonical'
         /\ \/ seen' = seen
            \/ seen' = seen \cup {batch[i].id : i \in 1..Len(batch)}
<1> USE DEF LogEntry
<1>1. CASE ~Admissible(batch)
  <2>1. UNCHANGED logVars
    BY <1>1 DEF AppendBatch
  <2>2. QED
    BY <2>1 DEF LoggedByNow, LogCanonical, EventBefore, logVars, Typed
<1>2. CASE Admissible(batch)
  <2>1. PICK sorted \in [1..Len(batch) -> [time : {now}, id : EventIds]] :
              SortedFrom(sorted, batch) /\ events' = events \o sorted
    BY <1>2 DEF AppendBatch
  <2>2. /\ Len(batch) \in Nat /\ DOMAIN batch = 1..Len(batch)
        /\ seen' = seen \cup {batch[i].id : i \in 1..Len(batch)}
    <3>1. Len(batch) \in Nat /\ DOMAIN batch = 1..Len(batch)
      BY LenProperties
    <3>2. seen' = seen \cup {batch[i].id : i \in DOMAIN batch}
      BY <1>2 DEF AppendBatch
    <3>3. QED
      BY <3>1, <3>2
  <2>3. sorted \in Seq(Entry) /\ Len(sorted) = Len(batch) /\ DOMAIN sorted = 1..Len(batch)
    <3>1. [time : {now}, id : EventIds] \subseteq Entry
      BY DEF Entry, Typed
    <3>2. sorted \in [1..Len(batch) -> Entry]
      BY <3>1
    <3>3. QED
      BY <2>2, <3>2
  <2>4. /\ Len(events) \in Nat
        /\ events' \in Seq(Entry)
        /\ Len(events') = Len(events) + Len(batch)
        /\ \A i \in 1..Len(events') :
              events'[i] = IF i <= Len(events) THEN events[i] ELSE sorted[i - Len(events)]
    BY <2>1, <2>2, <2>3, ConcatProperties DEF Typed
  <2>5. \A i \in 1..Len(batch) :
           /\ sorted[i] \in Entry /\ sorted[i].time = now
           /\ \E k \in 1..Len(batch) : sorted[i].id = batch[k].id /\ sorted[i] = LogEntry(batch[k])
    <3> SUFFICES ASSUME NEW i \in 1..Len(batch)
                 PROVE  /\ sorted[i] \in Entry /\ sorted[i].time = now
                        /\ \E k \in 1..Len(batch) :
                              sorted[i].id = batch[k].id /\ sorted[i] = LogEntry(batch[k])
      OBVIOUS
    <3>1. sorted[i] \in [time : {now}, id : EventIds]
      BY <2>1
    <3>2. sorted[i] \in {LogEntry(batch[k]) : k \in DOMAIN batch}
      BY <2>1, <2>3 DEF SortedFrom
    <3>3. PICK k \in 1..Len(batch) : sorted[i] = LogEntry(batch[k])
      BY <2>2, <3>2
    <3>4. sorted[i].id = batch[k].id
      BY <3>3
    <3>5. QED
      BY <3>1, <3>3, <3>4 DEF Entry, Typed
  <2>6. \A k \in 1..Len(batch) : \E i \in 1..Len(batch) : sorted[i].id = batch[k].id
    <3> SUFFICES ASSUME NEW k \in 1..Len(batch)
                 PROVE  \E i \in 1..Len(batch) : sorted[i].id = batch[k].id
      OBVIOUS
    <3>1. LogEntry(batch[k]) \in {sorted[i] : i \in DOMAIN sorted}
      BY <2>1, <2>2 DEF SortedFrom
    <3>2. PICK i \in 1..Len(batch) : sorted[i] = LogEntry(batch[k])
      BY <2>3, <3>1
    <3>3. QED
      BY <3>2
  <2>7. \A i \in 1..Len(events) : events[i] \in Entry /\ events[i].id \in seen /\ events[i].time <= now
    BY DEF Typed, LogCanonical, LoggedByNow
  <2>8. \A i \in 1..Len(events), j \in 1..Len(batch) : EventBefore(events[i], sorted[j])
    <3> SUFFICES ASSUME NEW i \in 1..Len(events), NEW j \in 1..Len(batch)
                 PROVE  EventBefore(events[i], sorted[j])
      OBVIOUS
    <3> DEFINE last == Len(events)
    <3>1. last \in 1..Len(events) /\ events # <<>>
      BY <2>4
    <3>2. sorted[j].id # events[last].id /\ ~EventBefore(sorted[j], events[last])
      BY <1>2, <2>2, <2>5, <2>7, <3>1 DEF Admissible, BatchOK, FollowsLog
    <3>3. EventBefore(events[last], sorted[j])
      BY <2>5, <2>7, <3>1, <3>2, EventBeforeIsStrict
    <3>4. i = last \/ EventBefore(events[i], events[last])
      BY <3>1 DEF LogCanonical
    <3>5. QED
      BY <2>5, <2>7, <3>1, <3>3, <3>4, EventBeforeIsStrict
  <2>9. \A i, j \in 1..Len(batch) : i < j => EventBefore(sorted[i], sorted[j])
    BY <2>1, <2>3 DEF SortedFrom
  <2>10. \A i, j \in 1..Len(events') : i < j => EventBefore(events'[i], events'[j])
    <3> SUFFICES ASSUME NEW i \in 1..Len(events'), NEW j \in 1..Len(events'), i < j
                 PROVE  EventBefore(events'[i], events'[j])
      OBVIOUS
    <3>1. CASE j <= Len(events)
      BY <2>4, <3>1 DEF LogCanonical
    <3>2. CASE i <= Len(events) /\ j > Len(events)
      <4>1. i \in 1..Len(events) /\ j - Len(events) \in 1..Len(batch)
        BY <2>2, <2>4, <3>2
      <4>2. QED
        BY <2>4, <2>8, <3>2, <4>1
    <3>3. CASE i > Len(events)
      <4>1. /\ i - Len(events) \in 1..Len(batch) /\ j - Len(events) \in 1..Len(batch)
            /\ i - Len(events) < j - Len(events) /\ ~(i <= Len(events)) /\ ~(j <= Len(events))
        BY <2>2, <2>4, <3>3
      <4>2. QED
        BY <2>4, <2>9, <4>1
    <3>4. QED
      BY <2>4, <3>1, <3>2, <3>3
  <2>11. seen' = {events'[i].id : i \in 1..Len(events')}
    <3>1. ASSUME NEW i \in 1..Len(events')
          PROVE  events'[i].id \in seen'
      <4>1. CASE i <= Len(events)
        BY <2>2, <2>4, <2>7, <4>1
      <4>2. CASE i > Len(events)
        <5>1. i - Len(events) \in 1..Len(batch) /\ events'[i] = sorted[i - Len(events)]
          BY <2>2, <2>4, <4>2
        <5>2. QED
          BY <2>2, <2>5, <5>1
      <4>3. QED
        BY <2>4, <4>1, <4>2
    <3>2. ASSUME NEW id \in seen'
          PROVE  \E i \in 1..Len(events') : events'[i].id = id
      <4>1. CASE id \in seen
        <5>1. PICK i \in 1..Len(events) : events[i].id = id
          BY <4>1 DEF LogCanonical
        <5>2. i \in 1..Len(events') /\ events'[i] = events[i]
          BY <2>2, <2>4
        <5>3. QED
          BY <5>1, <5>2
      <4>2. CASE id \notin seen
        <5>1. PICK k \in 1..Len(batch) : batch[k].id = id
          BY <2>2, <4>2
        <5>2. PICK i \in 1..Len(batch) : sorted[i].id = id
          BY <2>6, <5>1
        <5>3. /\ Len(events) + i \in 1..Len(events') /\ ~(Len(events) + i <= Len(events))
              /\ Len(events) + i - Len(events) = i
          BY <2>2, <2>4
        <5>4. events'[Len(events) + i] = sorted[i]
          BY <2>4, <5>3
        <5>5. QED
          BY <5>2, <5>3, <5>4
      <4>3. QED
        BY <4>1, <4>2
    <3>3. QED
      BY <3>1, <3>2
  <2>12. LoggedByNow'
    <3> SUFFICES ASSUME NEW i \in 1..Len(events')
                 PROVE  events'[i].time <= now
      BY DEF LoggedByNow
    <3>1. CASE i <= Len(events)
      BY <2>4, <2>7, <3>1
    <3>2. CASE i > Len(events)
      <4>1. i - Len(events) \in 1..Len(batch) /\ events'[i] = sorted[i - Len(events)]
        BY <2>2, <2>4, <3>2
      <4>2. now <= now
        BY EngineConstants DEF Typed, Times
      <4>3. QED
        BY <2>5, <4>1, <4>2
    <3>3. QED
      BY <2>4, <3>1, <3>2
  <2>13. LogCanonical'
    BY <2>10, <2>11 DEF LogCanonical, EventBefore
  <2>14. QED
    BY <2>2, <2>4, <2>12, <2>13
<1>3. QED
  BY <1>1, <1>2

-----------------------------------------------------------------------------
(* What the log's parts look like, and what an honest caller's batch is: fresh
   ids, above everything logged, stamped with the current time. *)
Fresh(batch) ==
    \A i \in 1..Len(batch) :
        /\ batch[i].sameRail
        /\ batch[i].time = now
        /\ batch[i].id \in 0..(profile.uuidLimit - 1)
        /\ \A s \in seen : s < batch[i].id
        /\ \A j \in 1..Len(batch) : batch[i].id = batch[j].id => i = j

LEMMA FreshAdmissible ==
  ASSUME IInv, Honest, NEW batch \in Seq(Events), Fresh(batch)
  PROVE  Admissible(batch)
<1>1. Len(batch) \in Nat /\ DOMAIN batch = 1..Len(batch)
  BY LenProperties
<1>2. \A i \in 1..Len(batch) : batch[i].id \notin seen
  <2>1. \A s \in seen : s \in Int
    BY DEF IInv, MintedAbove
  <2>2. QED
    BY <2>1 DEF Fresh
<1>3. BatchOK(batch)
  BY <1>1, <1>2 DEF Fresh, BatchOK
<1>4. FollowsLog(batch)
  <2> SUFFICES ASSUME events # <<>>, NEW i \in 1..Len(batch)
               PROVE  ~EventBefore(LogEntry(batch[i]), events[Len(events)])
    BY <1>1 DEF FollowsLog
  <2> DEFINE last == events[Len(events)]
  <2>1. Len(events) \in 1..Len(events)
    BY EmptySeq DEF IInv, Typed
  <2>2. last \in Entry /\ last.time <= now /\ last.id \in seen
    BY <2>1 DEF IInv, Typed, LoggedByNow, LogCanonical
  <2>3. /\ LogEntry(batch[i]).time = now /\ last.id < LogEntry(batch[i]).id
        /\ LogEntry(batch[i]).id \in Int
    BY <2>2 DEF Fresh, LogEntry
  <2>4. last.time \in Int /\ now \in Int /\ last.id \in Int
    <3>1. now \in Times
      BY DEF IInv, Typed
    <3>2. last.time \in Times /\ last.id \in EventIds
      BY <2>2 DEF Entry
    <3> HIDE DEF last
    <3> QED  BY <3>1, <3>2 DEF Times, EventIds
  <2>5. QED
    BY <2>2, <2>3, <2>4 DEF EventBefore
<1>5. QED
  BY <1>3, <1>4 DEF Admissible

(* emit(): the owner's event of its own. *)
LEMMA EmitInv ==
  ASSUME IInv, Fixed, NEW event \in Events, Emit(event)
  PROVE  IInv'
<1>1. <<event>> \in Seq(Events) /\ Len(<<event>>) = 1 /\ <<event>>[1] = event
  OBVIOUS
<1>2. /\ AppendBatch(<<event>>) /\ ~InCallback
      /\ UNCHANGED <<clockVars, pc, callVars, delivered>>
  BY DEF Emit, InCallback
<1>3. /\ events' \in Seq(Entry)
      /\ LoggedByNow' /\ LogCanonical'
      /\ seen' = seen \/ seen' = seen \cup {<<event>>[i].id : i \in 1..Len(<<event>>)}
  BY <1>1, <1>2, AppendInv DEF IInv, clockVars
<1>4. seen' = seen \/ seen' = seen \cup {event.id}
  BY <1>1, <1>3
<1>5. \/ UNCHANGED uuids /\ ~Honest
      \/ /\ Honest /\ uuids < profile.uuidLimit /\ uuids' = uuids + 1
         /\ event = [id |-> uuids, time |-> now, sameRail |-> TRUE]
  BY DEF Emit
<1>6. uuids \in Nat /\ uuids' \in 0..profile.uuidLimit /\ profile.uuidLimit \in Nat
  BY <1>5 DEF IInv, Typed, ProfileType
<1>7. Clock'
  BY <1>2, ClockFrame DEF IInv, Clock
<1>8. Typed'
  BY <1>2, <1>3, <1>6 DEF IInv, Typed, Fixed, Entry, EventIds, clockVars, callVars
<1>9. minted = {} /\ minted' = {}
  BY <1>2 DEF IInv, Scoped, callVars
<1>10. MintedAbove'
  BY <1>4, <1>5, <1>6, <1>9 DEF IInv, MintedAbove, Honest, Fixed
<1>11. Scoped'
  BY <1>2 DEF IInv, Scoped, InCallback, callVars
<1>12. Honest => Admissible(<<event>>)
  <2> SUFFICES ASSUME Honest
               PROVE  Fresh(<<event>>)
    BY <1>1, FreshAdmissible
  <2>1. /\ event.id = uuids /\ event.time = now /\ event.sameRail
        /\ uuids \in 0..(profile.uuidLimit - 1)
    BY <1>5, <1>6
  <2>2. \A s \in seen : s < uuids
    BY <1>6 DEF IInv, MintedAbove
  <2>3. QED
    BY <1>1, <2>1, <2>2 DEF Fresh
<1>13. HonestNeverRefused' /\ NeverDiverged'
  BY <1>2, <1>12
     DEF IInv, HonestNeverRefused, NeverDiverged, AppendBatch, MarkFailed, Honest, Fixed
<1>14. QED
  BY <1>3, <1>7, <1>8, <1>10, <1>11, <1>13 DEF IInv, Clock

(* However a callback ends, its scope and its ids are gone. *)
LEMMA EndInv ==
  ASSUME IInv, Fixed, EndCallback, pc' \in {"idle", "loop"},
         UNCHANGED <<clockVars, uuids, delivered>>,
         events' \in Seq(Entry), LoggedByNow', LogCanonical',
         Honest => seen' \subseteq 0..(uuids - 1),
         HonestNeverRefused', NeverDiverged'
  PROVE  IInv'
<1>1. Clock'
  BY ClockFrame DEF IInv, Clock
<1>2. Typed'
  BY DEF IInv, Typed, Fixed, Entry, EventIds, clockVars, EndCallback
<1>3. MintedAbove'
  BY DEF MintedAbove, EndCallback, Honest, Fixed
<1>4. Scoped'
  BY DEF IInv, Scoped, EndCallback, InCallback
<1>5. QED
  BY <1>1, <1>2, <1>3, <1>4 DEF IInv, Clock

LEMMA InitializeReturnsInv ==
  ASSUME IInv, Fixed, InitializeReturns
  PROVE  IInv'
<1>1. /\ EndCallback /\ pc' = "loop"
      /\ UNCHANGED <<clockVars, uuids, logVars, failure, delivered>>
  BY DEF InitializeReturns
<1>2. events' \in Seq(Entry) /\ LoggedByNow' /\ LogCanonical' /\ seen' = seen
  BY <1>1 DEF IInv, Typed, LoggedByNow, LogCanonical, EventBefore, logVars, clockVars
<1>3. HonestNeverRefused' /\ NeverDiverged'
  BY <1>1 DEF IInv, HonestNeverRefused, NeverDiverged, Honest, Fixed
<1>4. QED
  BY <1>1, <1>2, <1>3, EndInv DEF IInv, MintedAbove

LEMMA CallbackRaisesInv ==
  ASSUME IInv, Fixed, CallbackRaises
  PROVE  IInv'
<1>1. /\ EndCallback /\ pc' = "idle" /\ (failure' = failure \/ failure' = "raised")
      /\ UNCHANGED <<clockVars, uuids, logVars, delivered>>
  BY DEF CallbackRaises, MarkFailed
<1>2. events' \in Seq(Entry) /\ LoggedByNow' /\ LogCanonical' /\ seen' = seen
  BY <1>1 DEF IInv, Typed, LoggedByNow, LogCanonical, EventBefore, logVars, clockVars
<1>3. HonestNeverRefused' /\ NeverDiverged'
  BY <1>1 DEF IInv, HonestNeverRefused, NeverDiverged, Honest, Fixed
<1>4. QED
  BY <1>1, <1>2, <1>3, EndInv DEF IInv, MintedAbove

LEMMA HandleReturnsInv ==
  ASSUME IInv, Fixed, NEW batch \in Batches, HandleReturns(batch)
  PROVE  IInv'
<1>1. /\ EndCallback /\ pc' \in {"idle", "loop"} /\ AppendBatch(batch)
      /\ UNCHANGED <<clockVars, uuids, delivered>>
  BY DEF HandleReturns
<1>2. batch \in Seq(Events) /\ Len(batch) \in Nat /\ DOMAIN batch = 1..Len(batch)
  BY BatchesAreEvents, LenProperties
<1>3. /\ events' \in Seq(Entry)
      /\ LoggedByNow' /\ LogCanonical'
      /\ seen' = seen \/ seen' = seen \cup {batch[i].id : i \in 1..Len(batch)}
  BY <1>1, <1>2, AppendInv DEF IInv, clockVars
<1>4. Honest => \A i \in 1..Len(batch) :
         /\ batch[i].id \in minted /\ batch[i].time = now /\ batch[i].sameRail
         /\ \A j \in 1..Len(batch) : batch[i].id = batch[j].id => i = j
  BY <1>2 DEF Batches
<1>5. Honest => seen' \subseteq 0..(uuids - 1)
  BY <1>3, <1>4 DEF IInv, MintedAbove
<1>6. Honest => Admissible(batch)
  <2> SUFFICES ASSUME Honest
               PROVE  Fresh(batch)
    BY <1>2, FreshAdmissible
  <2>1. minted \subseteq 0..(profile.uuidLimit - 1)
    BY DEF IInv, MintedAbove, Typed, ProfileType
  <2>2. QED
    BY <1>4, <2>1 DEF Fresh, IInv, MintedAbove
<1>7. HonestNeverRefused' /\ NeverDiverged'
  BY <1>1, <1>6 DEF IInv, HonestNeverRefused, NeverDiverged, AppendBatch, MarkFailed, Honest, Fixed
<1>8. QED
  BY <1>1, <1>3, <1>5, <1>7, EndInv

-----------------------------------------------------------------------------
(* What a context is asked for, by its own callback or later while one runs. *)
LEMMA ContextCallInv ==
  ASSUME IInv, Fixed, InCallback, ContextCall
  PROVE  IInv'
<1>1. ASSUME NEW at \in Times, NEW p \in profile.priorities, Schedule(at, p)
      PROVE  IInv'
  BY <1>1, ScheduleInv
<1>2. ASSUME NEW ok \in BOOLEAN, LedgerPost(ok) \/ SetEntityState(ok)
      PROVE  IInv'
  BY <1>2, LedgerPostInv, SetEntityStateInv
<1>3. QED
  BY <1>1, <1>2, NewUuidInv DEF ContextCall

LEMMA InitIInv ==
  ASSUME EngineInit
  PROVE  IInv
<1>1. profile \in ProfileType /\ 0 \in Times /\ IsFiniteSet({})
  BY EngineConstants, FS_EmptySet DEF EngineInit, Times
<1>2. events = <<>> /\ delivered = <<>> /\ Len(events) = 0 /\ Len(delivered) = 0
  BY DEF EngineInit
<1>3. Typed
  BY <1>1, <1>2 DEF EngineInit, Typed, ProfileType
<1>4. IndexAgrees
  <2>1. \A t \in Times : {c \in queue : c.at = t} = {}
    BY DEF EngineInit
  <2>2. QED
    BY <2>1, FS_EmptySet DEF EngineInit, IndexAgrees
<1>5. Waiting /\ Deliveries /\ DeliveryOrder /\ LoggedByNow /\ LogCanonical
  BY <1>2 DEF EngineInit, Waiting, Deliveries, DeliveryOrder, LoggedByNow, LogCanonical
<1>6. MintedAbove /\ Scoped /\ HonestNeverRefused /\ NeverDiverged
  BY DEF EngineInit, MintedAbove, Scoped, HonestNeverRefused, NeverDiverged
<1>7. QED
  BY <1>3, <1>4, <1>5, <1>6 DEF IInv

LEMMA StepIInv ==
  ASSUME IInv, [EngineNext]_engineVars
  PROVE  IInv'
<1>1. CASE UNCHANGED engineVars
  <2>1. /\ Fixed /\ failure' = failure
        /\ UNCHANGED <<clockVars, uuids, logVars, pc, minted, invocations, scopes, delivered>>
    BY <1>1 DEF engineVars, Fixed, callVars
  <2>2. QED
    BY <2>1, QuietInv
<1>2. CASE EngineNext
  <2> Fixed
    BY <1>2 DEF EngineNext, Fixed
  <2>1. CASE Owner
    <3>1. ASSUME NEW at \in Times, NEW p \in profile.priorities, OwnerSchedule(at, p)
          PROVE  IInv'
      BY <3>1, ScheduleInv DEF OwnerSchedule
    <3>2. ASSUME NEW ok \in BOOLEAN, OwnerPost(ok)
          PROVE  IInv'
      BY <3>2, LedgerPostInv DEF OwnerPost
    <3>3. ASSUME NEW cutoff, RunUnsupported(cutoff)
          PROVE  IInv'
      <4>1. failure' = failure \/ failure' = "adapter"
        BY <3>3 DEF RunUnsupported, MarkFailed
      <4>2. QED
        BY <3>3, <4>1, QuietInv DEF RunUnsupported, callVars
    <3>4. ASSUME NEW cutoff, RunResume(cutoff)
          PROVE  IInv'
      BY <3>4, MoveInv DEF RunResume, InCallback
    <3>5. QED
      BY <2>1, <3>1, <3>2, <3>3, <3>4, EmitInv, RunInitializeInv DEF Owner
  <2>2. CASE Loop
    <3>1. CASE RunReturns
      BY <3>1, MoveInv DEF RunReturns, InCallback
    <3>2. QED
      BY <2>2, <3>1, DeliverInv DEF Loop
  <2>3. CASE Adapter
    BY <2>3, ContextCallInv, QuietInv DEF Adapter, CopyContext
  <2>4. CASE LateCall
    BY <2>4, ContextCallInv DEF LateCall, IInv, Scoped
  <2>5. CASE CallbackEnds
    BY <2>5, InitializeReturnsInv, HandleReturnsInv, CallbackRaisesInv DEF CallbackEnds
  <2>6. QED
    BY <1>2, <2>1, <2>2, <2>3, <2>4, <2>5 DEF EngineNext
<1>3. QED
  BY <1>1, <1>2

LEMMA EngineInvariant == EngineSpec => []IInv
<1>1. EngineInit => IInv
  BY InitIInv
<1>2. IInv /\ [EngineNext]_engineVars => IInv'
  BY StepIInv
<1>3. QED
  BY <1>1, <1>2, PTL DEF EngineSpec

(* The two heaps of run() and of the clock agree, whatever is scheduled, by
   whom, refused or not: the "queue diverged" failure cannot happen. *)
THEOREM IndexAlwaysAgrees == EngineSpec => [](IndexAgrees /\ NeverDiverged)
<1>1. IInv => IndexAgrees /\ NeverDiverged
  BY DEF IInv
<1>2. QED
  BY <1>1, EngineInvariant, PTL

(* Of two commands that wait at the same time, the one that is first by time,
   priority and insertion goes first, and none is delivered twice. *)
THEOREM DeliveryAlwaysInOrder == EngineSpec => []DeliveryOrder
<1>1. IInv => DeliveryOrder
  BY DEF IInv
<1>2. QED
  BY <1>1, EngineInvariant, PTL

(* Every batch, of the owner or of a callback, keeps the log in the replay
   manifest's order and its ids unique. *)
THEOREM LogAlwaysCanonical == EngineSpec => []LogCanonical
<1>1. IInv => LogCanonical
  BY DEF IInv
<1>2. QED
  BY <1>1, EngineInvariant, PTL

(* Ids counted up make the honest adapters' batches acceptable: no refusal for
   a duplicate or for the order, at any instant, however many callbacks share
   it. *)
THEOREM HonestAlwaysAccepted == EngineSpec => []HonestNeverRefused
<1>1. IInv => HonestNeverRefused
  BY DEF IInv
<1>2. QED
  BY <1>1, EngineInvariant, PTL

(* No call of any kind through a context whose callback is over is obeyed, and
   a failed engine does nothing more.  The invariant that carries it: outside a
   callback no scope resolves, in it only the running callback's own (Scoped). *)
THEOREM ContextsAreDisciplined == EngineSpec => ContextDiscipline
<1> DEFINE Silent == outlived = {}
<1>1. ASSUME IInv, Silent, EngineNext
      PROVE  /\ FailureIsTerminal
             /\ writes' # writes => InCallback
             /\ outlived' = {}
  <2>1. LateCall => InCallback /\ ContextCall /\ outlived' = outlived
    BY <1>1 DEF LateCall, IInv, Scoped
  <2>2. writes' # writes => InCallback
    <3>1. Owner \/ Loop \/ CallbackEnds => writes' = writes
      BY DEF Owner, OwnerSchedule, Schedule, OwnerPost, LedgerPost, Emit, RunUnsupported,
             RunInitialize, RunResume, Loop, Deliver, RunReturns, CallbackEnds,
             InitializeReturns, HandleReturns, CallbackRaises
    <3>2. Adapter => InCallback
      BY DEF Adapter, CopyContext
    <3>3. QED
      BY <1>1, <2>1, <3>1, <3>2 DEF EngineNext
  <2>3. FailureIsTerminal
    <3> SUFFICES ASSUME ~Healthy
                 PROVE  /\ failure' = failure
                        /\ UNCHANGED <<posts, writes, sequence, uuids>> /\ pc # "idle"
      BY DEF FailureIsTerminal
    <3>1. ~Owner /\ ~ContextCall
      BY DEF Owner, OwnerSchedule, Schedule, OwnerPost, LedgerPost, Emit, RunUnsupported,
             RunInitialize, RunResume, ContextCall, SetEntityState, NewUuid
    <3>2. CASE Loop
      BY <3>2 DEF Loop, Deliver, Dispatch, Diverge, MarkFailed, RunReturns, clockVars
    <3>3. CASE Adapter
      BY <3>1, <3>3 DEF Adapter, CopyContext, InCallback, clockVars
    <3>4. CASE CallbackEnds
      BY <3>4 DEF CallbackEnds, InitializeReturns, HandleReturns, CallbackRaises, AppendBatch,
                  MarkFailed, InCallback, clockVars
    <3>5. QED
      BY <1>1, <2>1, <3>1, <3>2, <3>3, <3>4 DEF EngineNext
  <2>4. outlived' = {}
    BY <1>1, <2>1 DEF EngineNext
  <2>5. QED
    BY <2>2, <2>3, <2>4
<1>2. IInv /\ Silent /\ [EngineNext]_engineVars => Silent'
  BY <1>1 DEF engineVars
<1>3. IInv /\ Silent /\ [EngineNext]_engineVars =>
         [/\ FailureIsTerminal
          /\ writes' # writes => InCallback
          /\ outlived' = {}]_engineVars
  BY <1>1
<1>4. EngineInit => Silent
  BY DEF EngineInit
<1>5. QED
  BY <1>2, <1>3, <1>4, EngineInvariant, PTL DEF EngineSpec, ContextDiscipline
=============================================================================
