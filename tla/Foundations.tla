----------------------------- MODULE Foundations -----------------------------
(***************************************************************************)
(* What several proofs need: induction, positions in sequences, sums over   *)
(* finite sets, and sorted sets.                                            *)
(*                                                                          *)
(* A predicate cannot be handed to a lemma, so induction is stated for the  *)
(* set of the things that have it.                                          *)
(***************************************************************************)
EXTENDS Places, Sequences, Functions, FiniteSetTheorems, SequenceTheorems,
        WellFoundedInduction, TLAPS

(* A set of naturals that is not empty has a least element. *)
LEMMA LeastNat ==
    ASSUME NEW T \in SUBSET Nat, T # {}
    PROVE  \E n \in T : \A m \in T : n <= m
<1> DEFINE Less == {pair \in Nat \X Nat : pair[1] < pair[2]}
<1>1. IsWellFoundedOn(Less, Nat)
  <2>1. OpToRel(<, Nat) = Less
    BY DEF OpToRel
  <2> QED  BY <2>1, NatLessThanWellFounded
<1>2. \A m, n \in T : m < n => <<m, n>> \in Less
  OBVIOUS
<1> HIDE DEF Less
<1>3. PICK n \in T : \A m \in T : <<m, n>> \notin Less
  BY <1>1, WFMin
<1>4. \A m \in T : ~(m < n)
  BY <1>2, <1>3, Zenon
<1> QED  BY <1>4

LEMMA UpwardInduction ==
    ASSUME NEW G, 0 \in G, \A n \in Nat : n \in G => n + 1 \in G
    PROVE  Nat \subseteq G
<1> DEFINE T == Nat \ G
<1>1. SUFFICES ASSUME T # {}
               PROVE  FALSE
  OBVIOUS
<1>2. PICK n \in T : \A m \in T : n <= m
  <2>1. T \in SUBSET Nat
    OBVIOUS
  <2> HIDE DEF T
  <2> QED  BY <1>1, <2>1, LeastNat
<1>3. n # 0 /\ n - 1 \in Nat /\ n - 1 \notin T
  BY <1>2
<1>4. (n - 1) + 1 \in G
  BY <1>3
<1> QED  BY <1>2, <1>4

(* A property of the empty set that is kept when an element is added is one of
   every finite set. *)
LEMMA SetInduction ==
    ASSUME NEW D, IsFiniteSet(D), NEW G, {} \in G,
           \A s \in SUBSET D : s \in G => \A x \in D \ s : s \cup {x} \in G
    PROVE  D \in G
<1> DEFINE Sized == {n \in Nat : \A s \in SUBSET D : Cardinality(s) = n => s \in G}
<1>1. \A s \in SUBSET D : IsFiniteSet(s) /\ Cardinality(s) \in Nat
  BY FS_Subset, FS_CardinalityType
<1>2. 0 \in Sized
  BY <1>1, FS_EmptySet
<1>3. ASSUME NEW n \in Nat, n \in Sized
      PROVE  n + 1 \in Sized
  <2> SUFFICES ASSUME NEW s \in SUBSET D, Cardinality(s) = n + 1
               PROVE  s \in G
    OBVIOUS
  <2>1. s # {}
    BY <1>1, FS_EmptySet
  <2>2. PICK x \in s : TRUE
    BY <2>1
  <2>3. Cardinality(s \ {x}) = n
    <3>1. IsFiniteSet(s) /\ x \in s
      BY <1>1
    <3>2. Cardinality(s \ {x}) = Cardinality(s) - 1
      BY <3>1, FS_RemoveElement
    <3> QED  BY <3>2
  <2>4. s \ {x} \in G
    BY <1>3, <2>3
  <2>5. (s \ {x}) \cup {x} = s /\ x \in D \ (s \ {x})
    OBVIOUS
  <2> QED  BY <2>4, <2>5
<1> HIDE DEF Sized
<1>4. Nat \subseteq Sized
  BY <1>2, <1>3, UpwardInduction
<1> QED  BY <1>1, <1>4 DEF Sized

(* A non-empty set of positions has a last one. *)
LEMMA LastPosition ==
    ASSUME NEW n \in Nat, NEW S, S \subseteq 1..n, S # {}
    PROVE  \E i \in S : \A j \in S : j <= i
<1> DEFINE T == {n - i : i \in S}
<1>1. T \in SUBSET Nat /\ T # {}
  <2>1. \A i \in S : n - i \in Nat
    OBVIOUS
  <2> QED  BY <2>1, Zenon
<1>2. PICK k \in T : \A l \in T : k <= l
  <2> HIDE DEF T
  <2> QED  BY <1>1, LeastNat
<1>3. PICK i \in S : k = n - i
  BY <1>2
<1>4. \A j \in S : j <= i
  BY <1>2, <1>3
<1> QED  BY <1>4

(* A position behind all picked ones takes the next place and leaves those of
   the others. *)
LEMMA NextPlace ==
    ASSUME NEW n \in Nat, NEW S, S \subseteq 1..n
    PROVE  /\ Cardinality(S) \in Nat
           /\ Cardinality(S \cup {n + 1}) = Cardinality(S) + 1
           /\ Place(S \cup {n + 1}, n + 1) = Cardinality(S) + 1
           /\ \A i \in S : /\ Place(S \cup {n + 1}, i) = Place(S, i)
                           /\ Place(S, i) \in 1..Cardinality(S)
<1>0. \A j \in S : j \in 1..n /\ j <= n + 1 /\ j # n + 1
  OBVIOUS
<1>1. IsFiniteSet(S)
  <2>1. IsFiniteSet(1..n)
    BY FS_Interval
  <2> QED  BY <2>1, FS_Subset
<1>2. Cardinality(S) \in Nat /\ Cardinality(S \cup {n + 1}) = Cardinality(S) + 1
  BY <1>0, <1>1, FS_CardinalityType, FS_AddElement
<1>3. {j \in S \cup {n + 1} : j <= n + 1} = S \cup {n + 1}
  <2>1. \A j \in S \cup {n + 1} : j <= n + 1
    BY <1>0
  <2> QED  BY <2>1, Zenon
<1>4. ASSUME NEW i \in S
      PROVE  /\ Place(S \cup {n + 1}, i) = Place(S, i)
             /\ Place(S, i) \in 1..Cardinality(S)
  <2> DEFINE B == {j \in S : j <= i}
  <2>1. {j \in S \cup {n + 1} : j <= i} = B
    OBVIOUS
  <2>2. B \subseteq S /\ i \in B
    OBVIOUS
  <2> HIDE DEF B
  <2>3. IsFiniteSet(B) /\ Cardinality(B) \in Nat /\ Cardinality(B) <= Cardinality(S)
    BY <1>1, <2>2, FS_Subset, FS_CardinalityType
  <2>4. Cardinality(B) # 0
    BY <2>2, <2>3, FS_EmptySet
  <2>5. Place(S \cup {n + 1}, i) = Cardinality(B)
    BY <2>1 DEF Place
  <2>6. Place(S, i) = Cardinality(B)
    BY DEF Place, B
  <2> QED  BY <1>2, <2>3, <2>4, <2>5, <2>6
<1> QED  BY <1>2, <1>3, <1>4 DEF Place

(* A sequence, of whatever. *)
IsSequence(s) == \E S : s \in Seq(S)

LEMMA EmptyIsSequence == IsSequence(<<>>)
  BY EmptySeq DEF IsSequence

(* What Append does to it. *)
LEMMA Extended ==
    ASSUME NEW s, IsSequence(s), NEW x
    PROVE  /\ Len(s) \in Nat /\ DOMAIN s = 1..Len(s)
           /\ IsSequence(Append(s, x))
           /\ Len(Append(s, x)) = Len(s) + 1
           /\ DOMAIN Append(s, x) = 1..(Len(s) + 1)
           /\ Append(s, x)[Len(s) + 1] = x
           /\ \A i \in 1..Len(s) : Append(s, x)[i] = s[i]
<1>1. PICK S : s \in Seq(S)
  BY DEF IsSequence
<1>2. s \in Seq(S \cup {x}) /\ x \in S \cup {x}
  <2>1. \A i \in 1..Len(s) : s[i] \in S \cup {x}
    BY <1>1, ElementOfSeq
  <2> QED  BY <1>1, <2>1, SeqDef
<1>3. /\ Append(s, x) \in Seq(S \cup {x}) /\ Len(Append(s, x)) = Len(s) + 1
      /\ \A i \in 1..Len(s) : Append(s, x)[i] = s[i]
      /\ Append(s, x)[Len(s) + 1] = x
  BY <1>2, AppendProperties
<1>4. /\ Len(s) \in Nat /\ DOMAIN s = 1..Len(s)
      /\ DOMAIN Append(s, x) = 1..Len(Append(s, x))
  BY <1>1, <1>3, LenProperties
<1> QED  BY <1>3, <1>4 DEF IsSequence

-----------------------------------------------------------------------------
(* SUMS OVER FINITE SETS.  The community module's sum picks the elements in
   some order of its own. *)
Picked(s) == CHOOSE x \in s : TRUE

Summing(f, D, g) ==
    g = [s \in SUBSET D |-> IF s = {} THEN 0 ELSE f[Picked(s)] + g[s \ {Picked(s)}]]

SumOf(f, D) == CHOOSE g : Summing(f, D, g)

LEMMA SumUnfolds ==
    ASSUME NEW f, NEW D
    PROVE  SumFunctionOnSet(f, D) = SumOf(f, D)[D]
BY DEF SumFunctionOnSet, FoldFunctionOnSet, MapThenFoldSet, SumOf, Summing, Picked

(* There is such a function: one for the sets of up to n elements, and one
   element more in each step. *)
Partly(f, D, n, h) ==
    /\ h \in [{s \in SUBSET D : Cardinality(s) <= n} -> Int]
    /\ \A s \in DOMAIN h : h[s] = IF s = {} THEN 0 ELSE f[Picked(s)] + h[s \ {Picked(s)}]

LEMMA PickedLess ==
    ASSUME NEW D, IsFiniteSet(D), NEW s \in SUBSET D, s # {}
    PROVE  /\ Picked(s) \in s
           /\ s \ {Picked(s)} \in SUBSET D
           /\ Cardinality(s) \in Nat
           /\ Cardinality(s \ {Picked(s)}) = Cardinality(s) - 1
<1>1. Picked(s) \in s
  BY DEF Picked
<1>2. IsFiniteSet(s)
  BY FS_Subset
<1> QED  BY <1>1, <1>2, FS_RemoveElement, FS_CardinalityType

LEMMA PartlySummed ==
    ASSUME NEW D, IsFiniteSet(D), NEW f, \A x \in D : f[x] \in Int
    PROVE  \A n \in Nat : \E h : Partly(f, D, n, h)
<1> DEFINE G == {n \in Nat : \E h : Partly(f, D, n, h)}
           Small(n) == {s \in SUBSET D : Cardinality(s) <= n}
<1>1. 0 \in G
  <2> DEFINE h == [s \in Small(0) |-> 0]
  <2>1. \A s \in Small(0) : s = {}
    <3> SUFFICES ASSUME NEW s \in SUBSET D, Cardinality(s) <= 0, s # {}
                 PROVE  FALSE
      OBVIOUS
    <3>1. IsFiniteSet(s)
      BY FS_Subset
    <3> QED  BY <3>1, FS_EmptySet, FS_CardinalityType
  <2>2. Partly(f, D, 0, h)
    BY <2>1 DEF Partly
  <2> QED  BY <2>2
<1>2. ASSUME NEW n \in Nat, n \in G
      PROVE  n + 1 \in G
  <2>1. PICK h : Partly(f, D, n, h)
    BY <1>2
  <2> DEFINE k == [s \in Small(n + 1) |-> IF s = {} THEN 0 ELSE f[Picked(s)] + h[s \ {Picked(s)}]]
  <2>2. \A s \in Small(n + 1) : s # {} => s \ {Picked(s)} \in Small(n) /\ Picked(s) \in D
    BY PickedLess
  <2>3. k \in [Small(n + 1) -> Int]
    BY <2>1, <2>2 DEF Partly
  <2>4. \A s \in Small(n) : s \in Small(n + 1) /\ k[s] = h[s]
    <3>1. \A s \in Small(n) : s \in Small(n + 1)
      <4>1. \A s \in SUBSET D : Cardinality(s) \in Nat
        BY FS_Subset, FS_CardinalityType
      <4> QED  BY <4>1
    <3> QED  BY <2>1, <3>1 DEF Partly
  <2>5. \A s \in Small(n + 1) : k[s] = IF s = {} THEN 0 ELSE f[Picked(s)] + k[s \ {Picked(s)}]
    BY <2>2, <2>4
  <2> HIDE DEF k
  <2>6. Partly(f, D, n + 1, k)
    BY <2>3, <2>5 DEF Partly
  <2> QED  BY <2>6
<1> HIDE DEF G
<1>3. Nat \subseteq G
  BY <1>1, <1>2, UpwardInduction
<1> QED  BY <1>3 DEF G

LEMMA SumExists ==
    ASSUME NEW D, IsFiniteSet(D), NEW f, \A x \in D : f[x] \in Int
    PROVE  /\ SumOf(f, D) \in [SUBSET D -> Int]
           /\ \A s \in SUBSET D :
                 SumOf(f, D)[s] = IF s = {} THEN 0 ELSE f[Picked(s)] + SumOf(f, D)[s \ {Picked(s)}]
<1>1. Cardinality(D) \in Nat
  BY FS_CardinalityType
<1>2. PICK h : Partly(f, D, Cardinality(D), h)
  BY <1>1, PartlySummed
<1>3. {s \in SUBSET D : Cardinality(s) <= Cardinality(D)} = SUBSET D
  BY FS_Subset, FS_CardinalityType
<1>4. Summing(f, D, h)
  BY <1>2, <1>3 DEF Partly, Summing
<1>5. Summing(f, D, SumOf(f, D))
  BY <1>4 DEF SumOf
<1> DEFINE g == SumOf(f, D)
<1>6. /\ DOMAIN g = SUBSET D
      /\ \A s \in SUBSET D : g[s] = IF s = {} THEN 0 ELSE f[Picked(s)] + g[s \ {Picked(s)}]
      /\ g = [s \in SUBSET D |-> g[s]]
  BY <1>5 DEF Summing
<1> HIDE DEF g
<1> DEFINE Good == {s \in SUBSET D : g[s] \in Int}
<1>7. \A n \in Nat : \A s \in SUBSET D : Cardinality(s) = n => g[s] = h[s]
  <2> DEFINE N == {n \in Nat : \A s \in SUBSET D : Cardinality(s) = n => g[s] = h[s]}
  <2>0. \A s \in SUBSET D : h[s] = IF s = {} THEN 0 ELSE f[Picked(s)] + h[s \ {Picked(s)}]
    BY <1>2, <1>3 DEF Partly
  <2>1. 0 \in N
    <3> SUFFICES ASSUME NEW s \in SUBSET D, Cardinality(s) = 0
                 PROVE  g[s] = h[s]
      OBVIOUS
    <3>1. s = {}
      BY FS_Subset, FS_EmptySet
    <3> QED  BY <1>6, <2>0, <3>1
  <2>2. ASSUME NEW n \in Nat, n \in N
        PROVE  n + 1 \in N
    <3> SUFFICES ASSUME NEW s \in SUBSET D, Cardinality(s) = n + 1
                 PROVE  g[s] = h[s]
      OBVIOUS
    <3>1. s # {}
      BY FS_EmptySet
    <3>2. s \ {Picked(s)} \in SUBSET D /\ Cardinality(s \ {Picked(s)}) = n
      BY <3>1, PickedLess
    <3>3. g[s \ {Picked(s)}] = h[s \ {Picked(s)}]
      BY <2>2, <3>2
    <3> QED  BY <1>6, <2>0, <3>1, <3>3
  <2> HIDE DEF N
  <2>3. Nat \subseteq N
    BY <2>1, <2>2, UpwardInduction
  <2> QED  BY <2>3 DEF N
<1>8. \A s \in SUBSET D : Cardinality(s) \in Nat
  BY FS_Subset, FS_CardinalityType
<1>9. \A s \in SUBSET D : g[s] = h[s] /\ h[s] \in Int
  BY <1>2, <1>3, <1>7, <1>8 DEF Partly
<1>10. g \in [SUBSET D -> Int]
  BY <1>6, <1>9
<1> QED  BY <1>6, <1>10 DEF g

(* The order makes no difference. *)
LEMMA SumAnyOrder ==
    ASSUME NEW D, IsFiniteSet(D), NEW f, \A x \in D : f[x] \in Int
    PROVE  \A s \in SUBSET D : \A x \in s : SumOf(f, D)[s] = f[x] + SumOf(f, D)[s \ {x}]
<1> DEFINE g == SumOf(f, D)
<1>1. /\ g \in [SUBSET D -> Int]
      /\ \A s \in SUBSET D : s # {} => g[s] = f[Picked(s)] + g[s \ {Picked(s)}]
  BY SumExists
<1> HIDE DEF g
<1> DEFINE N == {n \in Nat : \A s \in SUBSET D : Cardinality(s) = n =>
                                \A x \in s : g[s] = f[x] + g[s \ {x}]}
<1>2. 0 \in N
  <2>1. \A s \in SUBSET D : Cardinality(s) = 0 => s = {}
    BY FS_Subset, FS_EmptySet
  <2> QED  BY <2>1
<1>3. ASSUME NEW n \in Nat, n \in N
      PROVE  n + 1 \in N
  <2> SUFFICES ASSUME NEW s \in SUBSET D, Cardinality(s) = n + 1, NEW x \in s
               PROVE  g[s] = f[x] + g[s \ {x}]
    OBVIOUS
  <2> DEFINE p == Picked(s)
  <2>1. p \in s /\ s \ {p} \in SUBSET D /\ Cardinality(s \ {p}) = n
    BY PickedLess
  <2>2. g[s] = f[p] + g[s \ {p}]
    BY <1>1
  <2> HIDE DEF p
  <2>3. CASE x = p
    BY <2>2, <2>3
  <2>4. CASE x # p
    <3>1. x \in s \ {p} /\ p \in s \ {x}
      BY <2>1, <2>4
    <3>2. s \ {x} \in SUBSET D /\ Cardinality(s \ {x}) = n
      <4>1. IsFiniteSet(s)
        BY FS_Subset
      <4>2. Cardinality(s \ {x}) = Cardinality(s) - 1
        BY <4>1, FS_RemoveElement
      <4> QED  BY <4>2
    <3> DEFINE t == (s \ {p}) \ {x}
    <3>3. (s \ {x}) \ {p} = t /\ t \in SUBSET D
      OBVIOUS
    <3>4. g[s \ {p}] = f[x] + g[t]
      BY <1>3, <2>1, <3>1
    <3>5. g[s \ {x}] = f[p] + g[t]
      BY <1>3, <3>1, <3>2, <3>3
    <3>6. g[t] \in Int /\ f[p] \in Int /\ f[x] \in Int
      BY <1>1, <2>1, <3>3
    <3> HIDE DEF t
    <3> QED  BY <2>2, <3>4, <3>5, <3>6
  <2> QED  BY <2>3, <2>4
<1> HIDE DEF N
<1>4. Nat \subseteq N
  BY <1>2, <1>3, UpwardInduction
<1>5. \A s \in SUBSET D : Cardinality(s) \in Nat
  BY FS_Subset, FS_CardinalityType
<1> QED  BY <1>4, <1>5 DEF N, g

IsSum(f, D, g) ==
    /\ g \in [SUBSET D -> Int]
    /\ g[{}] = 0
    /\ \A s \in SUBSET D : \A x \in s : g[s] = f[x] + g[s \ {x}]

LEMMA Summed ==
    ASSUME NEW D, IsFiniteSet(D), NEW f, \A x \in D : f[x] \in Int
    PROVE  IsSum(f, D, SumOf(f, D))
<1>1. {} \in SUBSET D
  OBVIOUS
<1>2. SumOf(f, D)[{}] = 0
  BY <1>1, SumExists
<1>3. SumOf(f, D) \in [SUBSET D -> Int]
  BY SumExists
<1>4. ASSUME NEW s \in SUBSET D, NEW x \in s
      PROVE  SumOf(f, D)[s] = f[x] + SumOf(f, D)[s \ {x}]
  BY SumAnyOrder
<1> QED  BY <1>2, <1>3, <1>4 DEF IsSum

(* The sum over a part is the same, whatever set it is taken from. *)
LEMMA SumOfPart ==
    ASSUME NEW D, IsFiniteSet(D), NEW f, \A x \in D : f[x] \in Int, NEW E \in SUBSET D
    PROVE  SumFunctionOnSet(f, E) = SumOf(f, D)[E]
<1>1. IsFiniteSet(E) /\ \A x \in E : f[x] \in Int
  BY FS_Subset
<1> DEFINE g == SumOf(f, D)
           k == SumOf(f, E)
           Good == {s \in SUBSET E : k[s] = g[s]}
<1>2. IsSum(f, D, g)
  BY Summed
<1>3. IsSum(f, E, k)
  BY <1>1, Summed
<1> HIDE DEF g, k
<1>4. {} \in Good
  BY <1>2, <1>3 DEF IsSum
<1>5. ASSUME NEW s \in SUBSET E, s \in Good, NEW x \in E \ s
      PROVE  s \cup {x} \in Good
  <2>1. (s \cup {x}) \ {x} = s /\ s \cup {x} \in SUBSET E /\ s \cup {x} \in SUBSET D
    OBVIOUS
  <2>2. g[s \cup {x}] = f[x] + g[s]
    BY <1>2, <2>1 DEF IsSum
  <2>3. k[s \cup {x}] = f[x] + k[s]
    BY <1>3, <2>1 DEF IsSum
  <2> QED  BY <1>5, <2>1, <2>2, <2>3
<1> HIDE DEF Good
<1>6. E \in Good
  BY <1>1, <1>4, <1>5, SetInduction
<1>7. k[E] = g[E]
  BY <1>6 DEF Good
<1> QED  BY <1>7, SumUnfolds DEF g, k

(* What the proofs about money use: a sum of integers is an integer, of nothing
   it is 0, and an element more adds its value. *)
LEMMA SumOfNothing == ASSUME NEW f PROVE SumFunctionOnSet(f, {}) = 0
<1>1. IsSum(f, {}, SumOf(f, {}))
  <2>1. IsFiniteSet({})
    BY FS_EmptySet
  <2> QED  BY <2>1, Summed
<1> QED  BY <1>1, SumUnfolds DEF IsSum

LEMMA SumIsInt ==
    ASSUME NEW D, IsFiniteSet(D), NEW f, \A x \in D : f[x] \in Int
    PROVE  SumFunctionOnSet(f, D) \in Int
<1>1. D \in SUBSET D
  OBVIOUS
<1>2. IsSum(f, D, SumOf(f, D))
  BY Summed
<1> QED  BY <1>1, <1>2, SumUnfolds DEF IsSum

LEMMA SumOneMore ==
    ASSUME NEW D, IsFiniteSet(D), NEW x, x \notin D, NEW f, \A y \in D \cup {x} : f[y] \in Int
    PROVE  SumFunctionOnSet(f, D \cup {x}) = SumFunctionOnSet(f, D) + f[x]
<1> DEFINE E == D \cup {x}
           g == SumOf(f, E)
<1>1. IsFiniteSet(E) /\ (\A y \in E : f[y] \in Int) /\ E \ {x} = D /\ x \in E
  BY FS_AddElement
<1>2. D \in SUBSET E /\ E \in SUBSET E
  OBVIOUS
<1> HIDE DEF E
<1>3. IsSum(f, E, g)
  BY <1>1, Summed
<1>4. SumFunctionOnSet(f, E) = g[E] /\ SumFunctionOnSet(f, D) = g[D]
  BY <1>1, <1>2, SumOfPart
<1> HIDE DEF g
<1>5. g[E] = f[x] + g[D]
  <2>1. g[E] = f[x] + g[E \ {x}]
    BY <1>1, <1>2, <1>3 DEF IsSum
  <2> QED  BY <1>1, <2>1
<1>6. g[D] \in Int /\ f[x] \in Int
  BY <1>1, <1>2, <1>3 DEF IsSum
<1>7. SumFunctionOnSet(f, E) = SumFunctionOnSet(f, D) + f[x]
  BY <1>4, <1>5, <1>6
<1> QED  BY <1>7 DEF E

LEMMA SumSame ==
    ASSUME NEW D, IsFiniteSet(D), NEW f, NEW g, \A x \in D : f[x] \in Int /\ g[x] = f[x]
    PROVE  SumFunctionOnSet(g, D) = SumFunctionOnSet(f, D)
<1> DEFINE Good == {s \in SUBSET D : SumFunctionOnSet(g, s) = SumFunctionOnSet(f, s)}
<1>1. {} \in Good
  BY SumOfNothing
<1>2. ASSUME NEW s \in SUBSET D, s \in Good, NEW x \in D \ s
      PROVE  s \cup {x} \in Good
  <2>1. IsFiniteSet(s) /\ x \notin s
    BY FS_Subset
  <2>2. \A y \in s \cup {x} : f[y] \in Int /\ g[y] \in Int
    OBVIOUS
  <2>3. /\ SumFunctionOnSet(f, s \cup {x}) = SumFunctionOnSet(f, s) + f[x]
        /\ SumFunctionOnSet(g, s \cup {x}) = SumFunctionOnSet(g, s) + g[x]
    BY <2>1, <2>2, SumOneMore
  <2> QED  BY <1>2, <2>3
<1> HIDE DEF Good
<1>3. D \in Good
  BY <1>1, <1>2, SetInduction
<1> QED  BY <1>3 DEF Good

LEMMA SumPlus ==
    ASSUME NEW D, IsFiniteSet(D), NEW f, NEW g, NEW h,
           \A x \in D : f[x] \in Int /\ g[x] \in Int /\ h[x] = f[x] + g[x]
    PROVE  SumFunctionOnSet(h, D) = SumFunctionOnSet(f, D) + SumFunctionOnSet(g, D)
<1> DEFINE Good == {s \in SUBSET D :
                      SumFunctionOnSet(h, s) = SumFunctionOnSet(f, s) + SumFunctionOnSet(g, s)}
<1>1. {} \in Good
  BY SumOfNothing
<1>2. ASSUME NEW s \in SUBSET D, s \in Good, NEW x \in D \ s
      PROVE  s \cup {x} \in Good
  <2>1. IsFiniteSet(s) /\ x \notin s
    BY FS_Subset
  <2>2. \A y \in s \cup {x} : f[y] \in Int /\ g[y] \in Int /\ h[y] \in Int
    OBVIOUS
  <2>3. /\ SumFunctionOnSet(f, s \cup {x}) = SumFunctionOnSet(f, s) + f[x]
        /\ SumFunctionOnSet(g, s \cup {x}) = SumFunctionOnSet(g, s) + g[x]
        /\ SumFunctionOnSet(h, s \cup {x}) = SumFunctionOnSet(h, s) + h[x]
    BY <2>1, <2>2, SumOneMore
  <2>4. SumFunctionOnSet(f, s) \in Int /\ SumFunctionOnSet(g, s) \in Int
    BY <2>1, <2>2, SumIsInt
  <2> QED  BY <1>2, <2>2, <2>3, <2>4
<1> HIDE DEF Good
<1>3. D \in Good
  BY <1>1, <1>2, SetInduction
<1> QED  BY <1>3 DEF Good

(* What is zero outside a part does not count there. *)
LEMMA SumZeroOutside ==
    ASSUME NEW D, IsFiniteSet(D), NEW E \in SUBSET D, NEW f,
           \A x \in D : f[x] \in Int, \A x \in D \ E : f[x] = 0
    PROVE  SumFunctionOnSet(f, D) = SumFunctionOnSet(f, E)
<1> DEFINE Good == {s \in SUBSET D : SumFunctionOnSet(f, s) = SumFunctionOnSet(f, s \cap E)}
<1>1. {} \in Good
  <2>1. {} \cap E = {}
    OBVIOUS
  <2> QED  BY <2>1
<1>2. ASSUME NEW s \in SUBSET D, s \in Good, NEW x \in D \ s
      PROVE  s \cup {x} \in Good
  <2>1. IsFiniteSet(s) /\ x \notin s /\ IsFiniteSet(s \cap E) /\ x \notin s \cap E
    BY FS_Subset
  <2>2. SumFunctionOnSet(f, s \cup {x}) = SumFunctionOnSet(f, s) + f[x]
    BY <2>1, SumOneMore
  <2>3. CASE x \in E
    <3>1. (s \cup {x}) \cap E = (s \cap E) \cup {x}
      BY <2>3
    <3>2. SumFunctionOnSet(f, (s \cap E) \cup {x}) = SumFunctionOnSet(f, s \cap E) + f[x]
      BY <2>1, SumOneMore
    <3> QED  BY <1>2, <2>2, <3>1, <3>2
  <2>4. CASE x \notin E
    <3>1. (s \cup {x}) \cap E = s \cap E
      BY <2>4
    <3>2. f[x] = 0 /\ SumFunctionOnSet(f, s) \in Int
      BY <2>1, <2>4, SumIsInt
    <3>3. SumFunctionOnSet(f, s) = SumFunctionOnSet(f, s \cap E)
      BY <1>2
    <3>4. SumFunctionOnSet(f, s \cup {x}) = SumFunctionOnSet(f, s)
      BY <2>2, <3>2
    <3>5. SumFunctionOnSet(f, (s \cup {x}) \cap E) = SumFunctionOnSet(f, s)
      BY <3>1, <3>3
    <3> HIDE <1>2
    <3> QED  BY <3>4, <3>5
  <2> QED  BY <2>3, <2>4
<1> HIDE DEF Good
<1>3. D \in Good
  BY <1>1, <1>2, SetInduction
<1>4. D \cap E = E
  OBVIOUS
<1> QED  BY <1>3, <1>4 DEF Good

(* The same values under other names: along a column of a table. *)
IsColumn(f, g, D, c) == \A x \in D : f[x] \in Int /\ g[<<x, c>>] = f[x]

LEMMA SumOfColumn ==
    ASSUME NEW D, NEW c, NEW f, NEW g, IsFiniteSet(D), IsColumn(f, g, D, c)
    PROVE  SumFunctionOnSet(g, D \X {c}) = SumFunctionOnSet(f, D)
<1>0. \A x \in D : f[x] \in Int /\ g[<<x, c>>] = f[x]
  BY DEF IsColumn
<1> DEFINE Good == {s \in SUBSET D : /\ IsFiniteSet(s \X {c})
                                     /\ SumFunctionOnSet(g, s \X {c}) = SumFunctionOnSet(f, s)}
<1>1. {} \in Good
  <2>1. {} \X {c} = {}
    OBVIOUS
  <2> QED  BY <2>1, SumOfNothing, FS_EmptySet
<1>2. ASSUME NEW s \in SUBSET D, s \in Good, NEW x \in D \ s
      PROVE  s \cup {x} \in Good
  <2>1. IsFiniteSet(s) /\ x \notin s /\ IsFiniteSet(s \X {c}) /\ <<x, c>> \notin s \X {c}
    BY <1>2, FS_Subset
  <2>2. (s \cup {x}) \X {c} = (s \X {c}) \cup {<<x, c>>}
    OBVIOUS
  <2>3. SumFunctionOnSet(f, s \cup {x}) = SumFunctionOnSet(f, s) + f[x]
    <3>1. \A y \in s \cup {x} : f[y] \in Int
      BY <1>0
    <3> QED  BY <2>1, <3>1, SumOneMore
  <2>4. SumFunctionOnSet(g, (s \X {c}) \cup {<<x, c>>}) = SumFunctionOnSet(g, s \X {c}) + g[<<x, c>>]
    <3>1. \A k \in (s \X {c}) \cup {<<x, c>>} : g[k] \in Int
      <4> SUFFICES ASSUME NEW y \in D PROVE g[<<y, c>>] \in Int
        OBVIOUS
      <4> QED  BY <1>0
    <3> QED  BY <2>1, <3>1, SumOneMore
  <2>5. SumFunctionOnSet(g, s \X {c}) = SumFunctionOnSet(f, s) /\ g[<<x, c>>] = f[x]
    BY <1>0, <1>2
  <2>6. IsFiniteSet((s \X {c}) \cup {<<x, c>>})
    BY <2>1, FS_AddElement
  <2>7. SumFunctionOnSet(g, (s \cup {x}) \X {c}) = SumFunctionOnSet(f, s \cup {x})
    BY <2>2, <2>3, <2>4, <2>5
  <2> QED  BY <2>2, <2>6, <2>7
<1> HIDE DEF Good
<1>3. D \in Good
  BY <1>1, <1>2, SetInduction
<1> QED  BY <1>3 DEF Good

(* Of values that are not negative, the sum is at least that over a part. *)
LEMMA SumNotLess ==
    ASSUME NEW D, IsFiniteSet(D), NEW f, \A x \in D : f[x] \in Nat, NEW E \in SUBSET D
    PROVE  SumFunctionOnSet(f, E) <= SumFunctionOnSet(f, D)
<1> DEFINE Good == {s \in SUBSET D : SumFunctionOnSet(f, s \cap E) <= SumFunctionOnSet(f, s)}
<1>0. \A x \in D : f[x] \in Int
  OBVIOUS
<1>1. {} \in Good
  <2>1. {} \cap E = {}
    OBVIOUS
  <2> QED  BY <2>1, SumOfNothing
<1>2. ASSUME NEW s \in SUBSET D, s \in Good, NEW x \in D \ s
      PROVE  s \cup {x} \in Good
  <2>1. IsFiniteSet(s) /\ x \notin s /\ IsFiniteSet(s \cap E) /\ x \notin s \cap E
    BY FS_Subset
  <2>2. SumFunctionOnSet(f, s \cup {x}) = SumFunctionOnSet(f, s) + f[x]
    BY <1>0, <2>1, SumOneMore
  <2>3. SumFunctionOnSet(f, s) \in Int /\ SumFunctionOnSet(f, s \cap E) \in Int /\ f[x] \in Nat
    BY <1>0, <2>1, SumIsInt
  <2>4. SumFunctionOnSet(f, s \cap E) <= SumFunctionOnSet(f, s)
    BY <1>2
  <2>5. CASE x \in E
    <3>1. (s \cup {x}) \cap E = (s \cap E) \cup {x}
      BY <2>5
    <3>2. SumFunctionOnSet(f, (s \cap E) \cup {x}) = SumFunctionOnSet(f, s \cap E) + f[x]
      BY <1>0, <2>1, SumOneMore
    <3>3. SumFunctionOnSet(f, (s \cup {x}) \cap E) = SumFunctionOnSet(f, s \cap E) + f[x]
      BY <3>1, <3>2
    <3>4. SumFunctionOnSet(f, (s \cup {x}) \cap E) <= SumFunctionOnSet(f, s \cup {x})
      BY <2>2, <2>3, <2>4, <3>3
    <3> QED  BY <3>4
  <2>6. CASE x \notin E
    <3>1. (s \cup {x}) \cap E = s \cap E
      BY <2>6
    <3>2. SumFunctionOnSet(f, (s \cup {x}) \cap E) <= SumFunctionOnSet(f, s \cup {x})
      BY <2>2, <2>3, <2>4, <3>1
    <3> QED  BY <3>2
  <2> QED  BY <2>5, <2>6
<1> HIDE DEF Good
<1>3. D \in Good
  BY <1>1, <1>2, SetInduction
<1>4. D \cap E = E
  OBVIOUS
<1> QED  BY <1>3, <1>4 DEF Good

(* One value changes, or one comes in. *)
LEMMA SumChanged ==
    ASSUME NEW D, NEW x, NEW f, NEW g, NEW old, IsFiniteSet(D),
           \A y \in D : f[y] \in Int,
           \A y \in D \cup {x} : g[y] \in Int,
           \A y \in D \ {x} : g[y] = f[y],
           old \in Int, x \in D => old = f[x], x \notin D => old = 0
    PROVE  /\ SumFunctionOnSet(f, D) \in Int
           /\ SumFunctionOnSet(g, D \cup {x}) = SumFunctionOnSet(f, D) - old + g[x]
<1> DEFINE E == D \ {x}
<1>1. IsFiniteSet(E) /\ x \notin E /\ E \cup {x} = D \cup {x} /\ E \subseteq D
  BY FS_Subset
<1>2. \A y \in E : f[y] \in Int /\ g[y] = f[y]
  OBVIOUS
<1> HIDE DEF E
<1>3. SumFunctionOnSet(g, E) = SumFunctionOnSet(f, E)
  BY <1>1, <1>2, SumSame
<1>4. SumFunctionOnSet(f, E) \in Int /\ SumFunctionOnSet(f, D) \in Int
  BY <1>1, <1>2, SumIsInt
<1>5. SumFunctionOnSet(g, D \cup {x}) = SumFunctionOnSet(g, E) + g[x]
  <2>1. \A y \in E \cup {x} : g[y] \in Int
    BY <1>1
  <2>2. SumFunctionOnSet(g, E \cup {x}) = SumFunctionOnSet(g, E) + g[x]
    BY <1>1, <2>1, SumOneMore
  <2> QED  BY <1>1, <2>2
<1>6. SumFunctionOnSet(f, D) = SumFunctionOnSet(f, E) + old
  <2>1. CASE x \in D
    <3>1. E \cup {x} = D
      BY <1>1, <2>1
    <3>2. SumFunctionOnSet(f, E \cup {x}) = SumFunctionOnSet(f, E) + f[x]
      <4>1. \A y \in E \cup {x} : f[y] \in Int
        BY <3>1
      <4> QED  BY <1>1, <4>1, SumOneMore
    <3> QED  BY <2>1, <3>1, <3>2
  <2>2. CASE x \notin D
    <3>1. E = D
      BY <2>2 DEF E
    <3> QED  BY <1>4, <2>2, <3>1
  <2> QED  BY <2>1, <2>2
<1>7. g[x] \in Int
  OBVIOUS
<1>8. \A s, t, u, v, w : u \in Int /\ v \in Int /\ w \in Int /\ s = u + v /\ t = u + w => t = s - v + w
  OBVIOUS
<1>9. SumFunctionOnSet(g, D \cup {x}) = SumFunctionOnSet(f, E) + g[x]
  BY <1>3, <1>5
<1> QED  BY <1>4, <1>6, <1>7, <1>8, <1>9

LEMMA SumOfOne ==
    ASSUME NEW x, NEW f, f[x] \in Int
    PROVE  SumFunctionOnSet(f, {x}) = f[x]
<1>1. IsFiniteSet({}) /\ x \notin {} /\ {} \cup {x} = {x} /\ \A y \in {} \cup {x} : f[y] \in Int
  BY FS_EmptySet
<1>2. SumFunctionOnSet(f, {} \cup {x}) = SumFunctionOnSet(f, {}) + f[x]
  BY <1>1, SumOneMore
<1> QED  BY <1>1, <1>2, SumOfNothing
-----------------------------------------------------------------------------
(* SORTED SETS.  The lemmas take the order as a set of pairs. *)
Orders(R, S) ==
    /\ \A x, y \in S : <<x, y>> \in R => <<y, x>> \notin R
    /\ \A x, y, z \in S : <<x, y>> \in R /\ <<y, z>> \in R => <<x, z>> \in R
    /\ \A x, y \in S : x = y \/ <<x, y>> \in R \/ <<y, x>> \in R

Below(R, S, e) == {f \in S : <<f, e>> \in R}

Rank(R, S, e) == Cardinality(Below(R, S, e))

LEMMA RankOrder ==
    ASSUME NEW S, IsFiniteSet(S), NEW R, Orders(R, S)
    PROVE  /\ Cardinality(S) \in Nat
           /\ \A e \in S : Rank(R, S, e) \in 0..(Cardinality(S) - 1)
           /\ \A e, f \in S : <<e, f>> \in R <=> Rank(R, S, e) < Rank(R, S, f)
           /\ \A k \in 0..(Cardinality(S) - 1) : \E e \in S : Rank(R, S, e) = k
<1>1. \A e \in S : Below(R, S, e) \subseteq S \ {e}
  BY DEF Below, Orders
<1>2. \A e \in S : IsFiniteSet(Below(R, S, e)) /\ Rank(R, S, e) \in Nat
  BY <1>1, FS_Subset, FS_CardinalityType DEF Rank
<1>3. Cardinality(S) \in Nat
  BY FS_CardinalityType
<1>4. \A e \in S : Rank(R, S, e) <= Cardinality(S) - 1
  <2> SUFFICES ASSUME NEW e \in S PROVE Rank(R, S, e) <= Cardinality(S) - 1
    OBVIOUS
  <2>1. IsFiniteSet(S \ {e}) /\ Cardinality(S \ {e}) = Cardinality(S) - 1
    BY FS_RemoveElement
  <2>2. Below(R, S, e) \in SUBSET (S \ {e})
    BY <1>1
  <2>3. Cardinality(Below(R, S, e)) <= Cardinality(S \ {e})
    BY <2>1, <2>2, FS_Subset
  <2> QED  BY <2>1, <2>3 DEF Rank
<1>5. \A e, f \in S : <<e, f>> \in R => Rank(R, S, e) < Rank(R, S, f)
  <2> SUFFICES ASSUME NEW e \in S, NEW f \in S, <<e, f>> \in R
               PROVE  Rank(R, S, e) < Rank(R, S, f)
    OBVIOUS
  <2>1. Below(R, S, e) \cup {e} \subseteq Below(R, S, f)
    BY DEF Below, Orders
  <2>2. e \notin Below(R, S, e)
    BY <1>1
  <2>3. Cardinality(Below(R, S, e) \cup {e}) = Cardinality(Below(R, S, e)) + 1
    BY <1>2, <2>2, FS_AddElement
  <2>4. Cardinality(Below(R, S, e) \cup {e}) <= Cardinality(Below(R, S, f))
    BY <1>2, <2>1, FS_Subset
  <2> QED  BY <1>2, <2>3, <2>4 DEF Rank
<1>6. \A e, f \in S : Rank(R, S, e) < Rank(R, S, f) => <<e, f>> \in R
  <2> SUFFICES ASSUME NEW e \in S, NEW f \in S, Rank(R, S, e) < Rank(R, S, f), <<e, f>> \notin R
               PROVE  FALSE
    OBVIOUS
  <2>1. e = f \/ <<f, e>> \in R
    BY DEF Orders
  <2> QED  BY <1>2, <1>5, <2>1
<1> DEFINE T == 0..(Cardinality(S) - 1)
           r == [e \in S |-> Rank(R, S, e)]
<1>7. r \in Injection(S, T)
  <2>1. r \in [S -> T]
    BY <1>2, <1>3, <1>4
  <2>2. \A e, f \in S : r[e] = r[f] => e = f
    <3> SUFFICES ASSUME NEW e \in S, NEW f \in S, r[e] = r[f] PROVE e = f
      OBVIOUS
    <3>1. Rank(R, S, e) = Rank(R, S, f) /\ Rank(R, S, e) \in Nat
      BY <1>2
    <3>2. <<e, f>> \notin R /\ <<f, e>> \notin R
      BY <1>5, <3>1
    <3> QED  BY <3>2 DEF Orders
  <2> HIDE DEF r
  <2> QED  BY <2>1, <2>2 DEF Injection, IsInjective
<1>8. IsFiniteSet(T) /\ Cardinality(T) = Cardinality(S)
  BY <1>3, FS_Interval
<1>9. r \in Surjection(S, T)
  <2> HIDE DEF r, T
  <2> QED  BY <1>7, <1>8, FS_Injection
<1>10. \A k \in T : \E e \in S : r[e] = k
  <2> HIDE DEF r, T
  <2> QED  BY <1>9 DEF Surjection
<1>11. \A e \in S : Rank(R, S, e) \in T
  BY <1>2, <1>3, <1>4
<1>12. \A k \in T : \E e \in S : Rank(R, S, e) = k
  BY <1>10
<1> QED  BY <1>3, <1>5, <1>6, <1>11, <1>12

(* q lists S in the order of R. *)
Lists(q, S, R) ==
    /\ q \in Seq(S)
    /\ DOMAIN q = 1..Len(q)
    /\ \A e \in S : \E i \in 1..Len(q) : q[i] = e
    /\ \A i, j \in 1..Len(q) : i < j => <<q[i], q[j]>> \in R

LEMMA ListsAll ==
    ASSUME NEW S, IsFiniteSet(S), NEW R, Orders(R, S), NEW q,
           q = [i \in 1..Cardinality(S) |-> q[i]],
           \A i \in 1..Cardinality(S) :
              (\E e \in S : Rank(R, S, e) = i - 1) => q[i] \in S /\ Rank(R, S, q[i]) = i - 1
    PROVE  Lists(q, S, R) /\ Len(q) = Cardinality(S)
<1>1. Cardinality(S) \in Nat
  BY FS_CardinalityType
<1> DEFINE n == Cardinality(S)
<1>2. \A i \in 1..n : q[i] \in S /\ Rank(R, S, q[i]) = i - 1
  <2> SUFFICES ASSUME NEW i \in 1..n PROVE q[i] \in S /\ Rank(R, S, q[i]) = i - 1
    OBVIOUS
  <2>1. i - 1 \in 0..(n - 1)
    BY <1>1
  <2>2. \E e \in S : Rank(R, S, e) = i - 1
    BY <2>1, RankOrder
  <2> QED  BY <2>2
<1>3. q \in [1..n -> S]
  BY <1>2
<1>4. q \in Seq(S) /\ Len(q) = n
  BY <1>1, <1>3, SeqDef, LenProperties
<1>5. \A e \in S : \E i \in 1..n : q[i] = e
  <2> SUFFICES ASSUME NEW e \in S PROVE \E i \in 1..n : q[i] = e
    OBVIOUS
  <2>1. Rank(R, S, e) \in 0..(n - 1)
    BY RankOrder
  <2> DEFINE i == Rank(R, S, e) + 1
  <2>2. i \in 1..n /\ i - 1 = Rank(R, S, e)
    BY <1>1, <2>1
  <2>3. q[i] \in S /\ Rank(R, S, q[i]) = Rank(R, S, e)
    BY <1>2, <2>2
  <2>4. q[i] = e
    <3>1. <<q[i], e>> \notin R /\ <<e, q[i]>> \notin R
      <4>1. ~(Rank(R, S, q[i]) < Rank(R, S, e)) /\ ~(Rank(R, S, e) < Rank(R, S, q[i]))
        BY <2>1, <2>3
      <4> QED  BY <2>3, <4>1, RankOrder
    <3> QED  BY <2>3, <3>1 DEF Orders
  <2> QED  BY <2>2, <2>4
<1>6. \A i, j \in 1..n : i < j => <<q[i], q[j]>> \in R
  <2> SUFFICES ASSUME NEW i \in 1..n, NEW j \in 1..n, i < j PROVE <<q[i], q[j]>> \in R
    OBVIOUS
  <2>1. Rank(R, S, q[i]) < Rank(R, S, q[j])
    BY <1>1, <1>2
  <2> QED  BY <1>2, <2>1, RankOrder
<1> QED  BY <1>3, <1>4, <1>5, <1>6 DEF Lists

(* Two lists of the same things in the same order are the same. *)
LEMMA RankInList ==
    ASSUME NEW S, NEW R, Orders(R, S), NEW q, Lists(q, S, R)
    PROVE  /\ Len(q) \in Nat
           /\ \A i \in 1..Len(q) : q[i] \in S /\ Rank(R, S, q[i]) = i - 1
           /\ \A i, j \in 1..Len(q) : q[i] = q[j] => i = j
<1>1. /\ Len(q) \in Nat
      /\ \A i \in 1..Len(q) : q[i] \in S
      /\ \A e \in S : \E i \in 1..Len(q) : q[i] = e
      /\ \A i, j \in 1..Len(q) : i < j => <<q[i], q[j]>> \in R
  BY LenProperties, ElementOfSeq DEF Lists
<1>2. \A i, j \in 1..Len(q) : <<q[i], q[j]>> \in R => i < j
  <2> SUFFICES ASSUME NEW i \in 1..Len(q), NEW j \in 1..Len(q), <<q[i], q[j]>> \in R, ~(i < j)
               PROVE  FALSE
    OBVIOUS
  <2>1. i = j \/ <<q[j], q[i]>> \in R
    BY <1>1
  <2> QED  BY <1>1, <2>1 DEF Orders
<1>3. \A i, j \in 1..Len(q) : q[i] = q[j] => i = j
  <2> SUFFICES ASSUME NEW i \in 1..Len(q), NEW j \in 1..Len(q), q[i] = q[j], i # j
               PROVE  FALSE
    OBVIOUS
  <2>1. <<q[i], q[j]>> \in R \/ <<q[j], q[i]>> \in R
    BY <1>1
  <2> QED  BY <1>1, <2>1 DEF Orders
<1>4. ASSUME NEW i \in 1..Len(q)
      PROVE  Rank(R, S, q[i]) = i - 1
  <2> DEFINE P == 1..(i - 1)
             B == Below(R, S, q[i])
             m == [k \in P |-> q[k]]
  <2>1. \A k \in P : k \in 1..Len(q) /\ k < i /\ q[k] \in B
    BY <1>1 DEF Below
  <2>2. \A e \in B : \E k \in P : q[k] = e
    <3> SUFFICES ASSUME NEW e \in B PROVE \E k \in P : q[k] = e
      OBVIOUS
    <3>1. e \in S /\ <<e, q[i]>> \in R
      BY DEF Below
    <3>2. PICK k \in 1..Len(q) : q[k] = e
      BY <1>1, <3>1
    <3>3. k < i
      BY <1>2, <3>1, <3>2
    <3> QED  BY <1>1, <3>2, <3>3
  <2>3. IsFiniteSet(P) /\ Cardinality(P) = i - 1
    <3>1. i - 1 \in Nat /\ 1 \in Int
      BY <1>1
    <3> QED  BY <3>1, FS_Interval
  <2> HIDE DEF B
  <2>4. m \in [P -> B]
    BY <2>1
  <2>5. m \in Injection(P, B)
    BY <1>3, <2>1, <2>4 DEF Injection, IsInjective
  <2>6. m \in Surjection(P, B)
    BY <2>2, <2>4 DEF Surjection
  <2> HIDE DEF m, P
  <2>7. ExistsBijection(P, B)
    BY <2>5, <2>6 DEF ExistsBijection, Bijection
  <2>8. Cardinality(B) = Cardinality(P)
    BY <2>3, <2>7, FS_Bijection
  <2> QED  BY <2>3, <2>8 DEF Rank, B
<1> QED  BY <1>1, <1>3, <1>4

LEMMA SameList ==
    ASSUME NEW S, IsFiniteSet(S), NEW R, Orders(R, S), NEW p, Lists(p, S, R), NEW q, Lists(q, S, R)
    PROVE  p = q
<1>1. \A s : Lists(s, S, R) =>
        \A i \in 1..Len(s) : s[i] \in S /\ Rank(R, S, s[i]) = i - 1
  BY RankInList
<1>2. \A e, f \in S : Rank(R, S, e) = Rank(R, S, f) => e = f
  <2> SUFFICES ASSUME NEW e \in S, NEW f \in S, Rank(R, S, e) = Rank(R, S, f) PROVE e = f
    OBVIOUS
  <2>1. Rank(R, S, e) \in Int /\ Cardinality(S) \in Nat
    BY RankOrder
  <2>2. <<e, f>> \notin R /\ <<f, e>> \notin R
    BY <2>1, RankOrder
  <2> QED  BY <2>2 DEF Orders
<1>3. \A s, t : Lists(s, S, R) /\ Lists(t, S, R) => Len(s) <= Len(t)
  <2> SUFFICES ASSUME NEW s, NEW t, Lists(s, S, R), Lists(t, S, R), ~(Len(s) <= Len(t))
               PROVE  FALSE
    OBVIOUS
  <2>1. Len(s) \in Nat /\ Len(t) \in Nat
    BY RankInList
  <2>2. Len(t) + 1 \in 1..Len(s)
    BY <2>1
  <2> DEFINE e == s[Len(t) + 1]
  <2>3. e \in S /\ Rank(R, S, e) = Len(t)
    BY <1>1, <2>1, <2>2
  <2>4. PICK i \in 1..Len(t) : t[i] = e
    <3> HIDE DEF e
    <3> QED  BY <2>3 DEF Lists
  <2>5. Rank(R, S, t[i]) = i - 1
    BY <1>1
  <2> HIDE DEF e
  <2> QED  BY <2>1, <2>3, <2>4, <2>5
<1>4. Len(p) \in Nat /\ Len(q) \in Nat /\ Len(p) <= Len(q) /\ Len(q) <= Len(p)
  BY <1>3, RankInList
<1>5. Len(p) = Len(q)
  BY <1>4
<1>6. \A i \in 1..Len(p) : p[i] = q[i]
  BY <1>1, <1>2, <1>5
<1> QED  BY <1>5, <1>6, SeqEqual DEF Lists
=============================================================================
