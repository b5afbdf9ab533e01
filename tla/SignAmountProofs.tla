------------------------- MODULE SignAmountProofs -------------------------
(***************************************************************************)
(* Proofs about SignFindings that add amounts up: its types, what is       *)
(* offered for a sale, what the RGB row shows, what is warned of and what  *)
(* is not blocked, for any allocations, contracts and requests.  They rest *)
(* on FindingsAssumption: allocations and contracts are finitely many.     *)
(*                                                                         *)
(* A sum over a set takes one element after another, whichever CHOOSE      *)
(* gives.  That there is such a function, that it is the same over a       *)
(* smaller set, and that any element could have been taken first, come     *)
(* from SetInduction, which speaks of a set and not of a predicate.        *)
(***************************************************************************)
EXTENDS SignFindingsProofs, FiniteSetTheorems, WellFoundedInduction

----------------------------------------------------------------------------
\* Sums over finite sets.

LEMMA LeastNumber ==
  ASSUME NEW T, T \subseteq Nat, T # {}
  PROVE  \E x \in T : \A y \in T : x <= y
PROOF
<1> DEFINE R == {p \in Nat \X Nat : p[1] < p[2]}
<1>1. IsWellFoundedOn(R, Nat)
  BY NatLessThanWellFounded DEF OpToRel
<1>2. PICK x \in T : \A y \in T : <<y, x>> \notin R
  <2> HIDE DEF R
  <2> QED BY <1>1, WFMin
<1> SUFFICES ASSUME NEW y \in T PROVE x <= y
  BY <1>2
<1>3. <<y, x>> \notin R
  BY <1>2
<1> QED BY <1>3

\* A set that has {}, and each subset of S that it has without any one element, has S.
LEMMA SetInduction ==
  ASSUME NEW S, IsFiniteSet(S), NEW T, {} \in T,
         \A s \in SUBSET S : s # {} /\ (\A x \in s : s \ {x} \in T) => s \in T
  PROVE  S \in T
PROOF
<1> SUFFICES ASSUME S \notin T PROVE FALSE
  OBVIOUS
<1>1. \A s \in SUBSET S : IsFiniteSet(s) /\ Cardinality(s) \in Nat
  BY FS_Subset, FS_CardinalityType
<1> DEFINE Sizes == {Cardinality(s) : s \in {t \in SUBSET S : t \notin T}}
<1>2. Sizes \subseteq Nat /\ Sizes # {}
  BY <1>1
<1>3. PICK n \in Sizes : \A m \in Sizes : n <= m
  <2> HIDE DEF Sizes
  <2> QED BY <1>2, LeastNumber
<1>4. PICK s \in SUBSET S : s \notin T /\ Cardinality(s) = n
  OBVIOUS
<1>5. ASSUME NEW x \in s PROVE s \ {x} \in T
  <2>1. Cardinality(s \ {x}) = Cardinality(s) - 1
    BY <1>1, FS_RemoveElement
  <2>2. s \ {x} \in SUBSET S
    OBVIOUS
  <2> SUFFICES ASSUME s \ {x} \notin T PROVE FALSE
    OBVIOUS
  <2>3. Cardinality(s \ {x}) \in Sizes
    BY <2>2
  <2>4. n <= Cardinality(s) - 1
    BY <1>3, <2>1, <2>3
  <2> HIDE DEF Sizes
  <2> QED BY <1>1, <1>4, <2>4
<1> QED BY <1>4, <1>5

Pick(s) == CHOOSE y \in s : TRUE
IsSum(g, f, S) ==
  g = [s \in SUBSET S |-> IF s = {} THEN 0 ELSE f[Pick(s)] + g[s \ {Pick(s)}]]
Sum(f, S) == (CHOOSE g : IsSum(g, f, S))[S]

LEMMA PickIn == \A s : s # {} => Pick(s) \in s
PROOF BY DEF Pick

\* What the recursion reads of it.
IsSumUpTo(g, f, S, n) ==
  \A s \in SUBSET S : Cardinality(s) <= n =>
    /\ g[s] \in Nat
    /\ g[s] = IF s = {} THEN 0 ELSE f[Pick(s)] + g[s \ {Pick(s)}]

LEMMA SumExists ==
  ASSUME NEW S, IsFiniteSet(S), NEW f, \A x \in S : f[x] \in Nat
  PROVE  \E g : IsSum(g, f, S) /\ \A s \in SUBSET S : g[s] \in Nat
PROOF
<1>1. \A s \in SUBSET S : IsFiniteSet(s) /\ Cardinality(s) \in Nat /\ Cardinality(s) <= Cardinality(S)
  BY FS_Subset, FS_CardinalityType
<1>2. \A s \in SUBSET S : s # {} =>
        Cardinality(s \ {Pick(s)}) = Cardinality(s) - 1 /\ s \ {Pick(s)} \in SUBSET S
  BY <1>1, PickIn, FS_RemoveElement
<1> DEFINE Short == {n \in Nat : ~\E g : IsSumUpTo(g, f, S, n)}
<1>3. 0 \notin Short
  <2> DEFINE g == [s \in SUBSET S |-> 0]
  <2>1. \A s \in SUBSET S : Cardinality(s) <= 0 => s = {}
    BY <1>1, FS_EmptySet
  <2>2. IsSumUpTo(g, f, S, 0)
    BY <2>1 DEF IsSumUpTo
  <2> QED BY <2>2
<1>4. ASSUME NEW n \in Nat, n + 1 \in Short PROVE n \in Short
  <2> SUFFICES ASSUME NEW g, IsSumUpTo(g, f, S, n)
               PROVE  \E h : IsSumUpTo(h, f, S, n + 1)
    BY <1>4
  <2> DEFINE Rest(s) == s \ {Pick(s)}
             h == [s \in SUBSET S |->
                     IF Cardinality(s) <= n THEN g[s] ELSE f[Pick(s)] + g[Rest(s)]]
  <2>1. ASSUME NEW s \in SUBSET S, Cardinality(s) <= n
        PROVE  /\ h[s] \in Nat
               /\ h[s] = IF s = {} THEN 0 ELSE f[Pick(s)] + h[s \ {Pick(s)}]
    <3>1. h[s] = g[s]
      BY <2>1
    <3>2. CASE s = {}
      BY <2>1, <3>1, <3>2 DEF IsSumUpTo
    <3>3. CASE s # {}
      <4>1. Rest(s) \in SUBSET S /\ Cardinality(Rest(s)) <= n
        BY <1>1, <1>2, <2>1, <3>3
      <4>2. h[Rest(s)] = g[Rest(s)]
        BY <4>1
      <4>3. g[s] \in Nat /\ g[s] = f[Pick(s)] + g[Rest(s)]
        BY <2>1, <3>3 DEF IsSumUpTo
      <4> HIDE DEF h
      <4> QED BY <3>1, <3>3, <4>2, <4>3
    <3> QED BY <3>2, <3>3
  <2>2. ASSUME NEW s \in SUBSET S, Cardinality(s) <= n + 1, ~(Cardinality(s) <= n)
        PROVE  /\ h[s] \in Nat
               /\ h[s] = IF s = {} THEN 0 ELSE f[Pick(s)] + h[s \ {Pick(s)}]
    <3>1. s # {}
      BY <2>2, FS_EmptySet
    <3>2. Rest(s) \in SUBSET S /\ Cardinality(Rest(s)) <= n
      BY <1>1, <1>2, <2>2, <3>1
    <3>3. h[Rest(s)] = g[Rest(s)] /\ g[Rest(s)] \in Nat
      BY <3>2 DEF IsSumUpTo
    <3>4. h[s] = f[Pick(s)] + g[Rest(s)]
      BY <2>2
    <3>5. f[Pick(s)] \in Nat
      BY <3>1, PickIn
    <3> HIDE DEF h
    <3> QED BY <3>1, <3>3, <3>4, <3>5
  <2>3. \A s \in SUBSET S : Cardinality(s) <= n + 1 =>
          Cardinality(s) <= n \/ ~(Cardinality(s) <= n)
    OBVIOUS
  <2> HIDE DEF h
  <2>4. IsSumUpTo(h, f, S, n + 1)
    BY <2>1, <2>2 DEF IsSumUpTo
  <2> QED BY <2>4
<1>5. Short = {}
  <2> SUFFICES ASSUME Short # {} PROVE FALSE
    OBVIOUS
  <2>1. PICK m \in Short : \A k \in Short : m <= k
    BY LeastNumber
  <2>2. m \in Nat /\ m # 0
    BY <1>3
  <2>3. m - 1 \in Nat /\ (m - 1) + 1 \in Short
    BY <2>2
  <2>4. m - 1 \in Short
    BY <1>4, <2>3
  <2> HIDE DEF Short
  <2> QED BY <2>1, <2>2, <2>4
<1>6. PICK h : IsSumUpTo(h, f, S, Cardinality(S))
  BY <1>1, <1>5
<1> DEFINE g == [s \in SUBSET S |-> h[s]]
<1>7. \A s \in SUBSET S :
        h[s] \in Nat /\ h[s] = IF s = {} THEN 0 ELSE f[Pick(s)] + h[s \ {Pick(s)}]
  BY <1>1, <1>6 DEF IsSumUpTo
<1>8. \A s \in SUBSET S : s # {} => g[s \ {Pick(s)}] = h[s \ {Pick(s)}]
  BY <1>2
<1>9. \A s \in SUBSET S : g[s] = IF s = {} THEN 0 ELSE f[Pick(s)] + g[s \ {Pick(s)}]
  BY <1>7, <1>8
<1>10. IsSum(g, f, S) /\ \A s \in SUBSET S : g[s] \in Nat
  <2>1. g = [s \in SUBSET S |-> g[s]]
    OBVIOUS
  <2>2. \A s \in SUBSET S : g[s] \in Nat
    BY <1>7
  <2> HIDE DEF g
  <2> QED BY <1>9, <2>1, <2>2 DEF IsSum
<1> QED BY <1>10

LEMMA SumIsOne ==
  ASSUME NEW S, IsFiniteSet(S), NEW f, \A x \in S : f[x] \in Nat
  PROVE  \E g : IsSum(g, f, S) /\ Sum(f, S) = g[S]
PROOF BY SumExists DEF Sum

\* Over two sets it is the same on what they share.
LEMMA SumIsUnique ==
  ASSUME NEW S, NEW U, U \subseteq S, IsFiniteSet(S), NEW f, NEW g, NEW h,
         IsSum(g, f, S), IsSum(h, f, U)
  PROVE  g[U] = h[U]
PROOF
<1> DEFINE T == {u \in SUBSET U : g[u] = h[u]}
<1>1. \A u \in SUBSET U :
        /\ g[u] = IF u = {} THEN 0 ELSE f[Pick(u)] + g[u \ {Pick(u)}]
        /\ h[u] = IF u = {} THEN 0 ELSE f[Pick(u)] + h[u \ {Pick(u)}]
  BY DEF IsSum
<1>2. {} \in T
  BY <1>1
<1>3. ASSUME NEW u \in SUBSET U, u # {}, \A x \in u : u \ {x} \in T PROVE u \in T
  <2>1. g[u \ {Pick(u)}] = h[u \ {Pick(u)}]
    BY <1>3, PickIn
  <2> QED BY <1>1, <1>3, <2>1
<1>4. IsFiniteSet(U)
  BY FS_Subset
<1> HIDE DEF T
<1>5. U \in T
  BY <1>2, <1>3, <1>4, SetInduction
<1> QED BY <1>5 DEF T

LEMMA SumFacts ==
  ASSUME NEW S, IsFiniteSet(S), NEW f, \A x \in S : f[x] \in Nat
  PROVE  /\ Sum(f, S) \in Nat
         /\ S = {} => Sum(f, S) = 0
         /\ S # {} => Sum(f, S) = f[Pick(S)] + Sum(f, S \ {Pick(S)})
PROOF
<1>1. PICK g : IsSum(g, f, S) /\ \A s \in SUBSET S : g[s] \in Nat
  BY SumExists
<1>2. PICK h : IsSum(h, f, S) /\ Sum(f, S) = h[S]
  BY SumIsOne
<1>3. Sum(f, S) = g[S]
  BY <1>1, <1>2, SumIsUnique
<1>4. g[S] = IF S = {} THEN 0 ELSE f[Pick(S)] + g[S \ {Pick(S)}]
  <2>1. \A s \in SUBSET S : g[s] = IF s = {} THEN 0 ELSE f[Pick(s)] + g[s \ {Pick(s)}]
    BY <1>1 DEF IsSum
  <2>2. S \in SUBSET S
    OBVIOUS
  <2> QED BY <2>1, <2>2
<1>5. ASSUME S # {} PROVE Sum(f, S \ {Pick(S)}) = g[S \ {Pick(S)}]
  <2> DEFINE U == S \ {Pick(S)}
  <2>1. U \subseteq S /\ IsFiniteSet(U)
    BY FS_Subset
  <2>2. PICK k : IsSum(k, f, U) /\ Sum(f, U) = k[U]
    <3> HIDE DEF U
    <3> QED BY <2>1, SumIsOne
  <2>3. g[U] = k[U]
    <3> HIDE DEF U
    <3> QED BY <1>1, <2>1, <2>2, SumIsUnique
  <2> QED BY <2>2, <2>3
<1> QED BY <1>1, <1>3, <1>4, <1>5

\* Any element can be the one taken out.
LEMMA SumRemove ==
  ASSUME NEW S, IsFiniteSet(S), NEW f, \A x \in S : f[x] \in Nat, NEW y \in S
  PROVE  Sum(f, S) = f[y] + Sum(f, S \ {y})
PROOF
<1> DEFINE T == {s \in SUBSET S : \A x \in s : Sum(f, s) = f[x] + Sum(f, s \ {x})}
<1>1. \A s \in SUBSET S : IsFiniteSet(s) /\ Sum(f, s) \in Nat
  BY FS_Subset, SumFacts
<1>2. {} \in T
  OBVIOUS
<1>3. ASSUME NEW s \in SUBSET S, s # {}, \A x \in s : s \ {x} \in T PROVE s \in T
  <2> SUFFICES ASSUME NEW x \in s PROVE Sum(f, s) = f[x] + Sum(f, s \ {x})
    OBVIOUS
  <2> DEFINE p == Pick(s)
  <2>1. p \in s
    BY <1>3, PickIn
  <2>2. Sum(f, s) = f[p] + Sum(f, s \ {p})
    BY <1>1, <1>3, SumFacts
  <2>3. CASE x = p
    BY <2>2, <2>3
  <2>4. CASE x # p
    <3> HIDE DEF p
    <3>1. x \in s \ {p} /\ p \in s \ {x}
      BY <2>1, <2>4
    <3>2. Sum(f, s \ {p}) = f[x] + Sum(f, (s \ {p}) \ {x})
      BY <1>3, <2>1, <3>1
    <3>3. Sum(f, s \ {x}) = f[p] + Sum(f, (s \ {x}) \ {p})
      BY <1>3, <3>1
    <3>4. (s \ {p}) \ {x} = (s \ {x}) \ {p}
      OBVIOUS
    <3>5. f[x] \in Nat /\ f[p] \in Nat /\ Sum(f, (s \ {x}) \ {p}) \in Nat
      <4>1. (s \ {x}) \ {p} \in SUBSET S
        OBVIOUS
      <4> QED BY <1>1, <2>1, <4>1
    <3> QED BY <2>2, <3>2, <3>3, <3>4, <3>5
  <2> QED BY <2>3, <2>4
<1> HIDE DEF T
<1>4. S \in T
  BY <1>2, <1>3, SetInduction
<1> QED BY <1>4 DEF T

LEMMA SumGrows ==
  ASSUME NEW S, IsFiniteSet(S), NEW f, \A x \in S : f[x] \in Nat, NEW U \in SUBSET S
  PROVE  Sum(f, U) <= Sum(f, S)
PROOF
<1> DEFINE T == {s \in SUBSET S : \A u \in SUBSET s : Sum(f, u) <= Sum(f, s)}
<1>1. \A s \in SUBSET S : IsFiniteSet(s) /\ Sum(f, s) \in Nat
  BY FS_Subset, SumFacts
<1>2. {} \in T
  <2>1. \A u \in SUBSET {} : u = {}
    OBVIOUS
  <2> QED BY <1>1, <2>1
<1>3. ASSUME NEW s \in SUBSET S, s # {}, \A x \in s : s \ {x} \in T PROVE s \in T
  <2> SUFFICES ASSUME NEW u \in SUBSET s PROVE Sum(f, u) <= Sum(f, s)
    OBVIOUS
  <2>1. CASE u = s
    BY <1>1, <2>1
  <2>2. CASE u # s
    <3>1. PICK x \in s : x \notin u
      BY <2>2
    <3>2. Sum(f, u) <= Sum(f, s \ {x})
      BY <1>3, <3>1
    <3>3. Sum(f, s) = f[x] + Sum(f, s \ {x})
      BY <1>1, SumRemove
    <3>4. f[x] \in Nat /\ Sum(f, s \ {x}) \in Nat /\ Sum(f, u) \in Nat
      <4>1. s \ {x} \in SUBSET S /\ u \in SUBSET S
        OBVIOUS
      <4> QED BY <1>1, <4>1
    <3> QED BY <3>2, <3>3, <3>4
  <2> QED BY <2>1, <2>2
<1> HIDE DEF T
<1>4. S \in T
  BY <1>2, <1>3, SetInduction
<1> QED BY <1>4 DEF T

----------------------------------------------------------------------------
\* The amounts of SignFindings.

LEMMA FiniteAllocs ==
  ASSUME NEW S \in SUBSET Allocs
  PROVE  IsFiniteSet(S) /\ \A a \in S : Worth[a] \in Nat /\ Worth[a] > 0
PROOF BY FindingsAssumption, FS_Subset

LEMMA TotalIsSum == \A S : Total(S) = Sum(Worth, S)
PROOF
<1> TAKE S
<1>1. Total(S) = (CHOOSE g : g = [s \in SUBSET S |->
        IF s = {} THEN 0
          ELSE Worth[CHOOSE x \in s : TRUE] + g[s \ {CHOOSE x \in s : TRUE}]])[S]
  BY DEF Total, MapThenSumSet, MapThenFoldSet
<1> QED BY <1>1 DEF Sum, IsSum, Pick

LEMMA TotalFacts ==
  ASSUME NEW S \in SUBSET Allocs
  PROVE  /\ Total(S) \in Nat
         /\ S = {} => Total(S) = 0
         /\ \A o \in S : Total(S) = Worth[o] + Total(S \ {o})
         /\ \A U \in SUBSET S : Total(U) <= Total(S)
PROOF
<1>1. IsFiniteSet(S) /\ \A o \in S : Worth[o] \in Nat
  BY FiniteAllocs
<1>2. Sum(Worth, S) \in Nat /\ (S = {} => Sum(Worth, S) = 0)
  BY <1>1, SumFacts
<1>3. \A o \in S : Sum(Worth, S) = Worth[o] + Sum(Worth, S \ {o})
  BY <1>1, SumRemove
<1>4. \A U \in SUBSET S : Sum(Worth, U) <= Sum(Worth, S)
  BY <1>1, SumGrows
<1> QED BY <1>2, <1>3, <1>4, TotalIsSum

\* The gross is nothing only where there is nothing.
LEMMA GrossFacts ==
  ASSUME holds \subseteq Allocs, NEW S
  PROVE  /\ Gross(S) \in Nat
         /\ Gross(S) = 0 <=> \A a \in holds : At[a] \notin S
PROOF
<1> DEFINE There == {a \in holds : At[a] \in S}
<1>1. There \in SUBSET Allocs
  OBVIOUS
<1> HIDE DEF There
<1>2. Total(There) \in Nat /\ (There = {} => Total(There) = 0)
  BY <1>1, TotalFacts
<1>3. ASSUME NEW a \in There PROVE Total(There) # 0
  <2>1. Total(There) = Worth[a] + Total(There \ {a})
    BY <1>1, TotalFacts
  <2>2. Total(There \ {a}) \in Nat
    <3>1. There \ {a} \in SUBSET Allocs
      BY <1>1
    <3> QED BY <3>1, TotalFacts
  <2>3. Worth[a] \in Nat /\ Worth[a] > 0
    BY <1>1, FiniteAllocs
  <2> QED BY <2>1, <2>2, <2>3
<1>4. Gross(S) = Total(There)
  BY DEF Gross, There
<1>5. There = {} <=> \A a \in holds : At[a] \notin S
  BY DEF There
<1> QED BY <1>2, <1>3, <1>4, <1>5

----------------------------------------------------------------------------
\* What is offered.

LEMMA BeforeIsOrder ==
  /\ \A o, p, q \in Allocs : Before(o, p) /\ Before(p, q) => Before(o, q)
  /\ \A o, p \in Allocs : o # p => Before(o, p) \/ Before(p, o)
  /\ \A o \in Allocs : ~Before(o, o)
PROOF
<1>1. \A o \in Allocs : Worth[o] \in Nat /\ Scan[o] \in Nat
  BY FindingsAssumption
<1>2. \A o, p \in Allocs : o # p => Scan[o] # Scan[p]
  BY FindingsAssumption
<1> QED BY <1>1, <1>2 DEF Before

\* The one taken last.
LEMMA LastOne ==
  ASSUME NEW S \in SUBSET Allocs, S # {}
  PROVE  \E l \in S : \A o \in S : o = l \/ Before(o, l)
PROOF
<1> DEFINE Last(s, l) == \A o \in s : o = l \/ Before(o, l)
           T == {s \in SUBSET S : s # {} => \E l \in s : Last(s, l)}
<1>1. {} \in T
  OBVIOUS
<1>2. ASSUME NEW s \in SUBSET S, s # {}, \A x \in s : s \ {x} \in T PROVE s \in T
  <2>1. PICK x \in s : TRUE
    BY <1>2
  <2>2. CASE s \ {x} = {}
    <3>1. Last(s, x)
      BY <2>2
    <3> QED BY <2>1, <3>1
  <2>3. CASE s \ {x} # {}
    <3>1. PICK l \in s \ {x} : Last(s \ {x}, l)
      BY <1>2, <2>1, <2>3
    <3>2. x \in Allocs /\ l \in Allocs /\ x # l
      BY <2>1, <3>1
    <3>3. CASE Before(x, l)
      <4>1. Last(s, l)
        BY <3>1, <3>3
      <4> QED BY <3>1, <4>1
    <3>4. CASE Before(l, x)
      <4>1. ASSUME NEW o \in s, o # x PROVE Before(o, x)
        <5>1. o = l \/ Before(o, l)
          BY <3>1, <4>1
        <5> QED BY <3>2, <3>4, <5>1, BeforeIsOrder
      <4>2. Last(s, x)
        BY <4>1
      <4> QED BY <2>1, <4>2
    <3> QED BY <3>2, <3>3, <3>4, BeforeIsOrder
  <2> QED BY <2>2, <2>3
<1> HIDE DEF T
<1>3. S \in T
  BY <1>1, <1>2, FiniteAllocs, SetInduction
<1> QED BY <1>3 DEF T

LEMMA PickedIsTight ==
  ASSUME NEW S \in SUBSET Allocs, NEW n \in Nat, NEW o \in Picked(S, n)
  PROVE  Total(Picked(S, n) \ {o}) < n
PROOF
<1> DEFINE P == Picked(S, n)
<1>1. P \subseteq S /\ P \in SUBSET Allocs /\ o \in P
  BY DEF Picked
<1>2. PICK l \in P : \A p \in P : p = l \/ Before(p, l)
  <2> HIDE DEF P
  <2> QED BY <1>1, LastOne
<1>3. {p \in S : Before(p, l)} = P \ {l}
  <2>1. ASSUME NEW p \in S, Before(p, l) PROVE p \in P \ {l}
    <3>1. p \in Allocs /\ l \in Allocs
      BY <1>1
    <3>2. {q \in S : Before(q, p)} \subseteq {q \in S : Before(q, l)}
      BY <2>1, <3>1, BeforeIsOrder
    <3>3. Total({q \in S : Before(q, l)}) < n
      BY DEF Picked
    <3>4. Total({q \in S : Before(q, p)}) <= Total({q \in S : Before(q, l)})
      <4> DEFINE U == {q \in S : Before(q, p)}
                 V == {q \in S : Before(q, l)}
      <4>1. U \in SUBSET V /\ V \in SUBSET Allocs
        BY <3>2
      <4> HIDE DEF U, V
      <4>2. Total(U) <= Total(V)
        BY <4>1, TotalFacts
      <4> QED BY <4>2 DEF U, V
    <3>5. Total({q \in S : Before(q, p)}) \in Nat /\ Total({q \in S : Before(q, l)}) \in Nat
      BY TotalFacts
    <3>6. p \in P
      BY <3>3, <3>4, <3>5 DEF Picked
    <3>7. p # l
      BY <2>1, <3>1, BeforeIsOrder
    <3> QED BY <3>6, <3>7
  <2>2. ASSUME NEW p \in P \ {l} PROVE p \in S /\ Before(p, l)
    BY <1>1, <1>2, <2>2
  <2> QED BY <2>1, <2>2
<1>4. Total(P \ {l}) < n
  <2>1. Total({p \in S : Before(p, l)}) < n
    BY <1>2 DEF Picked
  <2> QED BY <1>3, <2>1
<1>5. Worth[o] >= Worth[l] /\ Worth[o] \in Nat /\ Worth[l] \in Nat
  <2>1. Worth[o] \in Nat /\ Worth[l] \in Nat
    BY <1>1, FindingsAssumption
  <2>2. o = l \/ Before(o, l)
    BY <1>1, <1>2
  <2> QED BY <2>1, <2>2 DEF Before
<1> HIDE DEF P
<1>6. Total(P) = Worth[o] + Total(P \ {o}) /\ Total(P) = Worth[l] + Total(P \ {l})
  BY <1>1, <1>2, TotalFacts
<1>7. Total(P \ {o}) \in Nat /\ Total(P \ {l}) \in Nat
  <2>1. P \ {o} \in SUBSET Allocs /\ P \ {l} \in SUBSET Allocs
    BY <1>1
  <2> QED BY <2>1, TotalFacts
<1>8. Total(P \ {o}) < n
  BY <1>4, <1>5, <1>6, <1>7
<1> QED BY <1>8 DEF P

----------------------------------------------------------------------------
\* Types.

\* What the stock holds, it lists; there is a request from Ask on.
StockInv ==
  /\ TypeOK
  /\ \A a \in holds : Of[a] \in known
  /\ pc # "none" => req \in Requests

LEMMA FirstIsListed ==
  ASSUME known \subseteq Contracts, known # {}
  PROVE  First \in known
PROOF
<1> DEFINE Places == {Listing[c] : c \in known}
<1>1. Places \subseteq Nat /\ Places # {}
  BY FindingsAssumption
<1>2. PICK m \in Places : \A n \in Places : m <= n
  <2> HIDE DEF Places
  <2> QED BY <1>1, LeastNumber
<1>3. \E c \in known : \A d \in known : Listing[c] <= Listing[d]
  BY <1>2
<1> QED BY <1>3 DEF First

LEMMA InitStock == Init => StockInv
PROOF
<1> SUFFICES ASSUME Init PROVE StockInv
  OBVIOUS
<1>1. holds \subseteq Allocs /\ MaxLocks \in Nat /\ MaxDrains \in Nat
  BY FindingsAssumption DEF Init
<1>2. known \subseteq Contracts /\ \A a \in holds : Of[a] \in known
  <2>1. known = {Of[a] : a \in holds}
    BY DEF Init
  <2> QED BY <1>1, <2>1, FindingsAssumption
<1>3. TypeOK
  <2>1. {grown, failed} \subseteq BOOLEAN /\ ours \in BOOLEAN /\ unlocked \in BOOLEAN
    BY DEF Init
  <2>2. rgbIn \in Nat /\ rgbOut \in Nat /\ locks \in 0 .. MaxLocks /\ drains \in 0 .. MaxDrains
    BY <1>1 DEF Init
  <2>3. offers \subseteq Offers /\ findings \subseteq Blocks \cup Warns
    BY DEF Init
  <2> QED BY <1>1, <1>2, <2>1, <2>2, <2>3 DEF Init, TypeOK
<1> QED BY <1>2, <1>3 DEF Init, StockInv

\* A step that leaves the stock alone, and of the rest only types change.
LEMMA StockStays ==
  ASSUME StockInv, UNCHANGED <<holds, known>>, TypeOK', pc' # "none" => req' \in Requests
  PROVE  StockInv'
PROOF BY DEF StockInv

LEMMA StepStock == StockInv /\ [Next]_vars => StockInv'
PROOF
<1> SUFFICES ASSUME StockInv, [Next]_vars PROVE StockInv'
  OBVIOUS
<1>t. TypeOK /\ (pc # "none" => req \in Requests)
  BY DEF StockInv
<1>q. Requests \subseteq RequestType
  BY FindingsAssumption
<1>1. ASSUME NEW c \in Contracts, NEW n \in Wanted, NEW owned \in SUBSET Outpoints, Offer(c, n, owned)
      PROVE  StockInv'
  <2>1. Picked({a \in holds : Of[a] = c /\ At[a] \in owned}, n) \in SUBSET Allocs
    BY <1>t DEF Picked, TypeOK
  <2>2. offers' \subseteq Offers
    BY <1>1, <1>t, <2>1 DEF Offer, TypeOK, Offers
  <2>3. TypeOK'
    BY <1>1, <1>t, <2>2 DEF Offer, TypeOK, request, result, bounds
  <2> QED BY <1>1, <1>t, <2>3, StockStays DEF Offer, request
<1>2. CASE Ask
  <2>1. sale' \in Sales \cup {None}
    <3>1. ASSUME NEW f \in offers PROVE Chosen(f.picked) \in SUBSET Outpoints
      BY <1>t, FindingsAssumption DEF TypeOK, Offers, Chosen
    <3>2. Deliveries \subseteq SUBSET Outpoints
      BY FindingsAssumption
    <3>3. \/ sale' = None
          \/ \E g, w \in BOOLEAN, names \in SUBSET Outpoints :
               sale' = [graph |-> g, own |-> w, names |-> names]
      <4>1. CASE sale' = None
        BY <4>1
      <4>2. CASE sale' = [graph |-> FALSE, own |-> FALSE, names |-> {}]
        BY <4>2
      <4>3. ASSUME NEW f \in offers,
                   sale' = [graph |-> TRUE, own |-> TRUE, names |-> Chosen(f.picked)]
            PROVE  \E g, w \in BOOLEAN, names \in SUBSET Outpoints :
                     sale' = [graph |-> g, own |-> w, names |-> names]
        BY <3>1, <4>3
      <4>4. ASSUME NEW names \in Deliveries,
                   sale' = [graph |-> TRUE, own |-> FALSE, names |-> names]
            PROVE  \E g, w \in BOOLEAN, n \in SUBSET Outpoints :
                     sale' = [graph |-> g, own |-> w, names |-> n]
        BY <3>2, <4>4
      <4> QED BY <1>2, <4>1, <4>2, <4>3, <4>4 DEF Ask
    <3> QED BY <3>3 DEF Sales
  <2>2. TypeOK'
    BY <1>2, <1>t, <1>q, <2>1 DEF Ask, Goes, TypeOK, result, bounds, Building
  <2> QED BY <1>2, <2>2, StockStays DEF Ask
<1>3. CASE OpenStock
  <2>1. TypeOK'
    BY <1>3, <1>t DEF OpenStock, Goes, TypeOK, request, result, bounds, Building, Ended
  <2> QED BY <1>3, <1>t, <2>1, StockStays DEF OpenStock, request
<1>4. CASE Decode
  <2>1. TypeOK'
    BY <1>4, <1>t DEF Decode, Goes, TypeOK, request, bounds, Building
  <2> QED BY <1>4, <1>t, <2>1, StockStays DEF Decode, request
<1>5. CASE Deliver
  <2>1. req \in Requests /\ req \in RequestType
    BY <1>5, <1>t, <1>q DEF Deliver
  <2>2. req.consignment # None => req.consignment.gives \in Contracts \cup {None}
    BY <2>1 DEF RequestType, Consignments
  <2>3. label' \in Contracts \cup {None} /\ rgbIn' \in Nat
    BY <1>5, <1>t, <2>2 DEF Deliver, TypeOK
  <2>4. findings' \subseteq Blocks \cup Warns
    <3>1. PICK names : Finds(names) /\ names \subseteq {"invalid", "no_delivery"}
      BY <1>5 DEF Deliver
    <3> QED BY <3>1, <1>t DEF Finds, Blocks, TypeOK
  <2>5. failed' \in BOOLEAN
    BY <1>5 DEF Deliver
  <2>6. TypeOK'
    BY <1>5, <1>t, <2>3, <2>4, <2>5 DEF Deliver, Goes, TypeOK, request, bounds, Building
  <2> QED BY <1>5, <1>t, <2>6, StockStays DEF Deliver, request
<1>6. CASE Value
  <2>1. holds \subseteq Allocs /\ known \subseteq Contracts
    BY <1>t DEF TypeOK
  <2>2. Gross(SpentAnchors) \in Nat
    BY <2>1, GrossFacts
  <2>3. Gross(SpentAnchors) > 0 => First \in Contracts
    <3>1. Gross(SpentAnchors) > 0 => known # {}
      BY <2>1, <2>2, GrossFacts DEF StockInv
    <3> QED BY <2>1, <3>1, FirstIsListed
  <2>5. rgbOut' \in Nat /\ label' \in Contracts \cup {None}
    BY <1>6, <1>t, <2>2, <2>3 DEF Value, TypeOK
  <2>6. findings' \subseteq Blocks \cup Warns
    BY <1>6, <1>t DEF Value, Finds, Warns, TypeOK
  <2>7. TypeOK'
    BY <1>6, <1>t, <2>5, <2>6 DEF Value, Goes, TypeOK, request, bounds, Building, Ended
  <2> QED BY <1>6, <1>t, <2>7, StockStays DEF Value, request
<1>7. CASE Verify
  <2>1. findings' \subseteq Blocks \cup Warns
    <3>1. QuoteFindings \subseteq Blocks
      BY DEF QuoteFindings, Blocks
    <3>2. PICK names : Finds(QuoteFindings \cup names) /\ names \subseteq {"unverified", "not_mined"}
      BY <1>7 DEF Verify
    <3> QED BY <3>1, <3>2, <1>t DEF Finds, Blocks, TypeOK
  <2>2. failed' \in BOOLEAN
    BY <1>7 DEF Verify
  <2>3. TypeOK'
    BY <1>7, <1>t, <2>1, <2>2 DEF Verify, Goes, TypeOK, request, bounds, Building
  <2> QED BY <1>7, <1>t, <2>3, StockStays DEF Verify, request
<1>8. CASE Name
  <2>1. findings' \subseteq Blocks \cup Warns
    <3>1. PICK names : Finds(names) /\ names \subseteq {"unnamed", "spliced"}
      BY <1>8 DEF Name
    <3> QED BY <3>1, <1>t DEF Finds, Blocks, TypeOK
  <2>2. failed' \in BOOLEAN
    BY <1>8 DEF Name
  <2>3. TypeOK'
    BY <1>8, <1>t, <2>1, <2>2 DEF Name, Goes, TypeOK, request, bounds, Pending
  <2> QED BY <1>8, <1>t, <2>3, StockStays DEF Name, request
<1>9. CASE Throws \/ Sign \/ \E approve \in BOOLEAN : Decide(approve)
  <2>1. TypeOK'
    BY <1>9, <1>t DEF Throws, Sign, Decide, Goes, TypeOK, request, result, bounds, Pending, Ended
  <2> QED BY <1>9, <1>t, <2>1, StockStays DEF Throws, Sign, Decide, Building, request
<1>10. CASE LockOrUnlock
  <2>1. TypeOK'
    BY <1>10, <1>t, FindingsAssumption DEF LockOrUnlock, TypeOK, request, result
  <2> QED BY <1>10, <1>t, <2>1, StockStays DEF LockOrUnlock, request
<1>11. ASSUME NEW a \in Allocs, Drain(a) PROVE StockInv'
  <2>1. TypeOK'
    BY <1>11, <1>t, FindingsAssumption DEF Drain, TypeOK, request, result
  <2>2. \A b \in holds' : Of[b] \in known'
    BY <1>11, <1>t DEF Drain, TypeOK, StockInv
  <2> QED BY <1>11, <1>t, <2>1, <2>2 DEF Drain, StockInv, request
<1>12. CASE UNCHANGED vars
  <2>1. TypeOK'
    BY <1>12, <1>t DEF vars, TypeOK
  <2> QED BY <1>12, <1>t, <2>1, StockStays DEF vars
<1> QED BY <1>1, <1>2, <1>3, <1>4, <1>5, <1>6, <1>7, <1>8, <1>9, <1>10, <1>11, <1>12 DEF Next, Build

\* Every reachable state is well typed: the amounts are numbers, the label a contract,
\* the findings those there are, whatever the stock, the requests and the failures.
THEOREM TypeCorrect == Spec => []TypeOK
PROOF
<1>1. StockInv => TypeOK
  BY DEF StockInv
<1> QED BY <1>1, InitStock, StepStock, PTL DEF Spec

\* What createTransfer() offers covers the amount, and with any allocation less it would
\* not, for any amounts, any allocations at an outpoint and whatever part of the scan
\* failed.
THEOREM OffersAreTight == Spec => OfferIsTight
PROOF
<1>1. ASSUME TypeOK, [Next]_vars, NEW f \in offers' \ offers
      PROVE  /\ \A a \in f.picked :
                  a \in holds /\ Of[a] = f.of /\ Total(f.picked \ {a}) < f.want
             /\ Total(f.picked) >= f.want
  <2>1. PICK c \in Contracts, n \in Wanted, owned \in SUBSET Outpoints : Offer(c, n, owned)
    <3>1. offers' # offers
      BY <1>1
    <3> QED BY <1>1, <3>1 DEF Next, Ask, Build, OpenStock, Decode, Deliver, Value, Verify, Name,
                              Throws, Decide, Sign, LockOrUnlock, Drain, vars
  <2> DEFINE S == {a \in holds : Of[a] = c /\ At[a] \in owned}
  <2>2. f = [of |-> c, want |-> n, picked |-> Picked(S, n)] /\ Total(Picked(S, n)) >= n
    BY <1>1, <2>1 DEF Offer
  <2>3. n \in Nat /\ Picked(S, n) \subseteq S
    BY FindingsAssumption DEF Picked
  <2>4. \A a \in Picked(S, n) : Total(Picked(S, n) \ {a}) < n
    <3>1. S \in SUBSET Allocs
      BY <1>1 DEF TypeOK
    <3> HIDE DEF S
    <3> QED BY <2>3, <3>1, PickedIsTight
  <2>5. f.of = c /\ f.want = n /\ f.picked = Picked(S, n)
    BY <2>2
  <2> QED BY <2>2, <2>3, <2>4, <2>5
<1>2. TypeOK /\ [Next]_vars => \A f \in offers' \ offers :
             /\ \A a \in f.picked :
                  a \in holds /\ Of[a] = f.of /\ Total(f.picked \ {a}) < f.want
             /\ Total(f.picked) >= f.want
  BY <1>1
<1> QED BY <1>2, TypeCorrect, PTL DEF Spec, OfferIsTight

----------------------------------------------------------------------------
\* What the build has read by each place.

Early == {"none", "opening", "decoding", "delivering"}
AfterValue == {"verifying", "naming", "shown", "signing", "signed"}
Delivers ==
  /\ Receives /\ req.consignment # None
  /\ req.consignment.graph /\ req.consignment.gives # None
Gift == IF rgbIn = 1 THEN req.consignment.gives ELSE None

DeliveryIsRead ==
  /\ rgbIn \in {0, 1}
  /\ rgbIn = 1 => Delivers
  /\ Delivers => rgbIn = 1 \/ failed
OutIsRead ==
  /\ ~ours => rgbOut = 0
  /\ rgbOut > 0 /\ req.consignment = None => "unverified_spend" \in findings
OutIsCurrent == rgbOut = Gross(SpentAnchors) /\ label = (IF rgbOut > 0 THEN First ELSE Gift)

ReadInv ==
  /\ pc \in Early => rgbIn = 0 /\ rgbOut = 0 /\ label = None /\ findings = {}
  /\ pc \in Delivering => DeliveryIsRead
  /\ pc = "valuing" => label = Gift
  /\ pc \in AfterValue => OutIsRead /\ (grown \/ OutIsCurrent)
  /\ pc \in Delivering /\ Honest => failed \/ Unblocked

LEMMA SameGross ==
  ASSUME UNCHANGED <<holds, known, req, ours>>
  PROVE  Gross(SpentAnchors)' = Gross(SpentAnchors) /\ First' = First
PROOF
<1>1. SpentAnchors' = SpentAnchors
  BY DEF SpentAnchors
<1>2. \A S : Gross(S)' = Gross(S)
  BY TotalIsSum DEF Gross, Sum, IsSum, Pick
<1>3. First' = First
  BY DEF First
<1> QED BY <1>1, <1>2, <1>3

\* What is asked of the request depends on nothing else.
LEMMA SameRequest ==
  ASSUME UNCHANGED <<req, sale, ours>>
  PROVE  (Honest' <=> Honest) /\ (Delivers' <=> Delivers)
PROOF BY DEF Honest, Delivers, Receives, PayingBtc, SpentAnchors

\* A step that leaves the request and what was read alone, and passes no place.
LEMMA ReadStays ==
  ASSUME ReadInv, UNCHANGED <<holds, known, req, sale, ours, rgbIn, rgbOut, label, findings, failed, grown>>,
         pc' \in Early => pc \in Early,
         pc' \in Delivering => pc \in Delivering,
         pc' = "valuing" => pc = "valuing",
         pc' \in AfterValue => pc \in AfterValue
  PROVE  ReadInv'
PROOF
<1>1. (Honest' <=> Honest) /\ (Delivers' <=> Delivers)
  BY SameRequest
<1>2. Gross(SpentAnchors)' = Gross(SpentAnchors) /\ First' = First
  BY SameGross
<1>3. Gift' = Gift
  BY DEF Gift
<1>4. (DeliveryIsRead' <=> DeliveryIsRead) /\ (Unblocked' <=> Unblocked)
  BY <1>1 DEF DeliveryIsRead, Unblocked
<1>5. OutIsRead' <=> OutIsRead
  BY DEF OutIsRead
<1>6. OutIsCurrent' <=> OutIsCurrent
  BY <1>2, <1>3 DEF OutIsCurrent
<1> QED BY <1>1, <1>3, <1>4, <1>5, <1>6 DEF ReadInv

LEMMA DeliverRead == StockInv /\ ReadInv /\ Deliver => ReadInv'
PROOF
<1> SUFFICES ASSUME StockInv, ReadInv, Deliver PROVE ReadInv'
  OBVIOUS
<1> DEFINE reads == Receives /\ req.consignment # None
           valid == reads /\ unlocked /\ req.consignment.graph
           delivers == valid /\ req.consignment.gives # None
           names == CASE ~(Receives /\ PayingBtc) \/ delivers -> {}
                      [] Receives /\ PayingBtc /\ reads /\ ~valid -> {"invalid"}
                      [] OTHER -> {"no_delivery"}
<1>1. /\ pc = "delivering" /\ pc' = "valuing" /\ UNCHANGED <<req, sale, ours>>
      /\ rgbIn' = (IF delivers THEN 1 ELSE 0)
      /\ label' = (IF delivers THEN req.consignment.gives ELSE label)
      /\ failed' = (failed \/ (reads /\ ~unlocked))
  BY DEF Deliver, Goes, request
<1>2. Finds(names)
  BY DEF Deliver
<1>3. rgbIn = 0 /\ label = None /\ findings = {} /\ unlocked \in BOOLEAN /\ failed \in BOOLEAN
  BY <1>1 DEF ReadInv, Early, StockInv, TypeOK
<1>4. (Honest' <=> Honest) /\ (Delivers' <=> Delivers)
  BY <1>1, SameRequest
<1>5. delivers => Delivers
  BY DEF Delivers
<1>6. Delivers => delivers \/ failed'
  BY <1>1 DEF Delivers
<1>7. DeliveryIsRead'
  BY <1>1, <1>4, <1>5, <1>6 DEF DeliveryIsRead
<1>8. label' = Gift'
  BY <1>1, <1>3 DEF Gift
<1>9. ASSUME Honest, ~failed' PROVE Unblocked'
  <2>1. names = {}
    <3>1. ~(Receives /\ PayingBtc) \/ delivers
      <4> SUFFICES ASSUME Receives /\ PayingBtc PROVE delivers
        OBVIOUS
      <4>1. reads /\ req.consignment.gives # None /\ req.consignment.graph
        BY <1>9 DEF Honest
      <4>2. unlocked
        BY <1>1, <1>9, <4>1
      <4> QED BY <4>1, <4>2
    <3> QED BY <3>1
  <2> HIDE DEF names
  <2> QED BY <1>2, <1>3, <2>1 DEF Finds, Unblocked
<1> HIDE DEF names
<1> QED BY <1>1, <1>4, <1>7, <1>8, <1>9 DEF ReadInv, Early, Delivering, AfterValue

LEMMA ValueRead == StockInv /\ ReadInv /\ Value => ReadInv'
PROOF
<1> SUFFICES ASSUME StockInv, ReadInv, Value PROVE ReadInv'
  OBVIOUS
<1> DEFINE gross == Gross(SpentAnchors)
<1>1. pc = "valuing" /\ pc' \in {"failed", "verifying"}
      /\ UNCHANGED <<holds, known, req, sale, ours, rgbIn, grown, failed>>
  BY DEF Value, Goes, request
<1>2. CASE pc' = "failed"
  BY <1>2 DEF ReadInv, Early, Delivering, AfterValue
<1>3. CASE pc' = "verifying"
  <2>1. /\ rgbOut' = gross
        /\ label' = (IF gross > 0 THEN First ELSE label)
        /\ Finds(IF gross > 0 /\ req.consignment = None THEN {"unverified_spend"} ELSE {})
    BY <1>3 DEF Value, Goes
  <2>2. holds \subseteq Allocs
    BY DEF StockInv, TypeOK
  <2>3. gross \in Nat /\ (~ours => gross = 0)
    <3>1. gross \in Nat /\ (gross = 0 <=> \A a \in holds : At[a] \notin SpentAnchors)
      BY <2>2, GrossFacts
    <3> QED BY <3>1 DEF SpentAnchors
  <2>4. gross' = gross /\ First' = First
    BY <1>1, SameGross
  <2>5. (Honest' <=> Honest) /\ (Delivers' <=> Delivers) /\ Gift' = Gift
    BY <1>1, SameRequest DEF Gift
  <2>6. DeliveryIsRead'
    BY <1>1, <2>5 DEF ReadInv, DeliveryIsRead, Delivering
  <2>7. OutIsRead'
    BY <1>1, <2>1, <2>3 DEF OutIsRead, Finds
  <2>8. OutIsCurrent'
    <3>1. label = Gift
      BY <1>1 DEF ReadInv
    <3>2. rgbOut' = gross' /\ label' = (IF rgbOut' > 0 THEN First' ELSE Gift')
      BY <2>1, <2>4, <2>5, <3>1
    <3> QED BY <3>2 DEF OutIsCurrent
  <2>9. Unblocked => Unblocked'
    BY <2>1 DEF Finds, Unblocked, Blocks
  <2> QED BY <1>1, <1>3, <2>5, <2>6, <2>7, <2>8, <2>9 DEF ReadInv, Early, Delivering, AfterValue
<1> QED BY <1>1, <1>2, <1>3

\* The two gates after it read nothing that the row shows.
LEMMA GateRead ==
  ASSUME StockInv, ReadInv, UNCHANGED <<holds, known, req, sale, ours, rgbIn, rgbOut, label, grown>>,
         pc \in {"verifying", "naming"}, pc' \in {"naming", "shown"},
         failed => failed', NEW names, Finds(names),
         Honest => failed' \/ names \cap Blocks = {}
  PROVE  ReadInv'
PROOF
<1>1. (Honest' <=> Honest) /\ (Delivers' <=> Delivers) /\ Gift' = Gift
  BY SameRequest DEF Gift
<1>2. Gross(SpentAnchors)' = Gross(SpentAnchors) /\ First' = First
  BY SameGross
<1>3. DeliveryIsRead'
  BY <1>1 DEF ReadInv, DeliveryIsRead, Delivering
<1>4. OutIsRead'
  BY DEF ReadInv, OutIsRead, AfterValue, Finds
<1>5. grown' \/ OutIsCurrent'
  <2>1. grown \/ OutIsCurrent
    BY DEF ReadInv, AfterValue
  <2>2. OutIsCurrent => OutIsCurrent'
    BY <1>1, <1>2 DEF OutIsCurrent
  <2> QED BY <2>1, <2>2
<1>6. Honest' => failed' \/ Unblocked'
  BY <1>1 DEF ReadInv, Delivering, Finds, Unblocked
<1> QED BY <1>3, <1>4, <1>5, <1>6 DEF ReadInv, Early, Delivering, AfterValue

LEMMA VerifyRead == StockInv /\ ReadInv /\ Verify => ReadInv'
PROOF
<1> SUFFICES ASSUME StockInv, ReadInv, Verify PROVE ReadInv'
  OBVIOUS
<1>1. PICK answers \in BOOLEAN :
        /\ Finds(QuoteFindings \cup
             CASE req.consignment = None -> {}
               [] req.consignment # None /\ ~(unlocked /\ answers) -> {"unverified"}
               [] OTHER -> IF req.consignment.mined THEN {} ELSE {"not_mined"})
        /\ failed' = (failed \/ (req.consignment # None /\ ~(unlocked /\ answers)))
  BY DEF Verify
<1> DEFINE history == CASE req.consignment = None -> {}
                        [] req.consignment # None /\ ~(unlocked /\ answers) -> {"unverified"}
                        [] OTHER -> IF req.consignment.mined THEN {} ELSE {"not_mined"}
<1>2. /\ pc = "verifying" /\ pc' = "naming"
      /\ UNCHANGED <<holds, known, req, sale, ours, rgbIn, rgbOut, label, grown>>
  BY DEF Verify, Goes, request
<1>3. ASSUME Honest, ~failed' PROVE QuoteFindings = {} /\ history = {}
  <2>1. ours \in BOOLEAN /\ (~ours => rgbOut = 0) /\ rgbIn \in {0, 1}
    BY <1>2 DEF ReadInv, OutIsRead, DeliveryIsRead, Delivering, AfterValue, StockInv, TypeOK
  <2>2. ~(rgbIn < rgbOut /\ ~(ours /\ req.payout))
    <3>1. CASE ours
      BY <1>3, <3>1 DEF Honest
    <3>2. CASE ~ours
      BY <2>1, <3>2
    <3> QED BY <2>1, <3>1, <3>2
  <2>3. QuoteFindings = {}
    BY <1>3, <2>2 DEF QuoteFindings, Honest
  <2>4. history = {}
    <3>1. req.consignment # None => unlocked /\ answers /\ req.consignment.mined
      BY <1>1, <1>3 DEF Honest
    <3> QED BY <3>1
  <2> QED BY <2>3, <2>4
<1>4. Finds(QuoteFindings \cup history) /\ (failed => failed')
  BY <1>1
<1> HIDE DEF history
<1>5. Honest => failed' \/ (QuoteFindings \cup history) \cap Blocks = {}
  BY <1>3
<1> QED BY <1>2, <1>4, <1>5, GateRead

LEMMA NameRead == StockInv /\ ReadInv /\ Name => ReadInv'
PROOF
<1> SUFFICES ASSUME StockInv, ReadInv, Name PROVE ReadInv'
  OBVIOUS
<1> DEFINE checked == unlocked /\ sale # None /\ sale.graph
           names == CASE sale = None \/ SpentAnchors = {} -> {}
                      [] ~(sale = None \/ SpentAnchors = {}) /\ ~checked -> {"unnamed"}
                      [] OTHER -> IF Within(SpentAnchors, sale.names) THEN {} ELSE {"spliced"}
<1>1. /\ pc = "naming" /\ pc' = "shown"
      /\ UNCHANGED <<holds, known, req, sale, ours, rgbIn, rgbOut, label, grown>>
      /\ failed' = (failed \/ (sale # None /\ SpentAnchors # {} /\ ~unlocked))
  BY DEF Name, Goes, request
<1>2. Finds(names)
  BY DEF Name
<1>3. ASSUME Honest, ~failed' PROVE names = {}
  <2>1. CASE sale = None \/ SpentAnchors = {}
    BY <2>1
  <2>2. CASE ~(sale = None \/ SpentAnchors = {})
    <3>1. checked /\ SpentAnchors \subseteq sale.names
      BY <1>1, <1>3, <2>2 DEF Honest
    <3> QED BY <2>2, <3>1 DEF Within
  <2> QED BY <2>1, <2>2
<1> HIDE DEF names
<1> QED BY <1>1, <1>2, <1>3, GateRead

LEMMA StepRead == StockInv /\ ReadInv /\ [Next]_vars => ReadInv'
PROOF
<1> SUFFICES ASSUME StockInv, ReadInv, [Next]_vars PROVE ReadInv'
  OBVIOUS
<1> USE DEF Goes, request, result
<1>1. ASSUME NEW c \in Contracts, NEW n \in Wanted, NEW owned \in SUBSET Outpoints, Offer(c, n, owned)
      PROVE  ReadInv'
  BY <1>1, ReadStays DEF Offer
<1>2. CASE Ask
  BY <1>2 DEF Ask, ReadInv, Early, Delivering, AfterValue
<1>3. CASE OpenStock
  BY <1>3, ReadStays DEF OpenStock, Early, Delivering, AfterValue
<1>4. CASE Decode
  BY <1>4 DEF Decode, ReadInv, Early, Delivering, AfterValue
<1>5. CASE Throws
  BY <1>5, ReadStays DEF Throws, Early, Delivering, AfterValue
<1>6. ASSUME NEW approve \in BOOLEAN, Decide(approve) PROVE ReadInv'
  BY <1>6, ReadStays DEF Decide, Early, Delivering, AfterValue
<1>7. CASE Sign
  BY <1>7, ReadStays DEF Sign, Early, Delivering, AfterValue
<1>8. CASE LockOrUnlock
  BY <1>8, ReadStays DEF LockOrUnlock
<1>9. ASSUME NEW a \in Allocs, Drain(a) PROVE ReadInv'
  <2>1. /\ pc \notin Ended /\ pc' = pc
        /\ UNCHANGED <<req, sale, ours, rgbIn, rgbOut, label, findings, failed>>
    BY <1>9 DEF Drain
  <2>2. pc \in AfterValue => grown'
    BY <1>9, <2>1 DEF Drain, AfterValue, Pending, Ended
  <2>3. (Honest' <=> Honest) /\ (Delivers' <=> Delivers) /\ Gift' = Gift
    BY <2>1, SameRequest DEF Gift
  <2>4. (DeliveryIsRead' <=> DeliveryIsRead) /\ (Unblocked' <=> Unblocked) /\ (OutIsRead' <=> OutIsRead)
    BY <2>1, <2>3 DEF DeliveryIsRead, Unblocked, OutIsRead
  <2> QED BY <2>1, <2>2, <2>3, <2>4 DEF ReadInv
<1>10. CASE UNCHANGED vars
  BY <1>10, ReadStays DEF vars
<1> QED BY <1>1, <1>2, <1>3, <1>4, <1>5, <1>6, <1>7, <1>8, <1>9, <1>10,
           DeliverRead, ValueRead, VerifyRead, NameRead DEF Next, Build

LEMMA ReadHolds == Spec => [](StockInv /\ ReadInv)
PROOF
<1>1. Init => ReadInv
  BY DEF Init, ReadInv, Early, Delivering, AfterValue
<1> QED BY <1>1, InitStock, StepStock, StepRead, PTL DEF Spec

\* An honest trade is blocked by a failed read only, at whatever point of the build it
\* fails, and whatever the amounts.
THEOREM HonestPasses == Spec => []HonestIsNotBlocked
PROOF
<1>1. ReadInv => HonestIsNotBlocked
  BY DEF ReadInv, HonestIsNotBlocked, Pending, Delivering, Unblocked
<1> QED BY <1>1, ReadHolds, PTL

\* RGB that is spent at keychain 10 with no consignment is warned of, whatever contracts
\* share the anchors, as long as the stock is the one that was read.
THEOREM RiskIsWarned == Spec => []RiskIsShown
PROOF
<1>1. StockInv /\ ReadInv => RiskIsShown
  <2> SUFFICES ASSUME StockInv, ReadInv, Signed, ~grown, req.consignment = None,
                      NEW a \in holds, At[a] \in SpentAnchors
               PROVE  "unverified_spend" \in findings
    BY DEF RiskIsShown
  <2>1. pc = "signed" /\ holds \subseteq Allocs
    BY DEF Signed, StockInv, TypeOK
  <2>2. rgbOut = Gross(SpentAnchors) /\ OutIsRead
    BY <2>1 DEF ReadInv, AfterValue, OutIsCurrent
  <2>3. Gross(SpentAnchors) \in Nat /\ Gross(SpentAnchors) # 0
    BY <2>1, GrossFacts
  <2>4. rgbOut \in Nat /\ rgbOut # 0
    BY <2>2, <2>3
  <2>5. rgbOut > 0
    BY <2>4
  <2> QED BY <2>2, <2>5 DEF OutIsRead
<1> QED BY <1>1, ReadHolds, PTL

LEMMA MovedIsShown ==
  ASSUME StockInv, ReadInv, Signed, ~grown, OneContract, AtAnchors, NEW c \in Contracts,
         SignInputs.outpoints # {} \/ SignInputs.btc
  PROVE  ShownOf(c) <= Moved(c) /\ (ShownOf(c) = Moved(c) \/ failed)
PROOF
<1> DEFINE of == {a \in holds : Of[a] = c /\ At[a] \in SignInputs.outpoints}
<1>1. pc = "signed" /\ ours /\ holds \subseteq Allocs /\ known \subseteq Contracts
  BY DEF Signed, SignInputs, StockInv, TypeOK
<1>2. of = {a \in holds : Of[a] = c /\ At[a] \in SpentAnchors}
  <2>1. SignInputs.outpoints = req.spends /\ SpentAnchors = req.spends \cap Anchors
    BY <1>1 DEF SignInputs, SpentAnchors
  <2> QED BY <2>1 DEF AtAnchors
<1>3. /\ rgbIn \in {0, 1} /\ (rgbIn = 1 => Delivers) /\ (Delivers => rgbIn = 1 \/ failed)
      /\ rgbOut = Gross(SpentAnchors) /\ label = (IF rgbOut > 0 THEN First ELSE Gift)
  BY <1>1 DEF ReadInv, Delivering, AfterValue, DeliveryIsRead, OutIsCurrent
<1>4. rgbOut \in Nat /\ (rgbOut = 0 <=> \A a \in holds : At[a] \notin SpentAnchors)
  BY <1>1, <1>3, GrossFacts
<1>5. req.receives \in BOOLEAN /\ (req.consignment # None => req.consignment.graph \in BOOLEAN)
  BY <1>1, RequestFacts DEF StockInv
<1>6. \A d \in Contracts : Delivered(d) <=> Delivers /\ req.consignment.gives = d
  BY <1>1, <1>5, FindingsAssumption DEF Delivered, Delivers, Receives
<1>7. of \in SUBSET Allocs /\ Total(of) \in Nat /\ (of = {} => Total(of) = 0)
  <2>1. of \in SUBSET Allocs
    BY <1>1
  <2> HIDE DEF of
  <2> QED BY <2>1, TotalFacts
<1>8. Moved(c) = (IF Delivered(c) THEN 1 ELSE 0) - Total(of)
  BY <1>1 DEF Moved
<1> HIDE DEF of
<1>9. CASE rgbOut = 0
  <2>1. of = {}
    BY <1>2, <1>4, <1>9
  <2>2. label = Gift
    BY <1>3, <1>9
  <2>3. ShownOf(c) = (IF Delivers /\ rgbIn = 1 /\ req.consignment.gives = c THEN 1 ELSE 0)
    BY <1>3, <1>9, <2>2, FindingsAssumption DEF ShownOf, Gift
  <2> QED BY <1>3, <1>6, <1>7, <1>8, <2>1, <2>3
<1>10. CASE rgbOut # 0
  <2> DEFINE about == known \cup {d \in Contracts : Delivered(d)}
  <2>1. IsFiniteSet(about) /\ Cardinality(about) = 1
    <3>1. about \subseteq Contracts
      BY <1>1
    <3>2. Cardinality(about) = 1
      BY <1>10 DEF OneContract
    <3> HIDE DEF about
    <3> QED BY <3>1, <3>2, FindingsAssumption, FS_Subset
  <2>2. PICK one : about = {one}
    <3> HIDE DEF about
    <3> QED BY <2>1, FS_Singleton
  <2>3. known # {}
    BY <1>4, <1>10 DEF StockInv
  <2>4. known = {one} /\ First = one
    BY <1>1, <2>2, <2>3, FirstIsListed
  <2>5. label = one
    BY <1>3, <1>4, <1>10, <2>4
  <2>6. Delivers => req.consignment.gives = one
    <3>1. Delivers => req.consignment.gives \in Contracts
      BY <1>1, FindingsAssumption DEF Delivers, StockInv, RequestType, Consignments
    <3> QED BY <1>6, <2>2, <3>1
  <2>7. CASE c = one
    <3>1. of = {a \in holds : At[a] \in SpentAnchors}
      BY <1>2, <2>4, <2>7 DEF StockInv
    <3>2. rgbOut = Total(of)
      BY <1>3, <3>1 DEF Gross
    <3>3. ShownOf(c) = rgbIn - Total(of)
      BY <2>5, <2>7, <3>2 DEF ShownOf
    <3>4. Delivered(c) <=> Delivers
      BY <1>6, <2>6, <2>7
    <3> QED BY <1>3, <1>7, <1>8, <3>3, <3>4
  <2>8. CASE c # one
    <3>1. of = {}
      BY <2>4, <2>8 DEF of, StockInv
    <3>2. ~Delivered(c)
      BY <1>6, <2>6, <2>8
    <3>3. ShownOf(c) = 0
      BY <2>5, <2>8 DEF ShownOf
    <3> QED BY <1>7, <1>8, <3>1, <3>2, <3>3
  <2> QED BY <2>7, <2>8
<1> QED BY <1>9, <1>10

\* The RGB row is what the signature moves, for any amounts, anchors and contracts, in
\* the requests and stocks that ShownIsMoved is about.
THEOREM RowIsMoved == Spec => []ShownIsMoved
PROOF
<1>1. StockInv /\ ReadInv => ShownIsMoved
  BY MovedIsShown DEF ShownIsMoved
<1> QED BY <1>1, ReadHolds, PTL
=============================================================================
