------------------------- MODULE AccountPoolProofs -------------------------
(***************************************************************************)
(* Type correctness of the account pool, the conservation of its credit    *)
(* and the fairness of its rotation, for every set of accounts, every      *)
(* table, weight and duration the assumptions of AccountPool allow; before *)
(* them, what a sum over a finite set is and how it changes.               *)
(***************************************************************************)
EXTENDS AccountShares, FiniteSetTheorems, WellFoundedInduction, TLAPS

\* Every nonempty set of natural numbers has a least element.
LEMMA Least ==
    ASSUME NEW S \in SUBSET Nat, S # {}
    PROVE  \E x \in S : \A y \in S : x <= y
<1>1. PICK x \in S : \A y \in S : <<y, x>> \notin OpToRel(<, Nat)
    BY NatLessThanWellFounded, WFMin, Zenon
<1>2. \A y \in S : ~(y < x)
    BY <1>1 DEF OpToRel
<1>3. x \in Nat /\ \A y \in S : y \in Nat
    OBVIOUS
<1>4. QED
    BY <1>2, <1>3

\* Of some subsets of a finite set one contains no other.
LEMMA Smallest ==
    ASSUME NEW S, IsFiniteSet(S), NEW bad \in SUBSET (SUBSET S), bad # {}
    PROVE  \E s \in bad : \A t \in bad : t \subseteq s => t = s
<1>1. bad \subseteq FiniteSubsetsOf(S)
    BY FS_FiniteSubsetsOfFinite
<1>2. PICK s \in bad : \A t \in bad : <<t, s>> \notin StrictSubsetOrdering(S)
    BY <1>1, FS_StrictSubsetOrderingWellFounded, WFMin, Zenon
<1>3. QED
    BY <1>2 DEF StrictSubsetOrdering

\* The element a fold over a set takes first.
Any(s) == CHOOSE x \in s : TRUE

\* g[s] is what the fold adds up over s, for every part s of S.
Sums(g, w, S) ==
    /\ g \in [SUBSET S -> Int]
    /\ \A s \in SUBSET S : g[s] = IF s = {} THEN 0 ELSE w[Any(s)] + g[s \ {Any(s)}]

\* What a function that adds up in this way adds up to is a number.
LEMMA SumsType ==
    ASSUME NEW S, IsFiniteSet(S), NEW w \in [S -> Int], NEW g,
           g = [s \in SUBSET S |-> IF s = {} THEN 0 ELSE w[Any(s)] + g[s \ {Any(s)}]]
    PROVE  Sums(g, w, S)
<1> DEFINE bad == {s \in SUBSET S : g[s] \notin Int}
<1>0. bad \in SUBSET (SUBSET S)
    OBVIOUS
<1>1. ASSUME bad # {}
      PROVE  FALSE
  <2>1. PICK s \in bad : \A t \in bad : t \subseteq s => t = s
    <3> HIDE DEF bad
    <3>1. QED
        BY <1>0, <1>1, Smallest
  <2>2. s # {} /\ s \in SUBSET S /\ g[s] = w[Any(s)] + g[s \ {Any(s)}]
    <3>1. s \in SUBSET S /\ g[s] \notin Int
        BY <2>1
    <3>2. g[s] = IF s = {} THEN 0 ELSE w[Any(s)] + g[s \ {Any(s)}]
        BY <3>1
    <3>3. QED
        BY <3>1, <3>2
  <2>3. Any(s) \in s
      BY <2>2 DEF Any
  <2>4. s \ {Any(s)} \in SUBSET S /\ s \ {Any(s)} \notin bad
      BY <2>1, <2>2, <2>3
  <2>5. w[Any(s)] \in Int /\ g[s \ {Any(s)}] \in Int
      BY <2>2, <2>3, <2>4
  <2>6. QED
      BY <2>1, <2>2, <2>5
<1>2. g \in [SUBSET S -> Int]
    BY <1>1
<1>3. QED
    BY <1>2 DEF Sums

\* Over a finite set the fold adds something up.
LEMMA SumsExist ==
    ASSUME NEW S, IsFiniteSet(S), NEW w \in [S -> Int]
    PROVE  \E g : Sums(g, w, S)
<1> DEFINE upTo(n) == {s \in SUBSET S : Cardinality(s) <= n}
           good(n, g) == /\ g \in [upTo(n) -> Int]
                         /\ \A s \in upTo(n) : g[s] = IF s = {} THEN 0 ELSE w[Any(s)] + g[s \ {Any(s)}]
           bad == {n \in Nat : \A g : ~good(n, g)}
<1>0. /\ \A n : \A s : s \in upTo(n) <=> s \in SUBSET S /\ Cardinality(s) <= n
      /\ \A n : n \in bad <=> n \in Nat /\ \A g : ~good(n, g)
      /\ bad \in SUBSET Nat
    OBVIOUS
<1> HIDE DEF upTo, bad
<1>1. \A s \in SUBSET S : IsFiniteSet(s) /\ Cardinality(s) \in Nat
    BY FS_Subset, FS_CardinalityType
<1>2. \A s \in SUBSET S : s # {} =>
         /\ Any(s) \in s /\ s \ {Any(s)} \in SUBSET S
         /\ Cardinality(s \ {Any(s)}) = Cardinality(s) - 1
    BY <1>1, FS_RemoveElement DEF Any
<1>3. ASSUME bad # {}
      PROVE  FALSE
  <2>1. PICK n \in bad : \A m \in bad : n <= m
      BY <1>0, <1>3, Least
  <2>a. n \in Nat /\ \A g : ~good(n, g)
      BY <1>0, <2>1
  <2>2. CASE n = 0
    <3> DEFINE g == [s \in upTo(0) |-> 0]
    <3>1. \A s \in upTo(0) : s = {}
        BY <1>0, <1>1, FS_EmptySet
    <3>2. good(0, g)
        BY <3>1
    <3>3. QED
        BY <2>a, <2>2, <3>2
  <2>3. CASE n # 0
    <3>1. n - 1 \in Nat /\ n - 1 \notin bad
      <4>1. n - 1 \in Nat /\ ~(n <= n - 1)
          BY <2>a, <2>3
      <4>2. QED
          BY <2>1, <4>1
    <3>2. PICK g : good(n - 1, g)
        BY <1>0, <3>1
    <3> DEFINE f == [s \in upTo(n) |-> IF s \in upTo(n - 1) THEN g[s]
                                       ELSE w[Any(s)] + g[s \ {Any(s)}]]
    <3>3. ASSUME NEW s \in upTo(n), s # {}
          PROVE  s \ {Any(s)} \in upTo(n - 1) /\ Any(s) \in S
      <4>1. s \in SUBSET S /\ Cardinality(s) <= n /\ Cardinality(s) \in Nat
          BY <1>0, <1>1
      <4>2. s \ {Any(s)} \in SUBSET S /\ Cardinality(s \ {Any(s)}) <= n - 1 /\ Any(s) \in s
          BY <1>2, <2>a, <3>3, <4>1
      <4>3. QED
          BY <1>0, <4>1, <4>2
    <3>4. ASSUME NEW s \in upTo(n - 1)
          PROVE  s \in upTo(n)
      <4>1. s \in SUBSET S /\ Cardinality(s) <= n - 1 /\ Cardinality(s) \in Nat
          BY <1>0, <1>1
      <4>2. Cardinality(s) <= n
          BY <2>a, <4>1
      <4>3. QED
          BY <1>0, <4>1, <4>2
    <3>5. {} \in upTo(n - 1)
      <4>1. Cardinality({}) <= n - 1
          BY <3>1, FS_EmptySet
      <4>2. QED
          BY <1>0, <4>1
    <3>6. \A s \in upTo(n) : s # {} => w[Any(s)] \in Int /\ g[s \ {Any(s)}] \in Int
        BY <3>2, <3>3
    <3>7. /\ \A s \in upTo(n - 1) : f[s] = g[s] /\ g[s] \in Int
          /\ \A s \in upTo(n) : f[s] = IF s \in upTo(n - 1) THEN g[s]
                                        ELSE w[Any(s)] + g[s \ {Any(s)}]
          /\ DOMAIN f = upTo(n) /\ f = [s \in upTo(n) |-> f[s]]
        BY <3>2, <3>4
    <3> HIDE DEF f
    <3>8. f \in [upTo(n) -> Int]
      <4>1. ASSUME NEW s \in upTo(n)
            PROVE  f[s] \in Int
        <5>1. CASE s \in upTo(n - 1)
            BY <3>7, <5>1
        <5>2. CASE s \notin upTo(n - 1)
          <6>1. s # {} /\ f[s] = w[Any(s)] + g[s \ {Any(s)}]
              BY <3>5, <3>7, <5>2
          <6>2. w[Any(s)] \in Int /\ g[s \ {Any(s)}] \in Int
              BY <3>6, <6>1
          <6>3. QED
              BY <6>1, <6>2
        <5>3. QED
            BY <5>1, <5>2
      <4>2. QED
          BY <3>7, <4>1
    <3>9. ASSUME NEW s \in upTo(n)
          PROVE  f[s] = IF s = {} THEN 0 ELSE w[Any(s)] + f[s \ {Any(s)}]
      <4>1. CASE s = {}
          BY <3>2, <3>5, <3>7, <4>1
      <4>2. CASE s # {}
        <5>1. f[s \ {Any(s)}] = g[s \ {Any(s)}]
            BY <3>3, <3>7, <4>2
        <5>2. s \in upTo(n - 1) => g[s] = w[Any(s)] + g[s \ {Any(s)}]
            BY <3>2, <4>2
        <5>3. QED
            BY <3>7, <4>2, <5>1, <5>2
      <4>3. QED
          BY <4>1, <4>2
    <3>10. good(n, f)
        BY <3>8, <3>9
    <3>11. QED
        BY <2>a, <3>10
  <2>4. QED
      BY <2>2, <2>3
<1>4. PICK g : good(Cardinality(S), g)
  <2>1. Cardinality(S) \in Nat /\ Cardinality(S) \notin bad
      BY <1>1, <1>3
  <2>2. QED
      BY <1>0, <2>1
<1>5. upTo(Cardinality(S)) = SUBSET S
  <2>1. \A s \in SUBSET S : Cardinality(s) <= Cardinality(S)
      BY FS_Subset
  <2>2. QED
      BY <1>0, <2>1
<1>6. QED
    BY <1>4, <1>5 DEF Sums

\* Any element may be taken first.
LEMMA SumsAny ==
    ASSUME NEW S, IsFiniteSet(S), NEW w \in [S -> Int], NEW g, Sums(g, w, S),
           NEW u \in SUBSET S, NEW y \in u
    PROVE  g[u] = w[y] + g[u \ {y}]
<1> DEFINE bad == {s \in SUBSET S : \E z \in s : g[s] # w[z] + g[s \ {z}]}
<1>0. bad \in SUBSET (SUBSET S)
    OBVIOUS
<1>1. ASSUME bad # {}
      PROVE  FALSE
  <2>1. PICK s \in bad : \A t \in bad : t \subseteq s => t = s
    <3> HIDE DEF bad
    <3>1. QED
        BY <1>0, <1>1, Smallest
  <2>2. PICK z \in s : g[s] # w[z] + g[s \ {z}]
      BY <2>1
  <2> DEFINE x == Any(s)
  <2>3. /\ s \in SUBSET S /\ x \in s /\ z \in S /\ x \in S
        /\ g[s] = w[x] + g[s \ {x}]
      BY <2>1, <2>2 DEF Sums, Any
  <2>4. x # z
      BY <2>2, <2>3
  <2> HIDE DEF x
  <2>5. /\ s \ {x} \notin bad /\ s \ {z} \notin bad
        /\ s \ {x} \in SUBSET S /\ s \ {z} \in SUBSET S
        /\ z \in s \ {x} /\ x \in s \ {z}
      BY <2>1, <2>2, <2>3, <2>4
  <2>6. PICK both \in SUBSET S : both = (s \ {x}) \ {z} /\ both = (s \ {z}) \ {x}
      BY <2>3
  <2>7. g[s \ {x}] = w[z] + g[both] /\ g[s \ {z}] = w[x] + g[both]
      BY <2>5, <2>6
  <2>8. w[x] \in Int /\ w[z] \in Int /\ g[both] \in Int
      BY <2>3 DEF Sums
  <2> HIDE DEF bad
  <2>9. g[s] = w[z] + g[s \ {z}]
      BY <2>3, <2>7, <2>8
  <2>10. QED
      BY <2>2, <2>9
<1>2. QED
    BY <1>1

\* What is added on a part of the set is added to the sum.
LEMMA SumsPlus ==
    ASSUME NEW S, IsFiniteSet(S), NEW v \in [S -> Int], NEW w \in [S -> Int],
           NEW R \in SUBSET S, NEW e \in [R -> Int],
           \A a \in S : w[a] = IF a \in R THEN v[a] + e[a] ELSE v[a],
           NEW f, Sums(f, v, S), NEW g, Sums(g, w, S), NEW k, Sums(k, e, R)
    PROVE  g[S] = f[S] + k[R]
<1> DEFINE bad == {s \in SUBSET S : g[s] # f[s] + k[s \cap R]}
<1>0. IsFiniteSet(R) /\ bad \in SUBSET (SUBSET S)
    BY FS_Subset
<1>1. ASSUME bad # {}
      PROVE  FALSE
  <2>1. PICK s \in bad : \A t \in bad : t \subseteq s => t = s
    <3> HIDE DEF bad
    <3>1. QED
        BY <1>0, <1>1, Smallest
  <2>2. s # {}
    <3>1. {} \in SUBSET S /\ {} \in SUBSET R
        OBVIOUS
    <3>2. k[{}] = 0 /\ f[{}] = 0 /\ g[{}] = 0
        BY <3>1 DEF Sums
    <3>3. {} \cap R = {} /\ 0 = 0 + 0
        OBVIOUS
    <3>4. {} \notin bad
        BY <3>2, <3>3
    <3>5. QED
        BY <2>1, <3>4
  <2> DEFINE x == Any(s)
             rest == s \ {x}
  <2>3. /\ s \in SUBSET S /\ x \in s /\ x \in S
        /\ g[s] = w[x] + g[rest] /\ f[s] = v[x] + f[rest]
      BY <2>1, <2>2 DEF Sums, Any
  <2>4. rest \in SUBSET S /\ rest \notin bad
      BY <2>1, <2>3
  <2>5. g[rest] = f[rest] + k[rest \cap R]
      BY <2>4
  <2>6. k[s \cap R] = IF x \in R THEN e[x] + k[rest \cap R] ELSE k[rest \cap R]
    <3>1. CASE x \in R
      <4>1. s \cap R \in SUBSET R /\ x \in s \cap R /\ (s \cap R) \ {x} = rest \cap R
          BY <2>3, <3>1
      <4>2. QED
          BY <1>0, <3>1, <4>1, SumsAny
    <3>2. CASE x \notin R
      <4>1. s \cap R = rest \cap R
          BY <3>2, Zenon
      <4>2. QED
          BY <3>2, <4>1
    <3>3. QED
        BY <3>1, <3>2
  <2>7. /\ g[rest] \in Int /\ f[rest] \in Int /\ v[x] \in Int /\ w[x] \in Int
        /\ k[rest \cap R] \in Int /\ (x \in R => e[x] \in Int)
    <3>1. rest \cap R \in SUBSET R
        OBVIOUS
    <3>2. QED
        BY <2>3, <2>4, <3>1 DEF Sums
  <2>8. g[s] # f[s] + k[s \cap R]
      BY <2>1
  <2>9. w[x] = IF x \in R THEN v[x] + e[x] ELSE v[x]
      BY <2>3
  <2> HIDE DEF bad, x, rest
  <2>10. QED
      BY <2>3, <2>5, <2>6, <2>7, <2>8, <2>9
<1>2. S \notin bad /\ S \cap R = R
    BY <1>1
<1>3. QED
    BY <1>2

\* A sum of positive numbers is no less than any of them.
LEMMA SumsOfPositive ==
    ASSUME NEW S, IsFiniteSet(S), NEW w \in [S -> Nat], NEW g, Sums(g, w, S)
    PROVE  g[S] \in Nat /\ \A a \in S : w[a] <= g[S]
<1> DEFINE bad == {s \in SUBSET S : g[s] \notin Nat}
<1>0. w \in [S -> Int] /\ bad \in SUBSET (SUBSET S)
    OBVIOUS
<1>1. ASSUME bad # {}
      PROVE  FALSE
  <2>1. PICK s \in bad : \A t \in bad : t \subseteq s => t = s
    <3> HIDE DEF bad
    <3>1. QED
        BY <1>0, <1>1, Smallest
  <2>2. s # {}
    <3>1. g[{}] = 0 /\ 0 \in Nat
        BY DEF Sums
    <3>2. QED
        BY <2>1, <3>1
  <2>3. Any(s) \in s /\ s \in SUBSET S /\ g[s] = w[Any(s)] + g[s \ {Any(s)}]
      BY <2>1, <2>2 DEF Sums, Any
  <2>4. s \ {Any(s)} \in SUBSET S /\ s \ {Any(s)} \notin bad
      BY <2>1, <2>3
  <2>5. w[Any(s)] \in Nat /\ g[s \ {Any(s)}] \in Nat
      BY <2>3, <2>4
  <2>6. QED
      BY <2>1, <2>3, <2>5
<1>2. \A s \in SUBSET S : g[s] \in Nat
    BY <1>1
<1>3. ASSUME NEW a \in S
      PROVE  w[a] <= g[S]
  <2>1. g[S] = w[a] + g[S \ {a}]
      BY <1>0, SumsAny
  <2>2. g[S \ {a}] \in Nat /\ w[a] \in Nat
      BY <1>2
  <2>3. QED
      BY <2>1, <2>2
<1>4. QED
    BY <1>2, <1>3

\* The fold of the community modules, over the values of a function.
Total(w, S) == MapThenSumSet(LAMBDA a : w[a], S)

\* That fold adds up.
LEMMA TotalIsSum ==
    ASSUME NEW S, IsFiniteSet(S), NEW w \in [S -> Int]
    PROVE  \E g : Sums(g, w, S) /\ Total(w, S) = g[S]
<1>1. PICK g : Sums(g, w, S)
    BY SumsExist
<1>2. g = [s \in SUBSET S |-> IF s = {} THEN 0 ELSE w[CHOOSE x \in s : TRUE] + g[s \ {CHOOSE x \in s : TRUE}]]
    BY <1>1 DEF Sums, Any
<1>3. \E it : /\ it = [s \in SUBSET S |-> IF s = {} THEN 0 ELSE w[CHOOSE x \in s : TRUE] + it[s \ {CHOOSE x \in s : TRUE}]]
              /\ Total(w, S) = it[S]
    BY <1>2, Zenon DEF Total, MapThenSumSet, MapThenFoldSet
<1>4. PICK h : /\ h = [s \in SUBSET S |-> IF s = {} THEN 0 ELSE w[Any(s)] + h[s \ {Any(s)}]]
               /\ Total(w, S) = h[S]
    BY <1>3 DEF Any
<1>5. QED
    BY <1>4, SumsType

\* So does the weight of some accounts of a table.
LEMMA WeightIsSum ==
    ASSUME NEW p \in Providers, NEW R \in SUBSET DOMAIN p
    PROVE  /\ IsFiniteSet(R)
           /\ [a \in R |-> EffWeight(p[a])] \in [R -> Nat]
           /\ \A a \in R : EffWeight(p[a]) \in Nat \ {0}
           /\ \E g : Sums(g, [a \in R |-> EffWeight(p[a])], R) /\ TotalWeight(p, R) = g[R]
<1> DEFINE w == [a \in R |-> EffWeight(p[a])]
<1>1. R \in SUBSET Accounts /\ IsFiniteSet(Accounts)
    BY AccountsAssumption
<1>2. IsFiniteSet(R)
    BY <1>1, FS_Subset
<1>3. \A a \in R : EffWeight(p[a]) \in Nat \ {0}
    BY AccountsAssumption DEF EffWeight
<1>4. w \in [R -> Nat] /\ w \in [R -> Int] /\ \A a \in R : w[a] = EffWeight(p[a])
    BY <1>3
<1> HIDE DEF w
<1>5. PICK g : Sums(g, w, R)
    BY <1>2, <1>4, SumsExist
<1>6. \A s \in SUBSET R : s # {} => Any(s) \in R
    BY DEF Any
<1>7. g = [s \in SUBSET R |-> IF s = {} THEN 0 ELSE EffWeight(p[Any(s)]) + g[s \ {Any(s)}]]
    BY <1>4, <1>5, <1>6 DEF Sums
<1>8. g = [s \in SUBSET R |-> IF s = {} THEN 0 ELSE EffWeight(p[CHOOSE x \in s : TRUE]) + g[s \ {CHOOSE x \in s : TRUE}]]
    BY <1>7 DEF Any
<1>9. \E it : /\ it = [s \in SUBSET R |-> IF s = {} THEN 0 ELSE EffWeight(p[CHOOSE x \in s : TRUE]) + it[s \ {CHOOSE x \in s : TRUE}]]
              /\ TotalWeight(p, R) = it[R]
    BY <1>8, Zenon DEF TotalWeight, MapThenSumSet, MapThenFoldSet
<1>10. PICK h : /\ h = [s \in SUBSET R |-> IF s = {} THEN 0 ELSE EffWeight(p[Any(s)]) + h[s \ {Any(s)}]]
                /\ TotalWeight(p, R) = h[R]
    BY <1>9 DEF Any
<1>11. h = [s \in SUBSET R |-> IF s = {} THEN 0 ELSE w[Any(s)] + h[s \ {Any(s)}]]
    BY <1>4, <1>6, <1>10
<1>12. Sums(h, w, R)
    BY <1>2, <1>4, <1>11, SumsType
<1>13. QED
    BY <1>2, <1>3, <1>4, <1>10, <1>12 DEF w

\* It is no less than the weight of any of them.
LEMMA TotalFacts ==
    ASSUME NEW p \in Providers, NEW R \in SUBSET DOMAIN p
    PROVE  /\ TotalWeight(p, R) \in Nat
           /\ \A a \in R : EffWeight(p[a]) <= TotalWeight(p, R)
<1> DEFINE w == [a \in R |-> EffWeight(p[a])]
<1>1. /\ IsFiniteSet(R) /\ w \in [R -> Nat] /\ \A a \in R : w[a] = EffWeight(p[a])
      /\ \E g : Sums(g, w, R) /\ TotalWeight(p, R) = g[R]
    BY WeightIsSum
<1> HIDE DEF w
<1>2. PICK g : Sums(g, w, R) /\ TotalWeight(p, R) = g[R]
    BY <1>1
<1>3. QED
    BY <1>1, <1>2, SumsOfPositive
-----------------------------------------------------------------------------
\* What a table may hold, from the assumptions on the constants.
LEMMA TableFacts ==
    ASSUME NEW p \in Providers
    PROVE  /\ DOMAIN p \subseteq Accounts
           /\ \A a \in DOMAIN p : EffWeight(p[a]) \in Nat \ {0}
           /\ TotalWeight(p, Ready(p)) \in Nat
           /\ \A a \in Ready(p) : EffWeight(p[a]) <= TotalWeight(p, Ready(p))
<1>1. DOMAIN p \subseteq Accounts /\ \A a \in DOMAIN p : p[a] \in Int
    BY AccountsAssumption
<1>2. \A a \in DOMAIN p : EffWeight(p[a]) \in Nat \ {0}
    BY <1>1 DEF EffWeight
<1>3. Ready(p) \in SUBSET DOMAIN p
    BY DEF Ready
<1>4. /\ TotalWeight(p, Ready(p)) \in Nat
      /\ \A a \in Ready(p) : EffWeight(p[a]) <= TotalWeight(p, Ready(p))
    BY <1>3, TotalFacts
<1>5. QED
    BY <1>1, <1>2, <1>4

\* Crediting keeps the rotation state a table of integers.
LEMMA CreditedType ==
    ASSUME NEW p \in Providers, current \in [Accounts -> Int]
    PROVE  Credited(p) \in [Accounts -> Int]
<1>1. \A a \in Ready(p) : a \in DOMAIN p /\ EffWeight(p[a]) \in Nat
    BY TableFacts DEF Ready
<1>2. QED
    BY <1>1 DEF Credited

\* A pick moves credit and leaves every cooldown alone.
LEMMA PickType ==
    ASSUME PoolTypeOK, NEW p \in Providers, NEW a, Pick(p, a)
    PROVE  PoolTypeOK' /\ a \in DOMAIN p /\ UNCHANGED <<cooldown, backoff>>
<1>1. CASE Rotate(p, a)
  <2>1. a \in DOMAIN p
      BY <1>1 DEF Rotate, Favoured, Ready
  <2>2. a \in Accounts
      BY <2>1, TableFacts
  <2>3. current' \in [Accounts -> Int]
      BY <1>1, <2>2, CreditedType, TableFacts DEF Rotate, PoolTypeOK
  <2>4. QED
      BY <1>1, <2>1, <2>3 DEF Rotate, PoolTypeOK
<1>2. CASE Fallback(p, a)
    BY <1>2 DEF Fallback, PoolTypeOK, poolVars
<1>3. QED
    BY <1>1, <1>2 DEF Pick

\* The base of a rate-limit cooldown and its double, capped, stay in range.
LEMMA BackoffRange ==
    ASSUME PoolTypeOK, NEW a \in Accounts
    PROVE  /\ BackoffBase(a) \in BaseBackoff..MaxBackoff
           /\ Lesser(2 * BackoffBase(a), MaxBackoff) \in BaseBackoff..MaxBackoff
<1>1. BackoffBase(a) \in BaseBackoff..MaxBackoff
    BY DurationsAssumption DEF BackoffBase, PoolTypeOK
<1>2. QED
    BY <1>1, DurationsAssumption DEF Lesser

\* Whatever is reported, on a known account or on none, leaves the pool typed.
LEMMA ReportType ==
    ASSUME PoolTypeOK, NEW a, NEW o, NEW d \in RetryAfters, Report(a, o, d)
    PROVE  PoolTypeOK'
<1>1. CASE a \in Accounts /\ RateLimited(a, d) /\ UNCHANGED current
  <2>1. d \in Nat
      BY DurationsAssumption
  <2>2. Lesser(IF d > 0 THEN d ELSE BackoffBase(a), MaxBackoff) \in 0..MaxBackoff
      BY <1>1, <2>1, BackoffRange, DurationsAssumption DEF Lesser
  <2>3. cooldown' \in [Accounts -> 0..MaxBackoff]
      BY <1>1, <2>2 DEF RateLimited, PoolTypeOK
  <2>4. backoff' \in [Accounts -> {0} \cup BaseBackoff..MaxBackoff]
      BY <1>1, BackoffRange DEF RateLimited, PoolTypeOK
  <2>5. QED
      BY <1>1, <2>3, <2>4 DEF PoolTypeOK
<1>2. CASE a \notin Accounts /\ RateLimited(a, d) /\ UNCHANGED current
    BY <1>2 DEF RateLimited, PoolTypeOK
<1>3. ASSUME NEW n \in 0..MaxBackoff, Penalise(a, n), UNCHANGED current
      PROVE  PoolTypeOK'
  <2>1. cooldown' \in [Accounts -> 0..MaxBackoff]
      BY <1>3 DEF Penalise, PoolTypeOK
  <2>2. QED
      BY <1>3, <2>1 DEF Penalise, PoolTypeOK
<1>4. AuthPenalty \in 0..MaxBackoff /\ ServerPenalty \in 0..MaxBackoff
    BY DurationsAssumption
<1>5. CASE Recovered(a) /\ UNCHANGED current
  <2>1. 0 \in 0..MaxBackoff
      BY DurationsAssumption
  <2>2. cooldown' \in [Accounts -> 0..MaxBackoff]
      BY <1>5, <2>1 DEF Recovered, PoolTypeOK
  <2>3. QED
      BY <1>5, <2>2 DEF Recovered, PoolTypeOK
<1>6. QED
    BY <1>1, <1>2, <1>3, <1>4, <1>5 DEF Report

\* Time only brings deadlines nearer.
LEMMA TickType ==
    ASSUME PoolTypeOK, Tick
    PROVE  PoolTypeOK'
<1>1. \A a \in Accounts : cooldown[a] \in 0..MaxBackoff
    BY DEF PoolTypeOK
<1>2. cooldown' \in [Accounts -> 0..MaxBackoff]
    BY <1>1, DurationsAssumption DEF Tick, Cooling
<1>3. QED
    BY <1>2 DEF Tick, PoolTypeOK

\* The pool starts with nothing recorded.
LEMMA PoolInitType == PoolInit => PoolTypeOK
    BY DurationsAssumption DEF PoolInit, PoolTypeOK

\* The pool's state stays well formed under any callers: no rate-limit cooldown
\* exceeds the five-minute cap, no backoff base leaves its range (Report).
THEOREM PoolTypeCorrect == PoolSpec => []PoolTypeOK
<1>1. ASSUME PoolTypeOK, [PoolNext]_poolVars
      PROVE  PoolTypeOK'
  <2>1. CASE \E p \in Providers : \E a \in DOMAIN p : Pick(p, a)
      BY <1>1, <2>1, PickType
  <2>2. CASE \E a \in Accounts, o \in Outcomes, d \in RetryAfters : Report(a, o, d)
      BY <1>1, <2>2, ReportType
  <2>3. CASE Tick
      BY <1>1, <2>3, TickType
  <2>4. CASE UNCHANGED poolVars
      BY <1>1, <2>4 DEF poolVars, PoolTypeOK
  <2>5. QED
      BY <1>1, <2>1, <2>2, <2>3, <2>4 DEF PoolNext
<1>2. QED
    BY <1>1, PoolInitType, PTL DEF PoolSpec
-----------------------------------------------------------------------------
\* What a turn takes from the account it favours is what it has credited.
LEMMA RotateConserves ==
    ASSUME PoolTypeOK, NEW p \in Providers, NEW a \in DOMAIN p, Rotate(p, a), CreditConserved
    PROVE  CreditConserved'
<1> DEFINE R == Ready(p)
           w == [b \in R |-> EffWeight(p[b])]
           mid == Credited(p)
           paid == [b \in {a} |-> 0 - TotalWeight(p, R)]
<1>1. /\ R \in SUBSET DOMAIN p /\ R \in SUBSET Accounts /\ a \in R /\ a \in Accounts
      /\ IsFiniteSet(Accounts) /\ current \in [Accounts -> Int]
    BY AccountsAssumption DEF Ready, Rotate, Favoured, PoolTypeOK
<1>2. /\ IsFiniteSet(R) /\ w \in [R -> Nat] /\ \A b \in R : w[b] = EffWeight(p[b])
      /\ \E g : Sums(g, w, R) /\ TotalWeight(p, R) = g[R]
    BY <1>1, WeightIsSum
<1>3. TotalWeight(p, R) \in Nat
    BY <1>1, TotalFacts
<1>4. /\ mid \in [Accounts -> Int]
      /\ \A b \in Accounts : mid[b] = IF b \in R THEN current[b] + w[b] ELSE current[b]
    BY <1>1, <1>2 DEF Credited
<1>5. /\ current' \in [Accounts -> Int]
      /\ \A b \in Accounts : current'[b] = IF b \in {a} THEN mid[b] + paid[b] ELSE mid[b]
  <2>1. current' = [mid EXCEPT ![a] = @ - TotalWeight(p, R)]
      BY DEF Rotate
  <2> HIDE DEF mid
  <2>2. QED
      BY <1>1, <1>3, <1>4, <2>1
<1>6. /\ paid \in [{a} -> Int] /\ {a} \in SUBSET Accounts /\ IsFiniteSet({a})
      /\ paid[a] = 0 - TotalWeight(p, R)
  <2>1. 0 - TotalWeight(p, R) \in Int
      BY <1>3
  <2> HIDE DEF R
  <2>2. QED
      BY <1>1, <2>1, FS_Singleton
<1>7. w \in [R -> Int]
    BY <1>2
<1> HIDE DEF R, w, mid, paid
<1>8. PICK g : Sums(g, w, R) /\ TotalWeight(p, R) = g[R]
    BY <1>2
<1>9. PICK f : Sums(f, current, Accounts) /\ Total(current, Accounts) = f[Accounts]
    BY <1>1, TotalIsSum
<1>10. PICK m : Sums(m, mid, Accounts)
    BY <1>1, <1>4, SumsExist
<1>11. PICK h : Sums(h, current', Accounts) /\ Total(current', Accounts) = h[Accounts]
    BY <1>1, <1>5, TotalIsSum
<1>12. PICK k : Sums(k, paid, {a})
    BY <1>6, SumsExist
<1>13. m[Accounts] = f[Accounts] + g[R]
    BY <1>1, <1>4, <1>7, <1>8, <1>9, <1>10, SumsPlus
<1>14. h[Accounts] = m[Accounts] + k[{a}]
    BY <1>1, <1>4, <1>5, <1>6, <1>10, <1>11, <1>12, SumsPlus
<1>15. k[{a}] = 0 - TotalWeight(p, R)
  <2>1. k[{a}] = paid[a] + k[{a} \ {a}]
    <3>1. {a} \in SUBSET {a} /\ {a} # {}
        OBVIOUS
    <3>2. Any({a}) = a
        BY DEF Any
    <3>3. QED
        BY <1>12, <3>1, <3>2 DEF Sums
  <2>2. k[{a} \ {a}] = 0
    <3>1. {} \in SUBSET {a} /\ {a} \ {a} = {}
        OBVIOUS
    <3>2. k[{}] = 0
        BY <1>12, <3>1 DEF Sums
    <3>3. QED
        BY <3>1, <3>2
  <2> DEFINE rest == k[{a} \ {a}]
  <2>3. k[{a}] = paid[a] + rest /\ rest = 0
      BY <2>1, <2>2
  <2> HIDE DEF rest
  <2>4. QED
      BY <1>3, <1>6, <2>3
<1>16. f[Accounts] = 0
    BY <1>9 DEF CreditConserved, Total
<1>17. h[Accounts] = 0
    BY <1>3, <1>8, <1>13, <1>14, <1>15, <1>16
<1>18. QED
    BY <1>11, <1>17, Zenon DEF CreditConserved, Total, MapThenSumSet, MapThenFoldSet

\* Only zero is twice itself.
LEMMA TwiceItself == ASSUME NEW x \in Int, x = x + x PROVE x = 0
OBVIOUS

\* The rotation moves credit between accounts and never creates or loses any,
\* whatever tables, cooldowns and reports its callers mix.
THEOREM CreditIsConserved == PoolSpec => []CreditConserved
<1>1. PoolInit => CreditConserved
  <2>1. SUFFICES ASSUME PoolInit PROVE CreditConserved
      OBVIOUS
  <2>2. current \in [Accounts -> Int] /\ \A a \in Accounts : current[a] = 0
      BY <2>1 DEF PoolInit
  <2>3. IsFiniteSet(Accounts)
      BY AccountsAssumption
  <2>4. PICK g : Sums(g, current, Accounts) /\ Total(current, Accounts) = g[Accounts]
      BY <2>2, <2>3, TotalIsSum
  <2>5. g[Accounts] = g[Accounts] + g[Accounts]
      BY <2>2, <2>3, <2>4, SumsPlus
  <2>6. g[Accounts] \in Int
      BY <2>4 DEF Sums
  <2>7. g[Accounts] = 0
      BY <2>5, <2>6, TwiceItself
  <2>8. Total(current, Accounts) = 0
      BY <2>4, <2>7
  <2>9. QED
      BY <2>8 DEF CreditConserved, Total
<1>2. ASSUME PoolTypeOK, CreditConserved, [PoolNext]_poolVars
      PROVE  CreditConserved'
  <2>1. ASSUME NEW p \in Providers, NEW a \in DOMAIN p, Rotate(p, a)
        PROVE  CreditConserved'
      BY <1>2, <2>1, RotateConserves
  <2>2. CASE UNCHANGED current
      BY <1>2, <2>2, Zenon DEF CreditConserved, MapThenSumSet, MapThenFoldSet
  <2>3. QED
      BY <1>2, <2>1, <2>2 DEF PoolNext, Pick, Fallback, Report, Tick, poolVars
<1>3. QED
    BY <1>1, <1>2, PoolTypeCorrect, PTL DEF PoolSpec
-----------------------------------------------------------------------------
(***************************************************************************)
(* The rotation is fair: as long as one table is used with all of its      *)
(* accounts ready, an account's credit is exactly its share of the picks   *)
(* less its turns, and the account favoured has some.                      *)
(***************************************************************************)
\* The sum over one element ...
LEMMA SumsSingle ==
    ASSUME NEW x, NEW e \in [{x} -> Int], NEW k, Sums(k, e, {x})
    PROVE  k[{x}] = e[x]
<1>1. {x} \in SUBSET {x} /\ {} \in SUBSET {x} /\ {x} # {} /\ {x} \ {x} = {} /\ Any({x}) = x
    BY DEF Any
<1>2. k[{x}] = e[x] + k[{}] /\ k[{}] = 0
  <2>1. k[{x}] = e[Any({x})] + k[{x} \ {Any({x})}]
      BY <1>1 DEF Sums
  <2>2. k[{}] = 0
      BY <1>1 DEF Sums
  <2>3. QED
      BY <1>1, <2>1, <2>2
<1>3. e[x] \in Int
    OBVIOUS
<1>4. QED
    BY <1>2, <1>3

\* ... and of zeros.
LEMMA SumsZero ==
    ASSUME NEW S, IsFiniteSet(S), NEW v \in [S -> Int], \A a \in S : v[a] = 0,
           NEW f, Sums(f, v, S)
    PROVE  f[S] = 0
<1>1. f[S] = f[S] + f[S]
    BY SumsPlus
<1>2. f[S] \in Int
    BY DEF Sums
<1>3. QED
    BY <1>1, <1>2, TwiceItself

\* Of two functions the lesser has the lesser sum, and the same sum only if
\* they are the same.
LEMMA SumsOrdered ==
    ASSUME NEW S, IsFiniteSet(S), NEW v \in [S -> Int], NEW w \in [S -> Int],
           \A a \in S : v[a] <= w[a],
           NEW f, Sums(f, v, S), NEW g, Sums(g, w, S)
    PROVE  /\ f[S] <= g[S]
           /\ f[S] = g[S] => \A a \in S : v[a] = w[a]
<1> DEFINE e == [a \in S |-> w[a] - v[a]]
<1>1. /\ e \in [S -> Nat] /\ e \in [S -> Int]
      /\ \A a \in S : w[a] = v[a] + e[a]
    OBVIOUS
<1> HIDE DEF e
<1>2. PICK k : Sums(k, e, S)
    BY <1>1, SumsExist
<1>3. g[S] = f[S] + k[S]
    BY <1>1, <1>2, SumsPlus
<1>4. k[S] \in Nat /\ \A a \in S : e[a] <= k[S]
    BY <1>1, <1>2, SumsOfPositive
<1>5. f[S] \in Int /\ g[S] \in Int
    BY DEF Sums
<1>6. f[S] <= g[S]
    BY <1>3, <1>4, <1>5
<1>7. ASSUME f[S] = g[S], NEW a \in S
      PROVE  v[a] = w[a]
  <2>1. k[S] = 0
      BY <1>3, <1>4, <1>5, <1>7
  <2>2. e[a] <= 0 /\ e[a] \in Nat /\ w[a] = v[a] + e[a] /\ v[a] \in Int
      BY <1>1, <1>4, <2>1
  <2>3. QED
      BY <2>2
<1>8. QED
    BY <1>6, <1>7

\* One more turn for one account is one more turn.
LEMMA OneMore ==
    ASSUME IsFiniteSet(Accounts), NEW v \in [Accounts -> Int], NEW w \in [Accounts -> Int],
           NEW x \in Accounts, \A a \in Accounts : w[a] = IF a = x THEN v[a] + 1 ELSE v[a]
    PROVE  Total(w, Accounts) = Total(v, Accounts) + 1
<1> DEFINE e == [a \in {x} |-> 1]
<1>1. PICK f : Sums(f, v, Accounts) /\ Total(v, Accounts) = f[Accounts]
    BY TotalIsSum
<1>2. PICK g : Sums(g, w, Accounts) /\ Total(w, Accounts) = g[Accounts]
    BY TotalIsSum
<1>3. e \in [{x} -> Int] /\ e[x] = 1 /\ {x} \in SUBSET Accounts
    OBVIOUS
<1>a. IsFiniteSet({x})
    BY FS_Singleton
<1> HIDE DEF e
<1>b. \A a \in Accounts : w[a] = IF a \in {x} THEN v[a] + e[a] ELSE v[a]
    BY <1>3
<1>4. PICK k : Sums(k, e, {x})
    BY <1>3, <1>a, SumsExist
<1>5. g[Accounts] = f[Accounts] + k[{x}]
    BY <1>1, <1>2, <1>3, <1>b, <1>4, SumsPlus
<1>c. k[{x}] = 1
    BY <1>3, <1>4, SumsSingle
<1>6. QED
    BY <1>1, <1>2, <1>5, <1>c
-----------------------------------------------------------------------------
\* What a turn takes when all of a table is ready.
RoundOf(p) == TotalWeight(p, DOMAIN p)

\* What the assumptions say of such a turn.
LEMMA WholeTable ==
    ASSUME NEW p \in Providers
    PROVE  /\ IsFiniteSet(Accounts) /\ DOMAIN p \in SUBSET Accounts
           /\ RoundOf(p) \in Nat
           /\ \A a \in DOMAIN p : EffWeight(p[a]) \in Nat \ {0} /\ EffWeight(p[a]) <= RoundOf(p)
<1>1. DOMAIN p \in SUBSET DOMAIN p
    OBVIOUS
<1>2. QED
    BY <1>1, AccountsAssumption, TableFacts, TotalFacts DEF RoundOf

\* A turn over a whole table.
LEMMA WholeTurn ==
    ASSUME PoolTypeOK, NEW p \in Providers, NEW a \in DOMAIN p, Rotate(p, a), Ready(p) = DOMAIN p
    PROVE  /\ current \in [Accounts -> Int]
           /\ \A b \in Accounts \ DOMAIN p : current'[b] = current[b]
           /\ \A b \in DOMAIN p : b # a => current'[b] = current[b] + EffWeight(p[b])
           /\ current'[a] = current[a] + EffWeight(p[a]) - RoundOf(p)
           /\ \A b \in DOMAIN p :
                 current[b] + EffWeight(p[b]) <= current[a] + EffWeight(p[a])
<1>1. /\ current \in [Accounts -> Int] /\ DOMAIN p \in SUBSET Accounts /\ RoundOf(p) \in Nat
      /\ \A b \in DOMAIN p : EffWeight(p[b]) \in Nat
    BY WholeTable DEF PoolTypeOK
<1>2. Credited(p) \in [Accounts -> Int]
    BY CreditedType DEF PoolTypeOK
<1>3. \A b \in Accounts : Credited(p)[b] =
          IF b \in DOMAIN p THEN current[b] + EffWeight(p[b]) ELSE current[b]
    BY DEF Credited
<1>4. current' = [Credited(p) EXCEPT ![a] = @ - RoundOf(p)]
    BY DEF Rotate, RoundOf
<1>5. \A b \in DOMAIN p : Credited(p)[b] < Credited(p)[a] \/ Credited(p)[b] = Credited(p)[a]
    BY DEF Rotate, Favoured
<1> DEFINE mid == Credited(p)
<1> HIDE DEF mid
<1>6. /\ mid \in [Accounts -> Int] /\ current' = [mid EXCEPT ![a] = @ - RoundOf(p)]
      /\ \A b \in DOMAIN p : mid[b] <= mid[a]
      /\ \A b \in Accounts : mid[b] =
            IF b \in DOMAIN p THEN current[b] + EffWeight(p[b]) ELSE current[b]
    BY <1>1, <1>2, <1>3, <1>4, <1>5 DEF mid
<1>7. QED
    BY <1>1, <1>6

\* When nobody outside the table has credit or debt, the account favoured has
\* credit: what was just given out is somewhere.
LEMMA FavouredHasCredit ==
    ASSUME PoolTypeOK, CreditConserved, NEW p \in Providers, NEW a \in DOMAIN p,
           Rotate(p, a), Ready(p) = DOMAIN p,
           \A b \in Accounts \ DOMAIN p : current[b] = 0
    PROVE  current[a] + EffWeight(p[a]) > 0
<1> DEFINE R == DOMAIN p
           w == [b \in R |-> EffWeight(p[b])]
           mid == [b \in Accounts |-> IF b \in R THEN current[b] + w[b] ELSE current[b]]
           none == [b \in Accounts |-> 0]
<1>1. /\ R \in SUBSET Accounts /\ IsFiniteSet(Accounts) /\ current \in [Accounts -> Int]
      /\ RoundOf(p) \in Nat /\ a \in R
    BY WholeTable DEF PoolTypeOK
<1>2. /\ IsFiniteSet(R) /\ w \in [R -> Nat] /\ w \in [R -> Int]
      /\ \A b \in R : w[b] = EffWeight(p[b]) /\ w[b] \in Nat \ {0}
      /\ \E g : Sums(g, w, R) /\ RoundOf(p) = g[R]
  <2>1. R \in SUBSET DOMAIN p
      OBVIOUS
  <2>2. QED
      BY <2>1, WeightIsSum DEF RoundOf
<1>3. /\ mid \in [Accounts -> Int] /\ none \in [Accounts -> Int]
      /\ \A b \in Accounts : mid[b] = IF b \in R THEN current[b] + w[b] ELSE current[b]
      /\ \A b \in Accounts : none[b] = 0
    BY <1>1, <1>2
<1>4. \A b \in R : current[b] + w[b] <= current[a] + w[a]
    BY <1>1, <1>2, WholeTurn
<1>5. \A b \in Accounts \ R : current[b] = 0
    OBVIOUS
<1>6. w[a] = EffWeight(p[a])
    BY <1>1, <1>2
<1> HIDE DEF R, w, mid, none
<1>7. PICK g : Sums(g, w, R) /\ RoundOf(p) = g[R]
    BY <1>2
<1>8. PICK f : Sums(f, current, Accounts) /\ Total(current, Accounts) = f[Accounts]
    BY <1>1, TotalIsSum
<1>9. PICK m : Sums(m, mid, Accounts)
    BY <1>1, <1>3, SumsExist
<1>10. PICK z : Sums(z, none, Accounts)
    BY <1>1, <1>3, SumsExist
<1>11. m[Accounts] = f[Accounts] + g[R]
    BY <1>1, <1>2, <1>3, <1>7, <1>8, <1>9, SumsPlus
<1>12. f[Accounts] = 0
    BY <1>8 DEF CreditConserved, Total
<1>13. z[Accounts] = 0
    BY <1>1, <1>3, <1>10, SumsZero
<1>14. g[R] > 0
  <2>1. w[a] <= g[R] /\ g[R] \in Nat
      BY <1>1, <1>2, <1>7, SumsOfPositive
  <2>2. w[a] \in Nat \ {0}
      BY <1>1, <1>2
  <2>3. QED
      BY <2>1, <2>2
<1>15. ASSUME ~(current[a] + w[a] > 0)
       PROVE  FALSE
  <2>1. current[a] + w[a] \in Int /\ current[a] + w[a] <= 0
      BY <1>1, <1>2, <1>15
  <2>2. \A b \in Accounts : mid[b] <= none[b]
    <3>1. ASSUME NEW b \in Accounts PROVE mid[b] <= 0
      <4>1. CASE b \in R
        <5>1. current[b] + w[b] \in Int /\ mid[b] = current[b] + w[b]
            BY <1>1, <1>2, <1>3, <4>1
        <5>2. QED
            BY <1>4, <2>1, <4>1, <5>1
      <4>2. CASE b \notin R
          BY <1>3, <1>5, <4>2
      <4>3. QED
          BY <4>1, <4>2
    <3>2. QED
        BY <1>3, <3>1
  <2>3. m[Accounts] <= z[Accounts]
      BY <1>1, <1>3, <1>9, <1>10, <2>2, SumsOrdered
  <2>4. g[R] \in Int
      BY <1>7, <1>1 DEF RoundOf
  <2>5. QED
      BY <1>11, <1>12, <1>13, <1>14, <2>3, <2>4
<1>16. QED
    BY <1>6, <1>15
-----------------------------------------------------------------------------
\* The observation's type: whoever is counted is counted over some table.
TurnsTyped ==
    /\ turns.of \in [Accounts -> Nat]
    /\ DOMAIN turns.table # {} => turns.table \in Providers

\* Credit is the share of the picks less the turns had.
Even ==
    /\ \A a \in Accounts \ DOMAIN turns.table : turns.of[a] = 0 /\ current[a] = 0
    /\ \A a \in DOMAIN turns.table :
          /\ current[a] = Picks * Weight(a) - turns.of[a] * Round
          /\ current[a] > 0 - Round

SharesInv == TurnsTyped /\ (DOMAIN turns.table # {} => Even)

\* Picks, now and next, is the sum of the turns.
LEMMA PicksAdd == Picks = Total(turns.of, Accounts) /\ Picks' = Total(turns'.of, Accounts)
<1>1. Picks = Total(turns.of, Accounts)
    BY DEF Picks, Total
<1>2. Picks' = Total(turns'.of, Accounts)
    BY Zenon DEF Picks, Total, MapThenSumSet, MapThenFoldSet
<1>3. QED
    BY <1>1, <1>2

\* It is a number.
LEMMA PicksAreNumbers ==
    ASSUME TurnsTyped
    PROVE  Picks \in Int /\ Picks = Total(turns.of, Accounts)
<1>1. IsFiniteSet(Accounts) /\ turns.of \in [Accounts -> Int]
    BY AccountsAssumption DEF TurnsTyped
<1>2. Picks = Total(turns.of, Accounts)
    BY DEF Picks, Total
<1>3. PICK g : Sums(g, turns.of, Accounts) /\ Total(turns.of, Accounts) = g[Accounts]
    BY <1>1, TotalIsSum
<1>4. QED
    BY <1>2, <1>3 DEF Sums

\* A table's first turn from rest ...
LEMMA FirstTurn ==
    ASSUME PoolTypeOK, NEW p \in Providers, NEW a \in DOMAIN p, Rotate(p, a), Ready(p) = DOMAIN p,
           AtRest, turns' = [table |-> p, of |-> [NoTurns.of EXCEPT ![a] = 1]]
    PROVE  SharesInv'
<1>1. /\ a \in Accounts /\ IsFiniteSet(Accounts) /\ DOMAIN p \in SUBSET Accounts /\ RoundOf(p) \in Nat
      /\ \A b \in DOMAIN p : EffWeight(p[b]) \in Nat \ {0} /\ EffWeight(p[b]) <= RoundOf(p)
    BY WholeTable
<1> DEFINE of == [b \in Accounts |-> IF b = a THEN 1 ELSE 0]
           none == [b \in Accounts |-> 0]
<1>2. turns' = [table |-> p, of |-> of]
    BY DEF NoTurns
<1>3. /\ of \in [Accounts -> Nat] /\ of \in [Accounts -> Int] /\ none \in [Accounts -> Int]
      /\ \A b \in Accounts : of[b] = IF b = a THEN 1 ELSE 0
      /\ \A b \in Accounts : none[b] = 0
    OBVIOUS
<1> HIDE DEF of, none
<1>4. turns'.table = p /\ turns'.of = of
    BY <1>2
<1>5. TurnsTyped'
    BY <1>3, <1>4 DEF TurnsTyped
<1>6. Picks' = 1
  <2>1. Picks' = Total(of, Accounts)
    <3>1. Picks' = Total(turns'.of, Accounts)
        BY PicksAdd
    <3>2. QED
        BY <1>4, <3>1
  <2>2. PICK z : Sums(z, none, Accounts) /\ Total(none, Accounts) = z[Accounts]
      BY <1>1, <1>3, TotalIsSum
  <2>3. Total(none, Accounts) = 0
      BY <1>1, <1>3, <2>2, SumsZero
  <2>4. \A b \in Accounts : of[b] = IF b = a THEN none[b] + 1 ELSE none[b]
      BY <1>3
  <2>5. Total(of, Accounts) = Total(none, Accounts) + 1
      BY <1>1, <1>3, <2>4, OneMore
  <2>6. QED
      BY <2>1, <2>3, <2>5
<1>7. Round' = RoundOf(p) /\ \A b : Weight(b)' = EffWeight(p[b])
    BY <1>4 DEF Round, RoundOf, Weight
<1>8. \A b \in Accounts : current[b] = 0
    BY DEF AtRest
<1>9. /\ \A b \in Accounts \ DOMAIN p : current'[b] = 0 /\ of[b] = 0
      /\ \A b \in DOMAIN p : b # a => current'[b] = EffWeight(p[b]) /\ of[b] = 0
      /\ current'[a] = EffWeight(p[a]) - RoundOf(p) /\ of[a] = 1
    BY <1>1, <1>3, <1>8, WholeTurn
<1>10. ASSUME NEW b \in DOMAIN p
       PROVE  /\ current'[b] = 1 * EffWeight(p[b]) - of[b] * RoundOf(p)
              /\ current'[b] > 0 - RoundOf(p)
    BY <1>1, <1>9
<1>11. Even'
    BY <1>4, <1>6, <1>7, <1>9, <1>10 DEF Even
<1>12. QED
    BY <1>5, <1>11 DEF SharesInv

\* ... and the next.
LEMMA NextTurn ==
    ASSUME PoolTypeOK, CreditConserved, SharesInv,
           NEW p \in Providers, NEW a \in DOMAIN p, Rotate(p, a), Ready(p) = DOMAIN p,
           turns.table = p, turns' = [turns EXCEPT !.of[a] = @ + 1],
           turns = [table |-> turns.table, of |-> turns.of]
    PROVE  SharesInv'
<1>1. /\ a \in Accounts /\ IsFiniteSet(Accounts) /\ DOMAIN p \in SUBSET Accounts /\ RoundOf(p) \in Nat
      /\ \A b \in DOMAIN p : EffWeight(p[b]) \in Nat \ {0} /\ EffWeight(p[b]) <= RoundOf(p)
    BY WholeTable
<1>2. TurnsTyped /\ Even /\ turns.of \in [Accounts -> Nat]
    BY DEF SharesInv, TurnsTyped
<1>3. turns'.table = p /\ turns'.of = [turns.of EXCEPT ![a] = @ + 1]
    OBVIOUS
<1> DEFINE of == turns.of
           more == turns'.of
           k == Picks
<1>4. /\ of \in [Accounts -> Nat] /\ more \in [Accounts -> Nat]
      /\ of \in [Accounts -> Int] /\ more \in [Accounts -> Int]
      /\ \A b \in Accounts : more[b] = IF b = a THEN of[b] + 1 ELSE of[b]
    BY <1>1, <1>2, <1>3
<1>5. TurnsTyped'
    BY <1>3, <1>4 DEF TurnsTyped
<1>6. k \in Int /\ k = Total(of, Accounts) /\ Picks' = Total(more, Accounts)
  <2>1. Picks' = Total(turns'.of, Accounts)
      BY PicksAdd
  <2>2. Picks \in Int /\ Picks = Total(turns.of, Accounts)
      BY <1>2, PicksAreNumbers
  <2>3. QED
      BY <2>1, <2>2
<1>7. Round = RoundOf(p) /\ \A b : Weight(b) = EffWeight(p[b])
    BY DEF Round, RoundOf, Weight
<1>8. Round' = RoundOf(p) /\ \A b : Weight(b)' = EffWeight(p[b])
    BY <1>3 DEF Round, RoundOf, Weight
<1>9. /\ \A b \in Accounts \ DOMAIN p : of[b] = 0 /\ current[b] = 0
      /\ \A b \in DOMAIN p : /\ current[b] = k * EffWeight(p[b]) - of[b] * RoundOf(p)
                             /\ current[b] > 0 - RoundOf(p)
    BY <1>2, <1>7 DEF Even
<1> HIDE DEF of, more, k
<1>10. Picks' = k + 1
    BY <1>1, <1>4, <1>6, OneMore
<1>11. current[a] + EffWeight(p[a]) > 0
    BY <1>9, FavouredHasCredit
<1>12. /\ current \in [Accounts -> Int]
       /\ \A b \in Accounts \ DOMAIN p : current'[b] = current[b]
       /\ \A b \in DOMAIN p : b # a => current'[b] = current[b] + EffWeight(p[b])
       /\ current'[a] = current[a] + EffWeight(p[a]) - RoundOf(p)
    BY WholeTurn
<1>13. ASSUME NEW b \in DOMAIN p
       PROVE  /\ current'[b] = (k + 1) * EffWeight(p[b]) - more[b] * RoundOf(p)
              /\ current'[b] > 0 - RoundOf(p)
  <2>1. PICK w, W, n : w = EffWeight(p[b]) /\ W = RoundOf(p) /\ n = of[b]
      OBVIOUS
  <2>2. /\ w \in Nat \ {0} /\ W \in Nat /\ n \in Nat /\ k \in Int /\ b \in Accounts
        /\ current[b] = k * w - n * W /\ current[b] > 0 - W
      BY <1>1, <1>4, <1>6, <1>9, <2>1
  <2>3. (k + 1) * w = k * w + w /\ (n + 1) * W = n * W + W /\ k * w \in Int /\ n * W \in Int
      BY <2>2
  <2>4. CASE b = a
    <3>1. current'[b] = current[b] + w - W /\ more[b] = n + 1 /\ current[b] + w > 0
        BY <1>4, <1>11, <1>12, <2>1, <2>2, <2>4
    <3>2. QED
        BY <2>1, <2>2, <2>3, <3>1
  <2>5. CASE b # a
    <3>1. current'[b] = current[b] + w /\ more[b] = n
        BY <1>4, <1>12, <2>1, <2>2, <2>5
    <3>2. QED
        BY <2>1, <2>2, <2>3, <3>1
  <2>6. QED
      BY <2>4, <2>5
<1>14. turns'.of = more
    BY DEF more
<1>15. \A b \in Accounts \ DOMAIN p : more[b] = 0 /\ current'[b] = 0
    BY <1>4, <1>9, <1>12
<1>16. Even'
    BY <1>3, <1>8, <1>10, <1>13, <1>14, <1>15 DEF Even
<1>17. QED
    BY <1>5, <1>16 DEF SharesInv

\* Where nothing is counted there is nothing to show.
LEMMA NoTurnsEven ==
    ASSUME turns' = NoTurns
    PROVE  SharesInv'
<1>1. turns'.of \in [Accounts -> Nat] /\ DOMAIN turns'.table = {}
    BY DEF NoTurns, NoTable
<1>2. QED
    BY <1>1 DEF SharesInv, TurnsTyped

\* Reports, time and the fallback move no credit.
LEMMA SharesKept ==
    ASSUME PoolTypeOK, CreditConserved, SharesInv,
           turns = [table |-> turns.table, of |-> turns.of],
           [SharesNext]_<<poolVars, turns>>
    PROVE  SharesInv'
<1>1. ASSUME UNCHANGED <<current, turns>>
      PROVE  SharesInv'
  <2>1. Picks = Total(turns.of, Accounts) /\ Picks' = Total(turns'.of, Accounts)
      BY PicksAdd
  <2>2. turns' = turns /\ current' = current /\ Picks' = Picks
      BY <1>1, <2>1
  <2>3. QED
      BY <2>2 DEF SharesInv, TurnsTyped, Even, Round, Weight
<1>2. ASSUME NEW p \in Providers, NEW a \in DOMAIN p, Rotate(p, a), turns' = Counted(p, a)
      PROVE  SharesInv'
  <2>1. CASE Ready(p) = DOMAIN p /\ AtRest
      BY <1>2, <2>1, FirstTurn DEF Counted
  <2>2. CASE Ready(p) = DOMAIN p /\ ~AtRest /\ turns.table = p
      BY <1>2, <2>2, NextTurn DEF Counted
  <2>3. CASE Ready(p) # DOMAIN p \/ (~AtRest /\ turns.table # p)
      BY <1>2, <2>3, NoTurnsEven DEF Counted
  <2>4. QED
      BY <2>1, <2>2, <2>3
<1>3. ASSUME NEW p \in Providers, NEW a \in DOMAIN p, Fallback(p, a), UNCHANGED turns
      PROVE  SharesInv'
    BY <1>1, <1>3 DEF Fallback, poolVars
<1>4. ASSUME NEW a, NEW o, NEW d, Report(a, o, d), UNCHANGED turns
      PROVE  SharesInv'
    BY <1>1, <1>4 DEF Report
<1>5. CASE Tick /\ UNCHANGED turns
    BY <1>1, <1>5 DEF Tick
<1>6. CASE UNCHANGED <<poolVars, turns>>
    BY <1>1, <1>6 DEF poolVars
<1>7. QED
    BY <1>2, <1>3, <1>4, <1>5, <1>6 DEF SharesNext
-----------------------------------------------------------------------------
\* Whoever is less than a turn ahead after a whole round is not ahead.
LEMMA NotAhead ==
    ASSUME NEW x \in Nat, NEW y \in Nat, NEW W \in Nat, x * W - W * y < W
    PROVE  x <= y
<1>1. SUFFICES ASSUME y + 1 <= x PROVE FALSE
    OBVIOUS
<1>2. PICK d \in Nat : x = y + 1 + d
  <2>1. x - (y + 1) \in Nat /\ x = y + 1 + (x - (y + 1))
      BY <1>1
  <2>2. QED
      BY <2>1
<1>3. x * W = y * W + W + d * W /\ d * W \in Nat /\ y * W = W * y /\ W * y \in Nat
    BY <1>2
<1>4. QED
    BY <1>3

\* Credit above the debt of a round, and turns that add up to the picks, make
\* shares fair.
LEMMA InvIsFair ==
    ASSUME PoolTypeOK, SharesInv
    PROVE  SharesAreFair
<1>0. SUFFICES ASSUME NEW a \in DOMAIN turns.table
               PROVE  /\ turns.of[a] * Round - Picks * Weight(a) < Round
                      /\ Picks = Round => turns.of[a] = Weight(a)
    BY DEF SharesAreFair
<1> DEFINE p == turns.table
           of == turns.of
<1>1. /\ p \in Providers /\ of \in [Accounts -> Nat] /\ TurnsTyped /\ Even
      /\ of \in [Accounts -> Int]
    BY DEF SharesInv, TurnsTyped
<1>2. /\ IsFiniteSet(Accounts) /\ DOMAIN p \in SUBSET Accounts /\ RoundOf(p) \in Nat
      /\ \A b \in DOMAIN p : EffWeight(p[b]) \in Nat \ {0} /\ EffWeight(p[b]) <= RoundOf(p)
    BY <1>1, WholeTable
<1>3. /\ Round = RoundOf(p) /\ \A b : Weight(b) = EffWeight(p[b])
      /\ Picks \in Int /\ Picks = Total(of, Accounts)
    BY <1>1, PicksAreNumbers DEF Round, RoundOf, Weight
<1>4. \A b \in Accounts \ DOMAIN p : of[b] = 0
    BY <1>1 DEF Even
<1>5. ASSUME NEW b \in DOMAIN p
      PROVE  of[b] * RoundOf(p) - Picks * EffWeight(p[b]) < RoundOf(p)
  <2>1. PICK x, y : x = of[b] * RoundOf(p) /\ y = Picks * EffWeight(p[b])
      OBVIOUS
  <2>2. /\ of[b] \in Nat /\ RoundOf(p) \in Nat /\ EffWeight(p[b]) \in Nat /\ Picks \in Int
      BY <1>1, <1>2, <1>3
  <2>3. x \in Int /\ y \in Int
      BY <2>1, <2>2
  <2>4. current[b] = y - x /\ current[b] > 0 - RoundOf(p)
      BY <1>1, <1>3, <2>1 DEF Even
  <2>5. x - y < RoundOf(p)
      BY <2>2, <2>3, <2>4
  <2>6. QED
      BY <2>1, <2>5
<1>6. ASSUME Picks = RoundOf(p)
      PROVE  of[a] = EffWeight(p[a])
  <2> DEFINE R == DOMAIN p
             w == [b \in R |-> EffWeight(p[b])]
             none == [b \in Accounts |-> 0]
             due == [b \in Accounts |-> IF b \in R THEN none[b] + w[b] ELSE none[b]]
  <2>1. /\ R \in SUBSET Accounts /\ a \in R
        /\ \A b \in Accounts \ R : of[b] = 0
      BY <1>0, <1>2, <1>4
  <2>2. /\ IsFiniteSet(R) /\ w \in [R -> Nat] /\ w \in [R -> Int]
        /\ \A b \in R : w[b] = EffWeight(p[b])
        /\ \E g : Sums(g, w, R) /\ RoundOf(p) = g[R]
    <3>1. R \in SUBSET DOMAIN p
        OBVIOUS
    <3>2. QED
        BY <1>1, <3>1, WeightIsSum DEF RoundOf
  <2>3. /\ none \in [Accounts -> Int] /\ due \in [Accounts -> Int]
        /\ \A b \in Accounts : none[b] = 0
        /\ \A b \in Accounts : due[b] = IF b \in R THEN none[b] + w[b] ELSE none[b]
      BY <2>1, <2>2
  <2>4. \A b \in R : of[b] <= w[b]
    <3>1. SUFFICES ASSUME NEW b \in R PROVE of[b] <= EffWeight(p[b])
        BY <2>2
    <3>2. /\ of[b] \in Nat /\ EffWeight(p[b]) \in Nat /\ RoundOf(p) \in Nat
          /\ of[b] * RoundOf(p) - RoundOf(p) * EffWeight(p[b]) < RoundOf(p)
        BY <1>1, <1>2, <1>5, <1>6, <2>1
    <3>3. QED
        BY <3>2, NotAhead
  <2> HIDE DEF p, of, R, w, none, due
  <2>5. PICK g : Sums(g, w, R) /\ RoundOf(p) = g[R]
      BY <2>2
  <2>6. PICK z : Sums(z, none, Accounts)
      BY <1>2, <2>3, SumsExist
  <2>7. PICK e : Sums(e, due, Accounts)
      BY <1>2, <2>3, SumsExist
  <2>8. PICK f : Sums(f, of, Accounts) /\ Total(of, Accounts) = f[Accounts]
      BY <1>1, <1>2, TotalIsSum
  <2>9. e[Accounts] = z[Accounts] + g[R]
      BY <1>2, <2>1, <2>2, <2>3, <2>5, <2>6, <2>7, SumsPlus
  <2>10. z[Accounts] = 0
      BY <1>2, <2>3, <2>6, SumsZero
  <2>11. f[Accounts] = e[Accounts]
    <3>1. g[R] \in Nat /\ Total(of, Accounts) = g[R]
        BY <1>2, <1>3, <1>6, <2>5
    <3>2. e[Accounts] = 0 + g[R]
        BY <2>9, <2>10
    <3>3. QED
        BY <2>8, <3>1, <3>2
  <2>12. \A b \in Accounts : of[b] <= due[b]
    <3>1. ASSUME NEW b \in Accounts PROVE of[b] <= due[b]
      <4>1. CASE b \in R
        <5>1. w[b] \in Int /\ due[b] = 0 + w[b] /\ of[b] <= w[b]
            BY <2>2, <2>3, <2>4, <4>1
        <5>2. QED
            BY <5>1
      <4>2. CASE b \notin R
          BY <2>1, <2>3, <4>2
      <4>3. QED
          BY <4>1, <4>2
    <3>2. QED
        BY <3>1
  <2>13. of[a] = due[a]
      BY <1>1, <1>2, <2>1, <2>3, <2>7, <2>8, <2>11, <2>12, SumsOrdered
  <2>14. due[a] = 0 + w[a] /\ w[a] = EffWeight(p[a]) /\ w[a] \in Int
      BY <2>1, <2>2, <2>3
  <2>15. QED
      BY <2>13, <2>14
<1>7. QED
    BY <1>0, <1>3, <1>5, <1>6

\* Pick's rotation: however weights are chosen, no account is a whole turn
\* ahead of its share while one table is used, and a round gives each account
\* exactly its weight.
THEOREM SharesAreFairAlways == SharesSpec => []SharesAreFair
<1>1. SharesInit => SharesInv /\ turns = [table |-> turns.table, of |-> turns.of]
  <2>1. SUFFICES ASSUME turns = NoTurns
                 PROVE  SharesInv /\ turns = [table |-> turns.table, of |-> turns.of]
      BY DEF SharesInit
  <2>2. turns.of \in [Accounts -> Nat] /\ DOMAIN turns.table = {}
      BY <2>1 DEF NoTurns, NoTable
  <2>3. QED
      BY <2>1, <2>2 DEF SharesInv, TurnsTyped, NoTurns
<1>2. ASSUME turns = [table |-> turns.table, of |-> turns.of], [SharesNext]_<<poolVars, turns>>
      PROVE  turns' = [table |-> turns'.table, of |-> turns'.of]
  <2>1. turns' = turns \/ turns' = NoTurns \/ (\E p, f : turns' = [table |-> p, of |-> f])
      BY <1>2 DEF SharesNext, Counted
  <2>2. QED
      BY <1>2, <2>1 DEF NoTurns
<1>3. SharesSpec => PoolSpec
  <2>1. SharesInit => PoolInit
      BY DEF SharesInit
  <2>2. [SharesNext]_<<poolVars, turns>> => [PoolNext]_poolVars
      BY DEF SharesNext, PoolNext, Pick
  <2>3. QED
      BY <2>1, <2>2, PTL DEF SharesSpec, PoolSpec
<1>4. QED
  <2>1. ASSUME PoolTypeOK, CreditConserved,
               SharesInv /\ turns = [table |-> turns.table, of |-> turns.of],
               [SharesNext]_<<poolVars, turns>>
        PROVE  (SharesInv /\ turns = [table |-> turns.table, of |-> turns.of])'
      BY <1>2, <2>1, SharesKept
  <2>2. PoolTypeOK /\ SharesInv => SharesAreFair
      BY InvIsFair
  <2>3. QED
      BY <1>1, <1>3, <2>1, <2>2, PoolTypeCorrect, CreditIsConserved, PTL DEF SharesSpec
=============================================================================
