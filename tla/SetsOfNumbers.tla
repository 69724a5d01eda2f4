---------------------------- MODULE SetsOfNumbers ----------------------------
(***************************************************************************)
(* Least and greatest elements of sets of numbers, for the modules that    *)
(* pick the next statement of a transaction or the latest row of a table,  *)
(* and sums over finite sets, for what rows add up to.                     *)
(***************************************************************************)
EXTENDS Integers, FiniteSetTheorems, WellFoundedInduction, TLAPS

\* A set of natural numbers has a least element.
LEMMA LeastElement ==
    ASSUME NEW S, S \subseteq Nat, S # {}
    PROVE  \E m \in S : \A n \in S : m <= n
<1> DEFINE Less == OpToRel(<, Nat)
<1>1. \A x, y \in Nat : x < y => <<x, y>> \in Less
    BY DEF OpToRel
<1>2. IsWellFoundedOn(Less, Nat)
    BY NatLessThanWellFounded
<1> HIDE DEF Less
<1>3. PICK m \in S : \A n \in S : ~ (<<n, m>> \in Less)
    BY <1>2, WFMin
<1>4. ASSUME NEW n \in S
      PROVE  m <= n
    <2>1. ~ (<<n, m>> \in Less)
        BY <1>3
    <2>2. m \in Nat /\ n \in Nat
        OBVIOUS
    <2>3. ~ (n < m)
        BY <1>1, <2>1, <2>2
    <2> QED
        BY <2>2, <2>3
<1> QED
    BY <1>4

\* A set of integers that one number bounds has a greatest element.
LEMMA GreatestElement ==
    ASSUME NEW S, S \subseteq Int, S # {}, NEW b \in Int, \A n \in S : n <= b
    PROVE  \E m \in S : \A n \in S : n <= m
<1> DEFINE Distances == {d \in Nat : \E n \in S : d = b - n}
<1>0. \A n \in S : n \in Int /\ b - n \in Nat
    OBVIOUS
<1>1. Distances \subseteq Nat /\ Distances # {}
    BY <1>0
<1>2. PICK d \in Distances : \A e \in Distances : d <= e
    BY <1>1, LeastElement
<1>3. PICK m \in S : d = b - m
    BY <1>2
<1>4. ASSUME NEW n \in S
      PROVE  n <= m
    <2>1. d <= b - n
        BY <1>0, <1>2
    <2>2. m \in Int /\ n \in Int
        OBVIOUS
    <2> QED
        BY <1>3, <2>1, <2>2
<1> QED
    BY <1>4

-----------------------------------------------------------------------------
(***************************************************************************)
(* Sums.  MapThenSumSet takes the elements of a set away one by one, in an *)
(* order that CHOOSE fixes for every set by itself: that there is such a   *)
(* function, and that the order does not matter, is shown by looking at a  *)
(* smallest subset that would say otherwise.                               *)
(***************************************************************************)

Pick(s) == CHOOSE x \in s : TRUE

\* F gives each subset of S the sum of the weights w of its elements.
IsSum(F, w, S) ==
    F = [s \in SUBSET S |-> IF s = {} THEN 0 ELSE w[Pick(s)] + F[s \ {Pick(s)}]]

LEMMA PickIn == ASSUME NEW s, s # {} PROVE Pick(s) \in s
BY DEF Pick

\* A family of subsets of a finite set has one that contains no other.
LEMMA MinimalSubset ==
    ASSUME NEW S, IsFiniteSet(S), NEW B, B \subseteq SUBSET S, B # {}
    PROVE  \E s \in B : \A t \in SUBSET s : t # s => t \notin B
<1> DEFINE R == StrictSubsetOrdering(S)
<1>1. IsWellFoundedOn(R, SUBSET S)
    BY FS_StrictSubsetOrderingWellFounded, FS_FiniteSubsetsOfFinite
<1>2. \A t, s \in SUBSET S : t \subseteq s /\ t # s => <<t, s>> \in R
    BY DEF StrictSubsetOrdering
<1> HIDE DEF R
<1>3. PICK s \in B : \A t \in B : ~ (<<t, s>> \in R)
    BY <1>1, WFMin
<1>4. \A t \in SUBSET s : t # s => t \notin B
    BY <1>2, <1>3
<1> QED
    BY <1>4

\* The equation, read at one subset.
LEMMA SumAt ==
    ASSUME NEW F, NEW w, NEW S, IsSum(F, w, S), NEW s \in SUBSET S
    PROVE  /\ s = {} => F[s] = 0
           /\ s # {} => F[s] = w[Pick(s)] + F[s \ {Pick(s)}]
BY DEF IsSum

\* Sums of integers are integers.
LEMMA SumIsInt ==
    ASSUME NEW S, IsFiniteSet(S), NEW w, \A x \in S : w[x] \in Int,
           NEW F, IsSum(F, w, S), NEW s \in SUBSET S
    PROVE  F[s] \in Int
<1> DEFINE B == {t \in SUBSET S : F[t] \notin Int}
<1> SUFFICES ASSUME B # {} PROVE FALSE
    OBVIOUS
<1>1. PICK b \in B : \A t \in SUBSET b : t # b => t \notin B
    <2>1. B \subseteq SUBSET S
        OBVIOUS
    <2> HIDE DEF B
    <2> QED
        BY <2>1, MinimalSubset
<1>2. b # {}
    <2>1. b = {} => F[b] = 0
        BY SumAt
    <2> QED
        BY <2>1
<1> DEFINE x == Pick(b)
           rest == b \ {x}
<1>3. x \in b /\ rest \in SUBSET b /\ rest # b
    BY <1>2, PickIn
<1>4. F[b] = w[x] + F[rest]
    BY <1>2, SumAt
<1>5. F[rest] \in Int
    BY <1>1, <1>3
<1> QED
    BY <1>3, <1>4, <1>5

\* Two sums with the same weights agree where both are defined.
LEMMA SumsAgree ==
    ASSUME NEW S, IsFiniteSet(S), NEW w, NEW F, IsSum(F, w, S),
           NEW T, NEW v, NEW G, IsSum(G, v, T),
           NEW s \in SUBSET S, s \in SUBSET T, \A x \in s : w[x] = v[x]
    PROVE  F[s] = G[s]
<1> DEFINE B == {t \in SUBSET s : F[t] # G[t]}
<1> SUFFICES ASSUME B # {} PROVE FALSE
    OBVIOUS
<1>1. PICK b \in B : \A t \in SUBSET b : t # b => t \notin B
    <2>1. B \subseteq SUBSET S
        OBVIOUS
    <2> HIDE DEF B
    <2> QED
        BY <2>1, MinimalSubset
<1>2. /\ b \in SUBSET S /\ b \in SUBSET T /\ b \in SUBSET s
      /\ F[b] # G[b]
    OBVIOUS
<1>3. b # {}
    BY <1>2, SumAt
<1> DEFINE x == Pick(b)
           rest == b \ {x}
<1>4. x \in b /\ rest \in SUBSET b /\ rest # b
    BY <1>3, PickIn
<1>5. F[b] = w[x] + F[rest] /\ G[b] = v[x] + G[rest]
    BY <1>2, <1>3, SumAt
<1>6. F[rest] = G[rest]
    BY <1>1, <1>2, <1>4
<1>7. w[x] = v[x]
    BY <1>2, <1>4
<1> QED
    BY <1>2, <1>5, <1>6, <1>7

\* Every finite set of weights has its sums: a smallest subset without them
\* would have them, from those of the subsets below it.
LEMMA SumExists ==
    ASSUME NEW S, IsFiniteSet(S), NEW w
    PROVE  \E F : IsSum(F, w, S)
<1> DEFINE B == {t \in SUBSET S : ~ \E F : IsSum(F, w, t)}
<1> SUFFICES ASSUME B # {} PROVE FALSE
    OBVIOUS
<1>1. PICK b \in B : \A t \in SUBSET b : t # b => t \notin B
    <2>1. B \subseteq SUBSET S
        OBVIOUS
    <2> HIDE DEF B
    <2> QED
        BY <2>1, MinimalSubset
<1>2. b \in SUBSET S /\ ~ \E F : IsSum(F, w, b)
    OBVIOUS
<1>3. \A t \in SUBSET b : t # b => \E F : IsSum(F, w, t)
    BY <1>1, <1>2
<1> HIDE DEF B
<1> DEFINE Below(t) == CHOOSE F : IsSum(F, w, t)
           rest(t) == t \ {Pick(t)}
           Value(t) == IF t = {} THEN 0
                       ELSE w[Pick(t)] + Below(rest(t))[rest(t)]
           G == [t \in SUBSET b |-> Value(t)]
<1>4. \A t \in SUBSET b : t # b => IsSum(Below(t), w, t)
    BY <1>3
<1> HIDE DEF Below
<1>5. ASSUME NEW t \in SUBSET b, t # {}
      PROVE  /\ rest(t) \in SUBSET b /\ rest(t) \in SUBSET t /\ rest(t) # t /\ rest(t) # b
             /\ IsFiniteSet(rest(t))
    <2>1. Pick(t) \in t
        BY <1>5, PickIn
    <2>2. rest(t) \in SUBSET S
        BY <1>2
    <2>3. IsFiniteSet(rest(t))
        BY <2>2, FS_Subset
    <2> QED
        BY <2>1, <2>3
<1>6. ASSUME NEW t \in SUBSET b, t # b
      PROVE  Below(t)[t] = Value(t)
    <2>1. IsSum(Below(t), w, t) /\ t \in SUBSET t
        BY <1>4, <1>6
    <2>2. CASE t = {}
        BY <2>1, <2>2, SumAt
    <2>3. CASE t # {}
        <3>1. Below(t)[t] = w[Pick(t)] + Below(t)[rest(t)]
            BY <2>1, <2>3, SumAt
        <3>2. IsSum(Below(rest(t)), w, rest(t))
            BY <2>3, <1>4, <1>5
        <3>3. Below(rest(t))[rest(t)] = Below(t)[rest(t)]
            <4>1. rest(t) \in SUBSET t /\ IsFiniteSet(rest(t))
                BY <2>3, <1>5
            <4> HIDE DEF rest
            <4>2. rest(t) \in SUBSET rest(t) /\ \A x \in rest(t) : w[x] = w[x]
                OBVIOUS
            <4> QED
                BY <2>1, <3>2, <4>1, <4>2, SumsAgree
        <3> QED
            BY <2>3, <3>1, <3>3
    <2> QED
        BY <2>2, <2>3
<1>7. ASSUME NEW t \in SUBSET b
      PROVE  G[t] = IF t = {} THEN 0 ELSE w[Pick(t)] + G[rest(t)]
    <2>1. CASE t = {}
        BY <2>1
    <2>2. CASE t # {}
        <3>1. rest(t) \in SUBSET b /\ rest(t) # b
            BY <2>2, <1>5
        <3>2. G[rest(t)] = Value(rest(t))
            BY <3>1
        <3>3. Below(rest(t))[rest(t)] = Value(rest(t))
            <4> HIDE DEF rest, Value
            <4> QED
                BY <3>1, <1>6
        <3>4. G[t] = w[Pick(t)] + Below(rest(t))[rest(t)]
            BY <2>2
        <3> QED
            BY <2>2, <3>2, <3>3, <3>4
    <2> QED
        BY <2>1, <2>2
<1>8. IsSum(G, w, b)
    <2>1. G = [t \in SUBSET b |-> G[t]]
        OBVIOUS
    <2> HIDE DEF G
    <2> QED
        BY <2>1, <1>7 DEF IsSum
<1> QED
    BY <1>2, <1>8

\* Any element may be taken away first.
LEMMA SumTakesAny ==
    ASSUME NEW S, IsFiniteSet(S), NEW w, \A x \in S : w[x] \in Int,
           NEW F, IsSum(F, w, S), NEW s \in SUBSET S, NEW x \in s
    PROVE  F[s] = w[x] + F[s \ {x}]
<1> DEFINE B == {t \in SUBSET S : \E y \in t : F[t] # w[y] + F[t \ {y}]}
<1> SUFFICES ASSUME B # {} PROVE FALSE
    OBVIOUS
<1>1. PICK b \in B : \A t \in SUBSET b : t # b => t \notin B
    <2>1. B \subseteq SUBSET S
        OBVIOUS
    <2> HIDE DEF B
    <2> QED
        BY <2>1, MinimalSubset
<1>2. b \in SUBSET S
    OBVIOUS
<1>3. PICK y \in b : F[b] # w[y] + F[b \ {y}]
    OBVIOUS
<1>4. \A t \in SUBSET b : t # b => \A z \in t : F[t] = w[z] + F[t \ {z}]
    BY <1>1, <1>2
<1> HIDE DEF B
<1> DEFINE p == Pick(b)
<1>5. p \in b /\ F[b] = w[p] + F[b \ {p}]
    BY <1>2, <1>3, PickIn, SumAt
<1>6. p # y
    BY <1>3, <1>5
<1> HIDE DEF p
<1> DEFINE both == b \ {p, y}
<1>7. F[b \ {p}] = w[y] + F[both]
    <2>1. /\ b \ {p} \in SUBSET b /\ b \ {p} # b /\ y \in b \ {p}
          /\ (b \ {p}) \ {y} = both
        BY <1>5, <1>6
    <2> QED
        BY <2>1, <1>4
<1>8. F[b \ {y}] = w[p] + F[both]
    <2>1. /\ b \ {y} \in SUBSET b /\ b \ {y} # b /\ p \in b \ {y}
          /\ (b \ {y}) \ {p} = both
        BY <1>5, <1>6
    <2> QED
        BY <2>1, <1>4
<1>9. w[p] \in Int /\ w[y] \in Int /\ F[both] \in Int
    <2>1. both \in SUBSET S
        BY <1>2
    <2> QED
        BY <1>2, <1>5, <2>1, SumIsInt
<1> QED
    BY <1>3, <1>5, <1>7, <1>8, <1>9
=============================================================================
