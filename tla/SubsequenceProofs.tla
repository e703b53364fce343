------------------------- MODULE SubsequenceProofs -------------------------
(***************************************************************************)
(* Facts about natural numbers, Ascending and Subsequence that the proofs  *)
(* of the components rest on.                                              *)
(***************************************************************************)
EXTENDS Subsequences, FiniteSetTheorems, WellFoundedInduction, TLAPS

-----------------------------------------------------------------------------
(* Natural numbers.                                                        *)

\* A set of natural numbers with a member has a least one.
LEMMA HasLeast ==
  ASSUME NEW T, T \subseteq Nat, T # {}
  PROVE  \E x \in T : \A y \in T : x <= y
<1> DEFINE R == {ss \in Nat \X Nat : ss[1] < ss[2]}
<1>1. IsWellFoundedOn(R, Nat)
  BY NatLessThanWellFounded DEF OpToRel
<1> HIDE DEF R
<1>2. PICK x \in T : \A y \in T : ~ (<<y, x>> \in R)
  BY <1>1, WFMin
<1>3. ASSUME NEW y \in T
      PROVE  x <= y
  <2>1. x \in Nat /\ y \in Nat
    OBVIOUS
  <2>2. ~ (<<y, x>> \in R)
    BY <1>2
  <2> QED
    BY <2>1, <2>2 DEF R
<1> QED
  BY <1>2, <1>3

\* A bounded one has a greatest one.
LEMMA HasGreatest ==
  ASSUME NEW T, T \subseteq Nat, T # {}, NEW b \in Nat, \A x \in T : x <= b
  PROVE  \E x \in T : \A y \in T : x >= y
<1> DEFINE D == {b - x : x \in T}
<1>1. \A x \in T : x \in Nat /\ b - x \in Nat
  OBVIOUS
<1>2. D \subseteq Nat /\ D # {}
  BY <1>1
<1>3. PICK m \in D : \A y \in D : m <= y
  BY <1>2, HasLeast
<1>4. PICK x \in T : m = b - x
  BY <1>3
<1>5. ASSUME NEW y \in T
      PROVE  x >= y
  <2>1. b - x <= b - y
    BY <1>3, <1>4
  <2> QED
    BY <1>1, <2>1
<1> QED
  BY <1>5

\* A set with zero and with the successor of every member has all numbers.
LEMMA Induct ==
  ASSUME NEW S, S \subseteq Nat, 0 \in S, \A n \in S : n + 1 \in S
  PROVE  S = Nat
<1>1. SUFFICES ASSUME Nat \ S # {}
               PROVE  FALSE
  OBVIOUS
<1>2. PICK x \in Nat \ S : \A y \in Nat \ S : x <= y
  BY <1>1, HasLeast
<1>3. x # 0 /\ x - 1 \in Nat /\ x - 1 \notin Nat \ S
  BY <1>2
<1> QED
  BY <1>2, <1>3

LEMMA Products ==
  ASSUME NEW a \in Nat, NEW b \in Nat, NEW c \in Nat, a <= b
  PROVE  a * c <= b * c /\ a * c \in Nat /\ b * c \in Nat
OBVIOUS

LEMMA Division ==
  ASSUME NEW a \in Nat, NEW b \in Nat \ {0}
  PROVE  /\ a \div b \in Nat /\ a % b \in 0 .. b - 1
         /\ a = (a \div b) * b + (a % b)
OBVIOUS

\* Quotient and remainder are unique.
LEMMA SameRemainder ==
  ASSUME NEW m \in Nat \ {0}, NEW q \in Nat, NEW r \in 0 .. m - 1,
         NEW p \in Nat, NEW t \in 0 .. m - 1, q * m + r = p * m + t
  PROVE  q = p /\ r = t
<1>1. q * m \in Nat /\ p * m \in Nat
  OBVIOUS
<1>2. ASSUME q < p
      PROVE  FALSE
  <2>1. (q + 1) * m <= p * m
    BY <1>2
  <2>2. (q + 1) * m = q * m + m
    OBVIOUS
  <2> QED
    BY <1>1, <2>1, <2>2
<1>3. ASSUME p < q
      PROVE  FALSE
  <2>1. (p + 1) * m <= q * m
    BY <1>3
  <2>2. (p + 1) * m = p * m + m
    OBVIOUS
  <2> QED
    BY <1>1, <2>1, <2>2
<1>4. p = q
  BY <1>2, <1>3
<1> QED
  BY <1>1, <1>4

-----------------------------------------------------------------------------
(* Ranks.                                                                  *)

LEMMA RankType ==
  ASSUME NEW S, S \subseteq Nat, IsFiniteSet(S), NEW x \in S
  PROVE  Rank(S, x) \in 0 .. Cardinality(S) - 1
<1> DEFINE Before == {y \in S : y < x}
<1>1. Before \subseteq S /\ x \notin Before
  OBVIOUS
<1>2. IsFiniteSet(Before) /\ Cardinality(Before) <= Cardinality(S)
  BY <1>1, FS_Subset
<1>3. Cardinality(Before) # Cardinality(S)
  BY <1>1, FS_Subset
<1>4. Cardinality(Before) \in Nat /\ Cardinality(S) \in Nat
  BY <1>2, FS_CardinalityType
<1> QED
  BY <1>2, <1>3, <1>4 DEF Rank

LEMMA RankGrows ==
  ASSUME NEW S, S \subseteq Nat, IsFiniteSet(S), NEW x \in S, NEW y \in S, x < y
  PROVE  Rank(S, x) < Rank(S, y)
<1> DEFINE A == {z \in S : z < x}
           B == {z \in S : z < y}
<1>1. A \subseteq B /\ x \in B /\ x \notin A
  <2>1. x \in Nat /\ y \in Nat /\ \A z \in S : z \in Nat
    OBVIOUS
  <2>2. \A z \in S : z < x => z < y
    BY <2>1
  <2>3. ~ (x < x)
    BY <2>1
  <2> QED
    BY <2>2, <2>3
<1>2. IsFiniteSet(B)
  BY FS_Subset
<1>3. IsFiniteSet(A) /\ Cardinality(A) <= Cardinality(B) /\ Cardinality(A) # Cardinality(B)
  BY <1>1, <1>2, FS_Subset
<1>4. Cardinality(A) \in Nat /\ Cardinality(B) \in Nat
  BY <1>2, <1>3, FS_CardinalityType
<1> QED
  BY <1>3, <1>4 DEF Rank

LEMMA RankOnto ==
  ASSUME NEW S, S \subseteq Nat, IsFiniteSet(S), NEW r \in 0 .. Cardinality(S) - 1
  PROVE  \E x \in S : Rank(S, x) = r
<1> DEFINE f == [x \in S |-> Rank(S, x)]
           C == Cardinality(S)
<1>1. C \in Nat
  BY FS_CardinalityType
<1>2. IsFiniteSet(0 .. C - 1) /\ Cardinality(0 .. C - 1) = C
  <2>1. C = 0 \/ C > 0
    BY <1>1
  <2> QED
    BY <1>1, <2>1, FS_Interval
<1>3. f \in [S -> 0 .. C - 1]
  BY RankType
<1>4. \A x, y \in S : f[x] = f[y] => x = y
  <2>1. SUFFICES ASSUME NEW x \in S, NEW y \in S, f[x] = f[y], x # y
                 PROVE  FALSE
    OBVIOUS
  <2>2. x \in Nat /\ y \in Nat
    OBVIOUS
  <2>3. x < y \/ y < x
    BY <2>1, <2>2
  <2>4. Rank(S, x) \in 0 .. C - 1 /\ Rank(S, y) \in 0 .. C - 1
    BY RankType
  <2>5. x < y => Rank(S, x) < Rank(S, y)
    BY RankGrows
  <2>6. y < x => Rank(S, y) < Rank(S, x)
    BY RankGrows
  <2>7. Rank(S, x) = Rank(S, y)
    BY <2>1
  <2> HIDE DEF f, C
  <2> QED
    BY <1>1, <2>3, <2>4, <2>5, <2>6, <2>7
<1>5. f \in Injection(S, 0 .. C - 1)
  BY <1>3, <1>4 DEF Injection, IsInjective
<1>6. f \in Surjection(S, 0 .. C - 1)
  BY <1>2, <1>5, FS_Injection
<1> QED
  BY <1>6 DEF Surjection

-----------------------------------------------------------------------------
(* Ascending lists every member of the set once, in growing order.         *)

LEMMA AscendingRank ==
  ASSUME NEW S, S \subseteq Nat, IsFiniteSet(S), NEW k \in 1 .. Cardinality(S)
  PROVE  Ascending(S)[k] \in S /\ Rank(S, Ascending(S)[k]) = k - 1
<1>1. Cardinality(S) \in Nat
  BY FS_CardinalityType
<1>2. k - 1 \in 0 .. Cardinality(S) - 1
  BY <1>1
<1>3. \E x \in S : Rank(S, x) = k - 1
  BY <1>2, RankOnto
<1>4. Ascending(S)[k] = CHOOSE x \in S : Rank(S, x) = k - 1
  BY DEF Ascending
<1> QED
  BY <1>3, <1>4

LEMMA AscendingGrows ==
  ASSUME NEW S, S \subseteq Nat, IsFiniteSet(S),
         NEW j \in 1 .. Cardinality(S), NEW k \in 1 .. Cardinality(S), j < k
  PROVE  Ascending(S)[j] < Ascending(S)[k]
<1> DEFINE x == Ascending(S)[j]
           y == Ascending(S)[k]
<1>1. x \in S /\ Rank(S, x) = j - 1 /\ y \in S /\ Rank(S, y) = k - 1
  BY AscendingRank
<1>2. x \in Nat /\ y \in Nat
  BY <1>1
<1>3. Cardinality(S) \in Nat
  BY FS_CardinalityType
<1>4. y < x => Rank(S, y) < Rank(S, x)
  BY <1>1, RankGrows
<1> HIDE DEF x, y
<1>5. x # y /\ ~ (y < x)
  BY <1>1, <1>3, <1>4
<1>6. x < y
  BY <1>2, <1>5
<1> QED
  BY <1>6 DEF x, y

LEMMA AscendingOnto ==
  ASSUME NEW S, S \subseteq Nat, IsFiniteSet(S), NEW x \in S
  PROVE  \E k \in 1 .. Cardinality(S) : Ascending(S)[k] = x
<1> DEFINE k == Rank(S, x) + 1
           y == Ascending(S)[k]
<1>1. Cardinality(S) \in Nat
  BY FS_CardinalityType
<1>a. Rank(S, x) \in 0 .. Cardinality(S) - 1
  BY RankType
<1>2. k \in 1 .. Cardinality(S)
  BY <1>1, <1>a
<1>3. y \in S /\ Rank(S, y) = k - 1
  BY <1>2, AscendingRank
<1>4. x \in Nat /\ y \in Nat
  BY <1>3
<1>5. Rank(S, x) \in Int
  BY <1>1, <1>a
<1>6. x < y => Rank(S, x) < Rank(S, y)
  BY <1>3, RankGrows
<1>7. y < x => Rank(S, y) < Rank(S, x)
  BY <1>3, RankGrows
<1>8. Rank(S, y) = Rank(S, x)
  BY <1>3, <1>5
<1> HIDE DEF y
<1>9. y = x
  BY <1>4, <1>5, <1>6, <1>7, <1>8
<1> QED
  BY <1>2, <1>9 DEF y

-----------------------------------------------------------------------------
(* A subsequence is a sequence of the elements at its positions, in order. *)

LEMMA SubsequenceType ==
  ASSUME NEW E, NEW s \in Seq(E), NEW I \in SUBSET DOMAIN s
  PROVE  /\ IsFiniteSet(I) /\ I \subseteq Nat /\ Cardinality(I) \in Nat
         /\ Subsequence(s, I) \in Seq(E)
         /\ Len(Subsequence(s, I)) = Cardinality(I)
         /\ DOMAIN Subsequence(s, I) = 1 .. Cardinality(I)
<1>1. DOMAIN s = 1 .. Len(s) /\ Len(s) \in Nat
  OBVIOUS
<1>2. IsFiniteSet(1 .. Len(s)) /\ I \subseteq Nat
  BY <1>1, FS_Interval
<1>3. IsFiniteSet(I) /\ Cardinality(I) \in Nat
  BY <1>1, <1>2, FS_Subset, FS_CardinalityType
<1>4. \A k \in 1 .. Cardinality(I) : Ascending(I)[k] \in I
  BY <1>2, <1>3, AscendingRank
<1>5. \A k \in 1 .. Cardinality(I) : s[Ascending(I)[k]] \in E
  BY <1>4
<1>6. Subsequence(s, I) \in [1 .. Cardinality(I) -> E]
  BY <1>5 DEF Subsequence
<1>7. Subsequence(s, I) \in Seq(E)
  BY <1>3, <1>6
<1> QED
  BY <1>2, <1>3, <1>6, <1>7

LEMMA SubsequenceAt ==
  ASSUME NEW E, NEW s \in Seq(E), NEW I \in SUBSET DOMAIN s,
         NEW k \in DOMAIN Subsequence(s, I)
  PROVE  Ascending(I)[k] \in I /\ Subsequence(s, I)[k] = s[Ascending(I)[k]]
<1>1. IsFiniteSet(I) /\ I \subseteq Nat /\ k \in 1 .. Cardinality(I)
  BY SubsequenceType
<1>2. Ascending(I)[k] \in I
  BY <1>1, AscendingRank
<1> QED
  BY <1>1, <1>2 DEF Subsequence

LEMMA SubsequenceOrder ==
  ASSUME NEW E, NEW s \in Seq(E), NEW I \in SUBSET DOMAIN s,
         NEW j \in DOMAIN Subsequence(s, I), NEW k \in DOMAIN Subsequence(s, I), j < k
  PROVE  Ascending(I)[j] < Ascending(I)[k]
<1>1. IsFiniteSet(I) /\ I \subseteq Nat /\ j \in 1 .. Cardinality(I) /\ k \in 1 .. Cardinality(I)
  BY SubsequenceType
<1> QED
  BY <1>1, AscendingGrows

LEMMA SubsequenceOnto ==
  ASSUME NEW E, NEW s \in Seq(E), NEW I \in SUBSET DOMAIN s, NEW i \in I
  PROVE  \E k \in DOMAIN Subsequence(s, I) : Subsequence(s, I)[k] = s[i]
<1>1. IsFiniteSet(I) /\ I \subseteq Nat /\ DOMAIN Subsequence(s, I) = 1 .. Cardinality(I)
  BY SubsequenceType
<1>2. PICK k \in 1 .. Cardinality(I) : Ascending(I)[k] = i
  BY <1>1, AscendingOnto
<1> QED
  BY <1>1, <1>2 DEF Subsequence

-----------------------------------------------------------------------------
(* Sequences that gain an element at the end or lose their first.          *)

LEMMA AppendFacts ==
  ASSUME NEW E, NEW s \in Seq(E), NEW e \in E
  PROVE  /\ Append(s, e) \in Seq(E)
         /\ DOMAIN s = 1 .. Len(s) /\ Len(s) \in Nat
         /\ DOMAIN Append(s, e) = 1 .. Len(s) + 1
         /\ \A i \in DOMAIN s : i \in DOMAIN Append(s, e) /\ Append(s, e)[i] = s[i]
         /\ Append(s, e)[Len(s) + 1] = e
         /\ \A i \in DOMAIN Append(s, e) : i \in DOMAIN s \/ i = Len(s) + 1
OBVIOUS

LEMMA TailFacts ==
  ASSUME NEW E, NEW s \in Seq(E), s # <<>>
  PROVE  /\ Tail(s) \in Seq(E) /\ Head(s) \in E
         /\ 1 \in DOMAIN s /\ Head(s) = s[1]
         /\ DOMAIN s \subseteq Nat /\ DOMAIN Tail(s) \subseteq Nat
         /\ \A i \in DOMAIN Tail(s) : i + 1 \in DOMAIN s /\ Tail(s)[i] = s[i + 1]
         /\ \A i \in DOMAIN s : i # 1 => i > 1 /\ i - 1 \in DOMAIN Tail(s)
OBVIOUS
=============================================================================
