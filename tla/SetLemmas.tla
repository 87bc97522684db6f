------------------------------ MODULE SetLemmas ------------------------------
(***************************************************************************)
(* Facts about sets that several proofs need: least elements, which take   *)
(* the place of induction, and the sums that the folds of the community    *)
(* modules compute.                                                        *)
(***************************************************************************)
EXTENDS FiniteSetsExt, FiniteSetTheorems, WellFoundedInduction, TLAPS

\* A set of natural numbers has a least one.
LEMMA LeastElement ==
  ASSUME NEW T, T \subseteq Nat, T # {}
  PROVE  \E n \in T : \A k \in T : n <= k
<1> DEFINE R == OpToRel(<, Nat)
<1>1. IsWellFoundedOn(R, Nat)
  BY NatLessThanWellFounded
<1>2. \A k, n \in Nat : k < n => <<k, n>> \in R
  BY DEF OpToRel
<1> HIDE DEF R
<1>3. \E n \in T : \A k \in T : ~(<<k, n>> \in R)
  BY <1>1, WFMin, Zenon
<1>4. ASSUME NEW n \in T, NEW k \in T, ~(<<k, n>> \in R) PROVE n <= k
  <2>1. n \in Nat /\ k \in Nat /\ ~(k < n)
    BY <1>2, <1>4, Zenon
  <2> QED
    BY <2>1
<1> QED
  BY <1>3, <1>4, Zenon

\* Min picks the least element of a set of natural numbers.
LEMMA MinProperty ==
  ASSUME NEW T, T \subseteq Nat, T # {}
  PROVE  Min(T) \in T /\ \A k \in T : Min(T) <= k
<1>1. \E n \in T : \A k \in T : n <= k
  BY LeastElement
<1> QED
  BY <1>1, Zenon DEF Min

\* A finite set of natural numbers has a greatest one.
LEMMA MaxProperty ==
  ASSUME NEW S, S \subseteq Nat, IsFiniteSet(S), S # {}
  PROVE  Max(S) \in S /\ \A k \in S : Max(S) >= k
<1> DEFINE Topless(s) == s # {} /\ \A m \in s : \E k \in s : ~(m >= k)
           T == {n \in Nat : \E s \in SUBSET S : Cardinality(s) = n /\ Topless(s)}
<1>1. \A s \in SUBSET S : IsFiniteSet(s) /\ Cardinality(s) \in Nat
  BY FS_Subset, FS_CardinalityType
<1>2. ASSUME T # {} PROVE FALSE
  <2>1. PICK n \in T : \A k \in T : n <= k
    BY <1>2, LeastElement
  <2>2. PICK s \in SUBSET S : Cardinality(s) = n /\ Topless(s)
    BY <2>1
  <2>3. PICK x \in s : TRUE
    BY <2>2
  <2> DEFINE r == s \ {x}
  <2>4. r \in SUBSET S /\ Cardinality(r) = n - 1 /\ n - 1 \in Nat
    <3>1. IsFiniteSet(s) /\ n \in Nat /\ s # {} /\ r \in SUBSET S
      BY <1>1, <2>1, <2>2
    <3>2. Cardinality(r) = n - 1
      BY <3>1, <2>2, <2>3, FS_RemoveElement
    <3>3. n # 0
      BY <3>1, <2>2, FS_EmptySet
    <3> QED
      BY <3>1, <3>2, <3>3
  <2>5. n - 1 \notin T
    <3>1. ~(n <= n - 1)
      BY <2>1
    <3> QED
      BY <3>1, <2>1, Zenon
  <2>6. ~Topless(r)
    BY <2>4, <2>5
  <2>7. CASE r = {}
    BY <2>2, <2>3, <2>7
  <2>8. CASE r # {}
    <3>1. PICK m \in r : \A k \in r : m >= k
      BY <2>6, <2>8
    <3>2. \A k \in s : k = x \/ k \in r
      OBVIOUS
    <3>3. m \in Nat /\ x \in Nat /\ s \subseteq Nat
      BY <2>2, <2>3, <3>1
    <3>4. CASE m >= x
      BY <3>1, <3>2, <3>3, <3>4, <2>2
    <3>5. CASE x >= m
      <4>1. \A k \in s : x >= k
        BY <3>1, <3>2, <3>3, <3>5
      <4> QED
        BY <4>1, <2>2, <2>3
    <3> QED
      BY <3>3, <3>4, <3>5
  <2> QED
    BY <2>7, <2>8
<1>3. ~Topless(S)
  <2>1. Cardinality(S) \in Nat /\ Cardinality(S) \notin T
    BY <1>1, <1>2
  <2> QED
    BY <2>1
<1>4. \E m \in S : \A k \in S : m >= k
  BY <1>3
<1> QED
  BY <1>4, Zenon DEF Max

-----------------------------------------------------------------------------

\* One member of a set: the one with which the folds of the community modules begin.
One(s) == CHOOSE x \in s : TRUE

\* g is the recursive function by which those folds sum f over the subsets of D,
\* as far as it is defined on S.
SumOn(S, f, g) ==
  g = [s \in S |-> IF s = {} THEN 0 ELSE f[One(s)] + g[s \ {One(s)}]]

\* There is such a function.
LEMMA SumExists ==
  ASSUME NEW D, IsFiniteSet(D), NEW f
  PROVE  \E g : SumOn(SUBSET D, f, g)
<1> DEFINE Upto(n) == {s \in SUBSET D : Cardinality(s) <= n}
           T == {n \in Nat : \A g : ~SumOn(Upto(n), f, g)}
<1>1. \A s \in SUBSET D : IsFiniteSet(s) /\ Cardinality(s) \in Nat
  BY FS_Subset, FS_CardinalityType
<1>2. \A s \in SUBSET D : s # {} => /\ One(s) \in s /\ s \ {One(s)} \in SUBSET D
                                    /\ Cardinality(s \ {One(s)}) = Cardinality(s) - 1
                                    /\ Cardinality(s) # 0
  BY <1>1, FS_RemoveElement, FS_EmptySet DEF One
<1>3. ASSUME T # {} PROVE FALSE
  <2>1. PICK n \in T : \A k \in T : n <= k
    BY <1>3, LeastElement
  <2>2. n # 0
    <3>1. \A s \in Upto(0) : s = {}
      BY <1>1, FS_EmptySet
    <3>2. SumOn(Upto(0), f, [s \in Upto(0) |-> 0])
      BY <3>1 DEF SumOn
    <3> QED
      BY <3>2, <2>1
  <2>3. n - 1 \in Nat /\ n - 1 \notin T
    BY <2>1, <2>2
  <2>4. PICK g : SumOn(Upto(n - 1), f, g)
    BY <2>3
  <2> DEFINE h == [s \in Upto(n) |-> IF s = {} THEN 0 ELSE f[One(s)] + g[s \ {One(s)}]]
  <2>5. ASSUME NEW s \in Upto(n - 1) PROVE s \in Upto(n) /\ h[s] = g[s]
    <3>1. s \in SUBSET D /\ Cardinality(s) \in Nat /\ Cardinality(s) <= n - 1 /\ n \in Nat
      BY <1>1, <2>1
    <3>2. s \in Upto(n)
      BY <3>1
    <3> QED
      BY <2>4, <3>2 DEF SumOn
  <2>6. \A s \in Upto(n) : s # {} => s \ {One(s)} \in Upto(n - 1)
    BY <1>1, <1>2, <2>3
  <2>7. SumOn(Upto(n), f, h)
    BY <2>5, <2>6 DEF SumOn
  <2> QED
    BY <2>7, <2>1
<1>4. Cardinality(D) \in Nat /\ Cardinality(D) \notin T
  BY <1>1, <1>3
<1>5. \A s \in SUBSET D : Cardinality(s) <= Cardinality(D)
  BY FS_Subset
<1>6. Upto(Cardinality(D)) = SUBSET D
  BY <1>5
<1> QED
  BY <1>4, <1>6

\* Two sets without a common member.
LEMMA ApartUnion ==
  ASSUME NEW S, NEW T, IsFiniteSet(S), IsFiniteSet(T), S \cap T = {}
  PROVE  IsFiniteSet(S \cup T) /\ Cardinality(S \cup T) = Cardinality(S) + Cardinality(T)
<1>1. Cardinality(S) \in Nat /\ Cardinality(T) \in Nat /\ Cardinality(S \cap T) = 0
  BY FS_CardinalityType, FS_EmptySet
<1>2. /\ IsFiniteSet(S \cup T)
      /\ Cardinality(S \cup T) = Cardinality(S) + Cardinality(T) - Cardinality(S \cap T)
  BY FS_Union, Zenon
<1> QED
  BY <1>1, <1>2

\* All members of the sets U[x].
Unite(U, D) == UNION {U[x] : x \in D}

\* The sum of the sizes of sets that do not overlap is the size of their union.
LEMMA SumIsUnion ==
  ASSUME NEW D, IsFiniteSet(D), NEW f, NEW U, NEW g, SumOn(SUBSET D, f, g),
         \A x \in D : IsFiniteSet(U[x]) /\ f[x] = Cardinality(U[x]),
         \A x, y \in D : x # y => U[x] \cap U[y] = {}
  PROVE  IsFiniteSet(Unite(U, D)) /\ g[D] = Cardinality(Unite(U, D))
<1> DEFINE Over(s) == UNION {U[x] : x \in s}
           Good(s) == IsFiniteSet(Over(s)) /\ g[s] = Cardinality(Over(s))
           T == {n \in Nat : \E s \in SUBSET D : Cardinality(s) = n /\ ~Good(s)}
<1>1. \A s \in SUBSET D : IsFiniteSet(s) /\ Cardinality(s) \in Nat
  BY FS_Subset, FS_CardinalityType
<1>2. \A s \in SUBSET D : s # {} => /\ One(s) \in s /\ s \ {One(s)} \in SUBSET D
                                    /\ Cardinality(s \ {One(s)}) = Cardinality(s) - 1
                                    /\ Cardinality(s) # 0
  BY <1>1, FS_RemoveElement, FS_EmptySet DEF One
<1>3. ASSUME T # {} PROVE FALSE
  <2>1. PICK n \in T : \A k \in T : n <= k
    BY <1>3, LeastElement
  <2>2. PICK s \in SUBSET D : Cardinality(s) = n /\ ~Good(s)
    BY <2>1
  <2>3. CASE s = {}
    <3>1. Over(s) = {}
      BY <2>3
    <3>2. g[s] = 0
      BY <2>3 DEF SumOn
    <3> QED
      BY <3>1, <3>2, <2>2, FS_EmptySet
  <2>4. CASE s # {}
    <3> DEFINE x == One(s)
               r == s \ {x}
    <3>1. x \in s /\ x \in D /\ r \in SUBSET D /\ Cardinality(r) = n - 1 /\ n \in Nat /\ n # 0
      BY <2>4, <2>2, <2>1, <1>2
    <3>2. n - 1 \in Nat /\ n - 1 \notin T
      <4>1. n - 1 \in Nat /\ ~(n <= n - 1)
        BY <3>1
      <4> QED
        BY <4>1, <2>1, Zenon
    <3>3. Good(r)
      BY <3>1, <3>2
    <3>4. g[s] = f[x] + g[r]
      BY <2>4 DEF SumOn
    <3>5. Over(s) = U[x] \cup Over(r)
      BY <3>1
    <3>6. U[x] \cap Over(r) = {}
      BY <3>1
    <3>7. IsFiniteSet(U[x]) /\ f[x] = Cardinality(U[x])
      BY <3>1
    <3> HIDE DEF x, r, Over, T
    <3>8. /\ IsFiniteSet(U[x] \cup Over(r))
          /\ Cardinality(U[x] \cup Over(r)) = Cardinality(U[x]) + Cardinality(Over(r))
      <4> DEFINE P == U[x]
                 Q == Over(r)
      <4>1. IsFiniteSet(P) /\ IsFiniteSet(Q) /\ P \cap Q = {}
        BY <3>3, <3>6, <3>7
      <4> HIDE DEF P, Q
      <4>2. IsFiniteSet(P \cup Q) /\ Cardinality(P \cup Q) = Cardinality(P) + Cardinality(Q)
        BY <4>1, ApartUnion
      <4> QED
        BY <4>2 DEF P, Q
    <3> QED
      BY <3>3, <3>4, <3>5, <3>7, <3>8, <2>2
  <2> QED
    BY <2>3, <2>4
<1>4. Good(D)
  <2>1. Cardinality(D) \in Nat
    BY <1>1
  <2> QED
    BY <1>3, <2>1
<1> QED
  BY <1>4 DEF Unite
==============================================================================
