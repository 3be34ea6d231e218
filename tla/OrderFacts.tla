------------------------------ MODULE OrderFacts ------------------------------
(***************************************************************************)
(* Least and greatest numbers, in a form the provers can use: what is      *)
(* proved by induction elsewhere takes a least counterexample from here.   *)
(***************************************************************************)
EXTENDS Integers, FiniteSetTheorems, WellFoundedInduction, TLAPS

\* Every set of naturals that is not empty has a least member.
LEMMA LeastNatural ==
  ASSUME NEW S, S \subseteq Nat, S # {}
  PROVE  \E least \in S : \A n \in S : least <= n
<1>. DEFINE R == OpToRel(<, Nat)
<1>1. IsWellFoundedOn(R, Nat)
  BY NatLessThanWellFounded
<1>2. \A m, n \in Nat : m < n => <<m, n>> \in R
  BY DEF OpToRel
<1>. HIDE DEF R
<1>3. PICK least \in S : \A n \in S : ~ (<<n, least>> \in R)
  BY <1>1, WFMin
<1>4. ASSUME NEW n \in S PROVE least <= n
  <2>1. least \in Nat /\ n \in Nat
    OBVIOUS
  <2>2. ~(n < least)
    BY <1>2, <1>3, <2>1
  <2>. QED
    BY <2>1, <2>2
<1>. QED
  BY <1>4

\* Bounded, it has a greatest.
LEMMA GreatestNatural ==
  ASSUME NEW S, S \subseteq Nat, S # {}, NEW bound \in Nat, \A n \in S : n <= bound
  PROVE  \E greatest \in S : \A n \in S : n <= greatest
<1>. DEFINE T == {bound - n : n \in S}
<1>1. T \subseteq Nat /\ T # {}
  <2>1. ASSUME NEW n \in S PROVE bound - n \in Nat
    <3>1. n \in Nat /\ n <= bound
      OBVIOUS
    <3>. QED
      BY <3>1
  <2>. QED
    BY <2>1
<1>2. PICK least \in T : \A t \in T : least <= t
  <2>. HIDE DEF T
  <2>. QED
    BY <1>1, LeastNatural
<1>3. PICK greatest \in S : least = bound - greatest
  OBVIOUS
<1>4. ASSUME NEW n \in S PROVE n <= greatest
  <2>1. bound - n \in T /\ n \in Nat /\ greatest \in Nat
    OBVIOUS
  <2>2. bound - greatest <= bound - n
    BY <1>2, <1>3, <2>1
  <2>. QED
    BY <2>1, <2>2
<1>. QED
  BY <1>4

\* Every finite set of integers that is not empty has a least member: the one with
\* the fewest below it.
LEMMA LeastInteger ==
  ASSUME NEW S, S \subseteq Int, S # {}, IsFiniteSet(S)
  PROVE  \E least \in S : \A n \in S : least <= n
<1>. DEFINE Below(n) == {m \in S : m < n}
            below == [n \in S |-> Cardinality(Below(n))]
            T == {below[n] : n \in S}
<1>1. \A n \in S : IsFiniteSet(Below(n)) /\ Cardinality(Below(n)) \in Nat
  <2>. TAKE n \in S
  <2>1. Below(n) \in SUBSET S
    OBVIOUS
  <2>. HIDE DEF Below
  <2>. QED
    BY <2>1, FS_Subset, FS_CardinalityType
<1>2. \A n \in S : below[n] = Cardinality(Below(n)) /\ below[n] \in Nat
  BY <1>1
<1>. HIDE DEF below
<1>3. T \subseteq Nat /\ T # {}
  BY <1>2
<1>4. PICK least \in S : \A n \in S : below[least] <= below[n]
  <2>1. PICK t \in T : \A u \in T : t <= u
    <3>. HIDE DEF T
    <3>. QED
      BY <1>3, LeastNatural
  <2>. QED
    BY <2>1
<1>5. ASSUME NEW n \in S, n < least PROVE FALSE
  <2>. DEFINE B == Below(least)
              C == Below(n)
  <2>1. C \in SUBSET B /\ C # B
    <3>1. n \in Int /\ least \in Int /\ \A m \in S : m \in Int
      OBVIOUS
    <3>2. ASSUME NEW m \in C PROVE m \in B
      <4>1. m \in S /\ m \in Int /\ m < n
        BY <3>1
      <4>2. m < least
        BY <1>5, <3>1, <4>1
      <4>. QED
        BY <4>1, <4>2
    <3>3. n \in B /\ n \notin C
      BY <1>5, <3>1
    <3>. HIDE DEF B, C
    <3>. QED
      BY <3>2, <3>3
  <2>2. /\ Cardinality(B) = below[least] /\ Cardinality(C) = below[n]
        /\ below[least] \in Nat /\ below[n] \in Nat /\ below[least] <= below[n]
    BY <1>2, <1>4
  <2>3. IsFiniteSet(B)
    BY <1>1
  <2>. HIDE DEF B, C
  <2>4. Cardinality(C) <= Cardinality(B) /\ (Cardinality(B) = Cardinality(C) => B = C)
    BY <2>1, <2>3, FS_Subset
  <2>. QED
    BY <2>1, <2>2, <2>4
<1>6. \A n \in S : least <= n
  <2>. TAKE n \in S
  <2>1. n \in Int /\ least \in Int
    OBVIOUS
  <2>. QED
    BY <1>5, <2>1
<1>. QED
  BY <1>6

\* A finite set has as many members as its image, where no two members have the same.
LEMMA InjectiveImage ==
  ASSUME NEW S, IsFiniteSet(S), NEW f, DOMAIN f = S,
         \A x, y \in S : f[x] = f[y] => x = y,
         NEW T, \A x \in S : f[x] \in T, \A t \in T : \E x \in S : f[x] = t
  PROVE  IsFiniteSet(T) /\ Cardinality(T) = Cardinality(S)
<1>. DEFINE g == [x \in S |-> f[x]]
<1>1. g \in Bijection(S, T)
  BY DEF Bijection, Injection, Surjection, IsInjective
<1>2. ExistsBijection(S, T)
  BY <1>1 DEF ExistsBijection
<1>. QED
  BY <1>2, FS_Bijection

\* The place of each member of S in order.
Places(S) == [e \in S |-> Cardinality({f \in S : f <= e})]

\* The places are the numbers up to the size of S, each taken once.
LEMMA PlacesFill ==
  ASSUME NEW S, IsFiniteSet(S), \A n \in S : n \in Nat
  PROVE  /\ Cardinality(S) \in Nat
         /\ Places(S) \in [S -> 1 .. Cardinality(S)]
         /\ \A e, f \in S : Places(S)[e] = Places(S)[f] => e = f
         /\ \A k \in 1 .. Cardinality(S) : \E e \in S : Places(S)[e] = k
<1>. DEFINE UpTo(e) == {f \in S : f <= e}
            g == Places(S)
<1>1. Cardinality(S) \in Nat
  BY FS_CardinalityType
<1>2. ASSUME NEW e \in S
      PROVE  /\ IsFiniteSet(UpTo(e)) /\ Cardinality(UpTo(e)) \in 1 .. Cardinality(S)
             /\ g[e] = Cardinality(UpTo(e))
  <2>1. UpTo(e) \in SUBSET S /\ e \in UpTo(e)
    OBVIOUS
  <2>2. g[e] = Cardinality(UpTo(e))
    BY DEF Places
  <2>. HIDE DEF UpTo, g
  <2>3. IsFiniteSet(UpTo(e)) /\ Cardinality(UpTo(e)) <= Cardinality(S)
    BY <2>1, FS_Subset
  <2>4. Cardinality(UpTo(e)) \in Nat /\ Cardinality(UpTo(e)) # 0
    BY <2>1, <2>3, FS_CardinalityType, FS_EmptySet
  <2>. QED
    BY <1>1, <2>2, <2>3, <2>4
<1>3. ASSUME NEW e \in S, NEW f \in S, e < f PROVE g[e] # g[f]
  <2>1. UpTo(e) \in SUBSET UpTo(f) /\ UpTo(e) # UpTo(f)
    <3>1. e \in Nat /\ f \in Nat /\ \A h \in S : h \in Nat
      OBVIOUS
    <3>2. \A h \in UpTo(e) : h \in UpTo(f)
      BY <1>3, <3>1
    <3>3. f \in UpTo(f) /\ f \notin UpTo(e)
      BY <1>3, <3>1
    <3>. HIDE DEF UpTo
    <3>. QED
      BY <3>2, <3>3
  <2>. HIDE DEF UpTo, g
  <2>. QED
    BY <1>2, <2>1, FS_Subset
<1>4. \A e, f \in S : g[e] = g[f] => e = f
  <2>1. \A e, f \in S : e \in Nat /\ f \in Nat
    OBVIOUS
  <2>. HIDE DEF g
  <2>. QED
    BY <1>3, <2>1
<1>5. g \in [S -> 1 .. Cardinality(S)]
  <2>1. DOMAIN g = S /\ g = [e \in S |-> g[e]]
    BY DEF Places
  <2>2. \A e \in S : g[e] \in 1 .. Cardinality(S)
    <3>. HIDE DEF g, UpTo
    <3>. QED
      BY <1>2
  <2>. HIDE DEF g
  <2>. QED
    BY <2>1, <2>2
<1>6. \A k \in 1 .. Cardinality(S) : \E e \in S : g[e] = k
  <2>. HIDE DEF g
  <2>1. g \in Injection(S, 1 .. Cardinality(S))
    BY <1>4, <1>5 DEF Injection, IsInjective
  <2>2. IsFiniteSet(1 .. Cardinality(S)) /\ Cardinality(1 .. Cardinality(S)) = Cardinality(S)
    BY <1>1, FS_Interval
  <2>3. g \in Surjection(S, 1 .. Cardinality(S))
    BY <2>1, <2>2, FS_Injection
  <2>. QED
    BY <2>3 DEF Surjection
<1>. QED
  BY <1>1, <1>4, <1>5, <1>6

\* Division, and products in order: all a page's bounds need.
LEMMA Quotient ==
  ASSUME NEW a \in Nat, NEW b \in Nat, b # 0
  PROVE  /\ a \div b \in Nat
         /\ (a \div b) * b <= a
         /\ a < (a \div b) * b + b
  OBVIOUS

LEMMA ProductsOrdered ==
  ASSUME NEW a \in Nat, NEW b \in Nat, NEW c \in Nat
  PROVE  /\ a * c \in Nat
         /\ a <= b => a * c <= b * c
         /\ a < b => a * c + c <= b * c
<1>1. a * c \in Nat /\ (a <= b => a * c <= b * c)
  OBVIOUS
<1>2. ASSUME a < b PROVE a * c + c <= b * c
  <2>1. a + 1 \in Nat /\ a + 1 <= b /\ (a + 1) * c = a * c + c
    BY <1>2
  <2>2. \A d \in Nat : d <= b => d * c <= b * c
    OBVIOUS
  <2>. QED
    BY <2>1, <2>2
<1>. QED
  BY <1>1, <1>2
===============================================================================
