---------------------------- MODULE TotalsProofs ----------------------------
(* The laws of Total that the accounting proofs use, and of least and      *)
(* greatest numbers.                                                       *)
EXTENDS Totals, FunctionTheorems, FiniteSetTheorems, WellFoundedInduction, TLAPS

\* A row contributes as many coins as its amount: summing one row of
\* SpendingLimitService.check gives the amount of that row.
LEMMA PileSize ==
    ASSUME NEW f, NEW k, f[k] \in Nat
    PROVE  IsFiniteSet(Pile(f, k)) /\ Cardinality(Pile(f, k)) = f[k]
<1>1. IsFiniteSet({k}) /\ Cardinality({k}) = 1
  BY FS_Singleton
<1>2. IsFiniteSet(1..f[k]) /\ Cardinality(1..f[k]) = f[k]
  BY FS_Interval
<1>3. /\ IsFiniteSet({k} \X (1..f[k]))
      /\ Cardinality({k} \X (1..f[k])) = Cardinality({k}) * Cardinality(1..f[k])
  BY <1>1, <1>2, FS_Product
<1> QED
  BY <1>1, <1>2, <1>3 DEF Pile

\* Finitely many rows have finitely many coins, so the sum is a number.
LEMMA TotalType ==
    ASSUME NEW S, IsFiniteSet(S), NEW f, \A k \in S : f[k] \in Nat
    PROVE  IsFiniteSet(Piles(f, S)) /\ Total(f, S) \in Nat
<1> DEFINE T == {Pile(f, k) : k \in S}
           g == [k \in S |-> Pile(f, k)]
<1>1. g \in Surjection(S, T)
  BY DEF Surjection
<1>2. IsFiniteSet(T)
  BY <1>1, FS_Surjection
<1>3. \A p \in T : IsFiniteSet(p)
  BY PileSize
<1>4. IsFiniteSet(UNION T)
  BY <1>2, <1>3, FS_UNION
<1> QED
  BY <1>4, FS_CardinalityType DEF Total, Piles

\* The sum over no rows is zero (coalesce).
LEMMA TotalEmpty == ASSUME NEW f PROVE Total(f, {}) = 0
<1>1. Piles(f, {}) = {}
  BY DEF Piles
<1> QED
  BY <1>1, FS_EmptySet DEF Total

\* Only the amounts of the summed rows matter.
LEMMA TotalSame ==
    ASSUME NEW S, NEW f, NEW g, \A k \in S : f[k] = g[k]
    PROVE  Total(f, S) = Total(g, S)
<1>1. Piles(f, S) = Piles(g, S)
  BY DEF Piles, Pile
<1> QED
  BY <1>1 DEF Total

\* One more row adds its amount.
LEMMA TotalAdd ==
    ASSUME NEW S, IsFiniteSet(S), NEW k, k \notin S,
           NEW f, \A i \in S \cup {k} : f[i] \in Nat
    PROVE  Total(f, S \cup {k}) = Total(f, S) + f[k]
<1>1. IsFiniteSet(Piles(f, S)) /\ Total(f, S) \in Nat
  BY TotalType
<1>2. IsFiniteSet(Pile(f, k)) /\ Cardinality(Pile(f, k)) = f[k]
  BY PileSize
<1>3. Piles(f, S \cup {k}) = Piles(f, S) \cup Pile(f, k)
  BY DEF Piles
<1>4. Piles(f, S) \cap Pile(f, k) = {}
  BY DEF Piles, Pile
<1>5. Cardinality(Piles(f, S) \cup Pile(f, k))
        = Cardinality(Piles(f, S)) + Cardinality(Pile(f, k)) - Cardinality({})
  BY <1>1, <1>2, <1>4, FS_Union
<1>6. Cardinality({}) = 0
  BY FS_EmptySet
<1>7. Total(f, S \cup {k}) = Total(f, S) + f[k] - 0
  BY <1>2, <1>3, <1>5, <1>6 DEF Total
<1>8. f[k] \in Nat
  OBVIOUS
<1> QED
  BY <1>1, <1>7, <1>8

\* One row less takes its amount away.
LEMMA TotalRemove ==
    ASSUME NEW S, IsFiniteSet(S), NEW k \in S,
           NEW f, \A i \in S : f[i] \in Nat
    PROVE  Total(f, S) = Total(f, S \ {k}) + f[k]
<1>1. IsFiniteSet(S \ {k})
  BY FS_RemoveElement
<1>2. S = (S \ {k}) \cup {k}
  OBVIOUS
<1>3. Total(f, (S \ {k}) \cup {k}) = Total(f, S \ {k}) + f[k]
  BY <1>1, TotalAdd
<1> QED
  BY <1>2, <1>3

-----------------------------------------------------------------------------
(* Least and greatest elements, which ORDER BY ... LIMIT 1 picks.          *)

Above(S, x) == {y \in S : y > x}

\* A set of numbers has a least element, since < is well founded.
LEMMA LeastNat ==
    ASSUME NEW S, S \subseteq Nat, S # {}
    PROVE  \E x \in S : \A y \in S : x <= y
<1>1. IsWellFoundedOn(OpToRel(<, Nat), Nat)
  BY NatLessThanWellFounded, Zenon
<1>2. PICK x \in S : \A y \in S : ~ (<<y, x>> \in OpToRel(<, Nat))
  BY <1>1, WFMin, Zenon
<1>3. \A y \in S : <<y, x>> \in Nat \X Nat /\ <<y, x>>[1] = y /\ <<y, x>>[2] = x
  OBVIOUS
<1>4. \A y \in S : ~ (<<y, x>>[1] < <<y, x>>[2])
  BY <1>2, <1>3, Zenon DEF OpToRel
<1> QED
  BY <1>4, <1>3

\* A finite one has a greatest: the one with the fewest elements above it.
LEMMA GreatestOf ==
    ASSUME NEW S, IsFiniteSet(S), S \subseteq Nat, S # {}
    PROVE  \E x \in S : \A y \in S : y <= x
<1> DEFINE T == {Cardinality(Above(S, x)) : x \in S}
<1>1. \A x \in S : Above(S, x) \subseteq S /\ IsFiniteSet(Above(S, x))
  BY FS_Subset DEF Above
<1>2. T \subseteq Nat /\ T # {}
  BY <1>1, FS_CardinalityType
<1> HIDE DEF T
<1>3. PICK n \in T : \A m \in T : n <= m
  BY <1>2, LeastNat
<1>4. PICK x \in S : n = Cardinality(Above(S, x))
  BY <1>3 DEF T
<1>5. ASSUME NEW y \in S, y > x PROVE FALSE
  <2>1. Above(S, y) \subseteq Above(S, x) /\ Above(S, y) # Above(S, x)
    <3>1. /\ Above(S, x) = {z \in S : z > x} /\ Above(S, y) = {z \in S : z > y}
      BY DEF Above
    <3>2. x \in Nat /\ y \in Nat /\ \A z \in S : z \in Nat
      OBVIOUS
    <3>3. y \in Above(S, x) /\ y \notin Above(S, y)
      BY <1>5, <3>1, <3>2
    <3>4. Above(S, y) \subseteq Above(S, x)
      <4>1. \A z \in S : z > y => z > x
        BY <1>5, <3>2
      <4> QED
        BY <4>1, <3>1, Zenon
    <3> QED
      BY <3>3, <3>4
  <2>2. Cardinality(Above(S, y)) < Cardinality(Above(S, x))
    <3> DEFINE A == Above(S, x)  B == Above(S, y)
    <3>1. IsFiniteSet(A) /\ B \in SUBSET A /\ A # B
      BY <2>1, <1>1
    <3> HIDE DEF A, B
    <3>2. Cardinality(B) <= Cardinality(A) /\ Cardinality(A) # Cardinality(B)
      BY <3>1, FS_Subset
    <3>3. Cardinality(A) \in Nat /\ Cardinality(B) \in Nat
      BY <3>1, FS_Subset, FS_CardinalityType
    <3> QED
      BY <3>2, <3>3 DEF A, B
  <2>3. Cardinality(Above(S, y)) \in T
    BY DEF T
  <2>4. Cardinality(Above(S, y)) \in Nat /\ Cardinality(Above(S, x)) \in Nat
    BY <1>1, FS_CardinalityType
  <2> QED
    BY <2>2, <2>3, <2>4, <1>3, <1>4
<1> QED
  BY <1>5
=============================================================================
