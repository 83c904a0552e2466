--------------------------- MODULE TallyTheorems ---------------------------
(***************************************************************************)
(* Facts about Total that the invariance proofs cite: it is a natural      *)
(* number, one update of the mapping moves it by the difference, it bounds *)
(* every entry, and the totals of two mappings add up.                     *)
(***************************************************************************)
EXTENDS Tally, FunctionTheorems, FiniteSetTheorems, TLAPS

(* The units of one key: finite, and as many as the amount. *)
LEMMA UnitsOfKey ==
  ASSUME NEW k, NEW n \in Nat
  PROVE  /\ IsFiniteSet({k} \X (1 .. n))
         /\ Cardinality({k} \X (1 .. n)) = n
<1>1. IsFiniteSet(1 .. n) /\ Cardinality(1 .. n) = n
  <2>1. /\ IsFiniteSet(1 .. n)
        /\ Cardinality(1 .. n) = IF 1 > n THEN 0 ELSE n - 1 + 1
    BY FS_Interval
  <2> QED  BY <2>1
<1>2. IsFiniteSet({k}) /\ Cardinality({k}) = 1
  BY FS_Singleton
<1>3. /\ IsFiniteSet({k} \X (1 .. n))
      /\ Cardinality({k} \X (1 .. n)) = Cardinality({k}) * Cardinality(1 .. n)
  BY <1>1, <1>2, FS_Product
<1> QED  BY <1>1, <1>2, <1>3

(* A mapping with finitely many keys has finitely many units. *)
LEMMA UnitsFinite ==
  ASSUME NEW S, IsFiniteSet(S), NEW f, \A k \in S : f[k] \in Nat
  PROVE  IsFiniteSet(Units(f, S))
<1> DEFINE U == { {k} \X (1 .. f[k]) : k \in S }
           g == [k \in S |-> {k} \X (1 .. f[k])]
<1>1. g \in Surjection(S, U)
  BY Zenon DEF Surjection
<1>2. IsFiniteSet(U)
  BY <1>1, FS_Surjection
<1>3. ASSUME NEW T \in U  PROVE IsFiniteSet(T)
  <2>1. PICK k \in S : T = {k} \X (1 .. f[k])
    BY Zenon
  <2>2. f[k] \in Nat
    OBVIOUS
  <2> HIDE DEF U
  <2>3. IsFiniteSet({k} \X (1 .. f[k]))
    BY <2>2, UnitsOfKey
  <2> QED  BY <2>1, <2>3
<1> HIDE DEF U
<1>4. IsFiniteSet(UNION U)
  BY <1>2, <1>3, FS_UNION
<1> QED  BY <1>4 DEF U, Units

(* A total is a natural number. *)
LEMMA TotalType ==
  ASSUME NEW S, IsFiniteSet(S), NEW f, \A k \in S : f[k] \in Nat
  PROVE  Total(f, S) \in Nat
BY UnitsFinite, FS_CardinalityType DEF Total

(* The total depends on the entries of the keys only. *)
LEMMA TotalSame ==
  ASSUME NEW S, NEW f, NEW g, \A k \in S : f[k] = g[k]
  PROVE  Total(f, S) = Total(g, S)
<1>1. Units(f, S) = Units(g, S)
  BY DEF Units
<1> QED  BY <1>1 DEF Total

(* Changing the entry of one key moves the total by the difference. *)
LEMMA TotalUpdate ==
  ASSUME NEW S, IsFiniteSet(S), NEW c \in S,
         NEW f, NEW g,
         \A k \in S : f[k] \in Nat /\ g[k] \in Nat,
         \A k \in S \ {c} : g[k] = f[k]
  PROVE  Total(g, S) = Total(f, S) - f[c] + g[c]
<1> DEFINE F == {c} \X (1 .. f[c])
           G == {c} \X (1 .. g[c])
           R == Units(f, S) \ F
<1>1. Units(g, S) = R \cup G
  BY DEF Units
<1>2. R \cap G = {} /\ Units(f, S) \cap F = F
  BY DEF Units
<1>3. IsFiniteSet(Units(f, S)) /\ IsFiniteSet(G) /\ Cardinality(G) = g[c]
                               /\ Cardinality(F) = f[c]
  BY UnitsFinite, UnitsOfKey
<1>4. IsFiniteSet(R) /\ Cardinality(R) = Cardinality(Units(f, S)) - f[c]
  <2>1. /\ IsFiniteSet(R)
        /\ Cardinality(R) = Cardinality(Units(f, S)) - Cardinality(Units(f, S) \cap F)
    BY <1>3, FS_Difference
  <2> HIDE DEF F
  <2> QED  BY <1>2, <1>3, <2>1
<1>5. Cardinality(R \cup G) = Cardinality(R) + Cardinality(G) - Cardinality(R \cap G)
  BY <1>3, <1>4, FS_Union
<1>6. Cardinality(R \cap G) = 0
  BY <1>2, FS_EmptySet
<1>7. Cardinality(R) \in Nat /\ Cardinality(Units(f, S)) \in Nat
  BY <1>3, <1>4, FS_CardinalityType
<1> HIDE DEF F, G, R
<1> QED  BY <1>1, <1>3, <1>4, <1>5, <1>6, <1>7 DEF Total

(* No entry exceeds the total. *)
LEMMA TotalBound ==
  ASSUME NEW S, IsFiniteSet(S), NEW c \in S,
         NEW f, \A k \in S : f[k] \in Nat
  PROVE  f[c] <= Total(f, S)
<1> DEFINE F == {c} \X (1 .. f[c])
<1>1. F \in SUBSET Units(f, S)
  BY DEF Units
<1>2. Cardinality(F) <= Cardinality(Units(f, S))
  BY <1>1, UnitsFinite, FS_Subset
<1> QED  BY <1>2, UnitsOfKey DEF Total

(* A mapping of zeros has total zero. *)
LEMMA TotalZero ==
  ASSUME NEW S, NEW f, \A k \in S : f[k] = 0
  PROVE  Total(f, S) = 0
<1>1. Units(f, S) = {}
  BY DEF Units
<1> QED  BY <1>1, FS_EmptySet DEF Total

(* An entry is added to or taken from both mappings alike: totals add up. *)
LEMMA TotalPlus ==
  ASSUME NEW S, IsFiniteSet(S), NEW f, NEW g, NEW h,
         \A k \in S : f[k] \in Nat /\ g[k] \in Nat /\ h[k] \in Nat /\ f[k] = g[k] + h[k]
  PROVE  Total(f, S) = Total(g, S) + Total(h, S)
<1> DEFINE U == Units(f, S) \ Units(h, S)
           shift == [u \in Units(g, S) |-> <<u[1], u[2] + h[u[1]]>>]
<1>1. ASSUME NEW e, NEW u
      PROVE  u \in Units(e, S) <=> \E k \in S : \E n \in 1 .. e[k] : u = <<k, n>>
  BY DEF Units
<1>2. shift \in [Units(g, S) -> U]
  <2>1. ASSUME NEW u \in Units(g, S)  PROVE shift[u] \in U
    <3>1. PICK k \in S : \E n \in 1 .. g[k] : u = <<k, n>>  BY <1>1
    <3>2. PICK n \in 1 .. g[k] : u = <<k, n>>  BY <3>1
    <3>3. shift[u] = <<k, n + h[k]>> /\ n + h[k] \in 1 .. f[k] /\ n + h[k] \notin 1 .. h[k]
      BY <3>2
    <3>4. shift[u] \in Units(f, S)  BY <1>1, <3>3
    <3>5. shift[u] \notin Units(h, S)  BY <1>1, <3>3
    <3> QED  BY <3>4, <3>5
  <2> QED  BY <2>1
<1>3. ASSUME NEW u \in Units(g, S), NEW w \in Units(g, S), shift[u] = shift[w]  PROVE u = w
  <2>1. PICK k \in S : \E n \in 1 .. g[k] : u = <<k, n>>  BY <1>1
  <2>2. PICK n \in 1 .. g[k] : u = <<k, n>>  BY <2>1
  <2>3. PICK l \in S : \E m \in 1 .. g[l] : w = <<l, m>>  BY <1>1
  <2>4. PICK m \in 1 .. g[l] : w = <<l, m>>  BY <2>3
  <2>5. shift[u] = <<k, n + h[k]>> /\ shift[w] = <<l, m + h[l]>>  BY <2>2, <2>4
  <2>6. k = l /\ n + h[k] = m + h[l]  BY <1>3, <2>5
  <2>7. n = m  BY <2>6
  <2> QED  BY <2>2, <2>4, <2>6, <2>7
<1>4. ASSUME NEW t \in U  PROVE \E u \in Units(g, S) : shift[u] = t
  <2>1. PICK k \in S : \E n \in 1 .. f[k] : t = <<k, n>>  BY <1>1
  <2>2. PICK n \in 1 .. f[k] : t = <<k, n>>  BY <2>1
  <2>3. n \notin 1 .. h[k]  BY <1>1, <2>2
  <2>4. n - h[k] \in 1 .. g[k] /\ (n - h[k]) + h[k] = n  BY <2>3
  <2>5. <<k, n - h[k]>> \in Units(g, S)  BY <1>1, <2>4
  <2>6. shift[<<k, n - h[k]>>] = <<k, n>>  BY <2>4, <2>5
  <2> QED  BY <2>2, <2>5, <2>6
<1> HIDE DEF shift
<1>5. ExistsBijection(Units(g, S), U)
  <2> HIDE DEF U
  <2>1. shift \in Bijection(Units(g, S), U)  BY <1>2, <1>3, <1>4, Fun_IsBij
  <2> QED  BY <2>1 DEF ExistsBijection
<1>6. IsFiniteSet(Units(f, S)) /\ IsFiniteSet(Units(g, S)) /\ IsFiniteSet(Units(h, S))
  BY UnitsFinite
<1>7. Cardinality(U) = Cardinality(Units(g, S))  BY <1>5, <1>6, FS_Bijection
<1>8. Units(f, S) \cap Units(h, S) = Units(h, S)
  <2>1. ASSUME NEW u \in Units(h, S)  PROVE u \in Units(f, S)
    <3>1. PICK k \in S : \E n \in 1 .. h[k] : u = <<k, n>>  BY <1>1
    <3>2. PICK n \in 1 .. h[k] : u = <<k, n>>  BY <3>1
    <3>3. n \in 1 .. f[k]  OBVIOUS
    <3> QED  BY <1>1, <3>2, <3>3
  <2> QED  BY <2>1
<1>9. Cardinality(U) = Cardinality(Units(f, S)) - Cardinality(Units(h, S))
  <2>1. Cardinality(U) = Cardinality(Units(f, S)) - Cardinality(Units(f, S) \cap Units(h, S))
    BY <1>6, FS_Difference
  <2> QED  BY <1>8, <2>1
<1> HIDE DEF U
<1> QED  BY <1>6, <1>7, <1>9, FS_CardinalityType DEF Total
=============================================================================
