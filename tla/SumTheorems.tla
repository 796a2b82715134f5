------------------------------ MODULE SumTheorems ------------------------------
(* How a sum of natural numbers follows a change of what it adds up.         *)
EXTENDS Sums, FiniteSetTheorems, TLAPS

(* A holder of n units has n of them. *)
LEMMA HoldingSize ==
    ASSUME NEW x, NEW n \in Nat
    PROVE  IsFiniteSet({x} \X (1..n)) /\ Cardinality({x} \X (1..n)) = n
<1>1. IsFiniteSet({x}) /\ Cardinality({x}) = 1
  BY FS_Singleton
<1>2. IsFiniteSet(1..n) /\ Cardinality(1..n) = n
  BY FS_Interval
<1>3. /\ IsFiniteSet({x} \X (1..n))
      /\ Cardinality({x} \X (1..n)) = Cardinality({x}) * Cardinality(1..n)
  BY <1>1, <1>2, FS_Product
<1>4. 1 * n = n
  OBVIOUS
<1> QED
  BY <1>1, <1>2, <1>3, <1>4

(* Finitely many holders have finitely many units. *)
LEMMA UnitsFinite ==
    ASSUME NEW S, IsFiniteSet(S), NEW f \in [S -> Nat]
    PROVE  IsFiniteSet(Units(f)) /\ SumOf(f) \in Nat
<1> DEFINE held == [x \in S |-> {x} \X (1..f[x])]
           Held == {{x} \X (1..f[x]) : x \in S}
<1>1. held \in Surjection(S, Held)
  <2>1. held \in [S -> Held]
    OBVIOUS
  <2>2. \A H \in Held : \E x \in S : held[x] = H
    OBVIOUS
  <2> QED
    BY <2>1, <2>2 DEF Surjection
<1>2. IsFiniteSet(Held)
  BY <1>1, FS_Surjection
<1>3. ASSUME NEW H \in Held PROVE IsFiniteSet(H)
  <2>1. PICK x \in S : H = {x} \X (1..f[x])
    OBVIOUS
  <2> QED
    BY <2>1, f[x] \in Nat, HoldingSize
<1>4. IsFiniteSet(UNION Held)
  BY <1>2, <1>3, FS_UNION
<1>5. Units(f) = UNION Held
  BY DEF Units
<1> QED
  BY <1>4, <1>5, FS_CardinalityType DEF SumOf

(* When one holder's amount changes, the sum changes by as much. *)
LEMMA SumChanges ==
    ASSUME NEW S, IsFiniteSet(S), NEW f \in [S -> Nat], NEW g \in [S -> Nat],
           NEW y \in S, \A x \in S \ {y} : g[x] = f[x]
    PROVE  /\ SumOf(f) \in Nat /\ SumOf(g) \in Nat
           /\ SumOf(g) + f[y] = SumOf(f) + g[y]
<1> DEFINE Rest == UNION {{x} \X (1..f[x]) : x \in S \ {y}}
<1>1. ASSUME NEW h \in [S -> Nat], \A x \in S \ {y} : h[x] = f[x]
      PROVE  /\ IsFiniteSet(Rest) /\ SumOf(h) \in Nat
             /\ SumOf(h) = Cardinality(Rest) + h[y]
  <2> DEFINE Own == {y} \X (1..h[y])
  <2>1. Units(h) = Rest \cup Own
    <3>1. ASSUME NEW u \in Units(h) PROVE u \in Rest \cup Own
      <4>1. PICK x \in S : u \in {x} \X (1..h[x])
        BY <1>1 DEF Units
      <4>2. CASE x = y BY <4>1, <4>2
      <4>3. CASE x \in S \ {y}
        <5>1. u \in {x} \X (1..f[x])
          BY <1>1, <4>1, <4>3
        <5> QED
          BY <4>3, <5>1
      <4> QED
        BY <4>2, <4>3
    <3>2. ASSUME NEW u \in Rest PROVE u \in Units(h)
      <4>1. PICK x \in S \ {y} : u \in {x} \X (1..f[x])
        OBVIOUS
      <4>2. u \in {x} \X (1..h[x])
        BY <1>1, <4>1
      <4> QED
        BY <1>1, <4>2 DEF Units
    <3>3. ASSUME NEW u \in Own PROVE u \in Units(h)
      BY <1>1 DEF Units
    <3> QED
      BY <3>1, <3>2, <3>3
  <2>2. IsFiniteSet(Units(h)) /\ SumOf(h) \in Nat
    BY <1>1, UnitsFinite
  <2>3. IsFiniteSet(Rest)
    BY <2>1, <2>2, FS_Subset
  <2>4. IsFiniteSet(Own) /\ Cardinality(Own) = h[y]
    BY <1>1, HoldingSize
  <2>5. Rest \cap Own = {}
    OBVIOUS
  <2>6. Cardinality(Units(h)) = Cardinality(Rest) + Cardinality(Own) - Cardinality({})
    BY <2>1, <2>3, <2>4, <2>5, FS_Union
  <2>7. Cardinality({}) = 0
    BY FS_EmptySet
  <2>8. Cardinality(Rest) \in Nat
    BY <2>3, FS_CardinalityType
  <2> QED
    BY <2>2, <2>3, <2>4, <2>6, <2>7, <2>8, <1>1 DEF SumOf
<1>2. SumOf(f) \in Nat /\ SumOf(f) = Cardinality(Rest) + f[y] /\ IsFiniteSet(Rest)
  BY <1>1
<1>3. SumOf(g) \in Nat /\ SumOf(g) = Cardinality(Rest) + g[y]
  BY <1>1
<1>4. Cardinality(Rest) \in Nat
  BY <1>2, FS_CardinalityType
<1> QED
  BY <1>2, <1>3, <1>4

(* A part of a sum is not more than the sum. *)
LEMMA PartOfSum ==
    ASSUME NEW S, IsFiniteSet(S), NEW f \in [S -> Nat], NEW y \in S
    PROVE  SumOf(f) \in Nat /\ f[y] =< SumOf(f)
<1>1. PICK g \in [S -> Nat] : g[y] = 0 /\ \A x \in S \ {y} : g[x] = f[x]
  <2>1. [f EXCEPT ![y] = 0] \in [S -> Nat]
    OBVIOUS
  <2> QED
    BY <2>1
<1>2. SumOf(f) \in Nat /\ SumOf(g) \in Nat /\ SumOf(g) + f[y] = SumOf(f) + g[y]
  BY <1>1, SumChanges
<1>3. f[y] \in Nat
  OBVIOUS
<1> QED
  BY <1>1, <1>2, <1>3

(* Equal holdings add up to the number of holders times what each has. *)
LEMMA SumConstant ==
    ASSUME NEW S, IsFiniteSet(S), NEW n \in Nat
    PROVE  SumOf([x \in S |-> n]) = Cardinality(S) * n
<1>1. Units([x \in S |-> n]) = S \X (1..n)
  BY DEF Units
<1>2. IsFiniteSet(1..n) /\ Cardinality(1..n) = n
  BY FS_Interval
<1> QED
  BY <1>1, <1>2, FS_Product DEF SumOf

(* Nothing adds up to nothing. *)
LEMMA SumZero ==
    ASSUME NEW S, IsFiniteSet(S), NEW f \in [S -> Nat], \A x \in S : f[x] = 0
    PROVE  SumOf(f) = 0
<1>1. f = [x \in S |-> 0]
  OBVIOUS
<1>2. Cardinality(S) \in Nat
  BY FS_CardinalityType
<1>3. SumOf([x \in S |-> 0]) = Cardinality(S) * 0
  BY SumConstant
<1> QED
  BY <1>1, <1>2, <1>3

(* A new holder adds what it has.                                            *)
LEMMA SumExtends ==
    ASSUME NEW S, IsFiniteSet(S), NEW y, y \notin S, NEW f \in [S -> Nat],
           NEW T, T = S \cup {y}, NEW g \in [T -> Nat], \A x \in S : g[x] = f[x]
    PROVE  SumOf(f) \in Nat /\ SumOf(g) = SumOf(f) + g[y]
<1> DEFINE z == [x \in T |-> IF x = y THEN 0 ELSE f[x]]
<1>1. IsFiniteSet(T) /\ y \in T
  BY FS_AddElement
<1>2. z \in [T -> Nat] /\ z[y] = 0 /\ \A x \in S : z[x] = f[x]
  OBVIOUS
<1>3. Units(z) = Units(f)
  <2>1. DOMAIN z = S \cup {y} /\ DOMAIN f = S
    OBVIOUS
  <2> HIDE DEF z
  <2>2. {y} \X (1..z[y]) = {}
    BY <1>2
  <2> QED
    BY <1>2, <2>1, <2>2 DEF Units
<1> HIDE DEF z
<1>4. /\ SumOf(z) \in Nat /\ SumOf(g) \in Nat
      /\ SumOf(g) + z[y] = SumOf(z) + g[y]
  <2>1. g \in [T -> Nat] /\ \A x \in T \ {y} : g[x] = z[x]
    BY <1>2
  <2> QED
    BY <1>1, <1>2, <2>1, SumChanges
<1>5. SumOf(z) = SumOf(f)
  BY <1>3 DEF SumOf
<1>6. g[y] \in Nat
  OBVIOUS
<1> QED
  BY <1>2, <1>4, <1>5, <1>6
=============================================================================
