---------------------------- MODULE FiniteSums -----------------------------
(***************************************************************************)
(* Induction over a finite set, stated without an operator parameter, and  *)
(* sums of natural numbers over finite sets.                               *)
(***************************************************************************)
EXTENDS Integers, FiniteSets, Functions, FiniteSetTheorems, FunctionTheorems, TLAPS

(* A family that holds the empty set and grows element by element holds    *)
(* the whole set.                                                          *)
LEMMA GrowingFamily ==
  ASSUME NEW S, IsFiniteSet(S), NEW F,
         {} \in F,
         \A T \in SUBSET S : \A x \in S \ T : T \in F => T \cup {x} \in F
  PROVE  S \in F
<1> DEFINE bad == {T \in SUBSET S : T \notin F}
<1>1. SUFFICES ASSUME bad # {}
               PROVE  FALSE
  BY <1>1
<1>2. IsWellFoundedOn(StrictSubsetOrdering(S), SUBSET S)
  BY FS_StrictSubsetOrderingWellFounded, FS_FiniteSubsetsOfFinite
<1>3. bad \subseteq SUBSET S
  OBVIOUS
<1>4. PICK T \in bad : \A U \in bad : <<U, T>> \notin StrictSubsetOrdering(S)
  <2> HIDE DEF bad
  <2>1. QED
    BY <1>1, <1>2, <1>3, WFMin
<1>5. PICK x \in T : TRUE
  BY <1>4
<1>6. T \ {x} \notin bad
  BY <1>4, <1>5 DEF StrictSubsetOrdering
<1>7. T \ {x} \in F /\ x \in S \ (T \ {x}) /\ (T \ {x}) \cup {x} = T
  BY <1>4, <1>5, <1>6
<1>8. QED
  BY <1>4, <1>7

(* The same for the natural numbers.                                       *)
LEMMA GrowingNumbers ==
  ASSUME NEW F, 0 \in F, \A n \in Nat : n \in F => n + 1 \in F
  PROVE  Nat \subseteq F
<1> SUFFICES ASSUME NEW n \in Nat
             PROVE  n \in F
  OBVIOUS
<1> DEFINE S == 1 .. n
           G == {T \in SUBSET S : Cardinality(T) \in F}
<1>1. IsFiniteSet(S) /\ Cardinality(S) = n
  BY FS_Interval
<1>2. {} \in G
  BY FS_EmptySet
<1>3. ASSUME NEW T \in SUBSET S, NEW x \in S \ T, T \in G
      PROVE  T \cup {x} \in G
  <2>1. IsFiniteSet(T) /\ Cardinality(T) \in Nat
    BY <1>1, FS_Subset, FS_CardinalityType
  <2>2. Cardinality(T \cup {x}) = Cardinality(T) + 1
    BY <2>1, FS_AddElement
  <2>3. QED
    BY <1>3, <2>1, <2>2
<1>4. S \in G
  <2> HIDE DEF S, G
  <2>1. QED
    BY <1>1, <1>2, <1>3, GrowingFamily
<1>5. QED
  BY <1>1, <1>4

(* A set of natural numbers has a least element. *)
LEMMA LeastNumber ==
  ASSUME NEW S, S \subseteq Nat, NEW x \in S
  PROVE  \E n \in S : \A m \in S : n <= m
<1> DEFINE F == {k \in Nat : (\E y \in S : y <= k) => \E n \in S : \A m \in S : n <= m}
<1>1. 0 \in F
  <2>1. \A y \in S : y <= 0 => y = 0
    OBVIOUS
  <2>2. 0 \in S => \A m \in S : 0 <= m
    OBVIOUS
  <2>3. QED
    BY <2>1, <2>2
<1>2. ASSUME NEW k \in Nat, k \in F
      PROVE  k + 1 \in F
  <2>1. SUFFICES ASSUME NEW y \in S, y <= k + 1, \A z \in S : ~(z <= k)
                 PROVE  \E n \in S : \A m \in S : n <= m
    BY <1>2
  <2>2. \A m \in S : y <= m
    BY <2>1
  <2>3. QED
    BY <2>2
<1>3. Nat \subseteq F
  <2> HIDE DEF F
  <2>1. QED
    BY <1>1, <1>2, GrowingNumbers
<1>4. x \in F /\ x <= x
  BY <1>3
<1>5. QED
  BY <1>4

(* What f counts on S: as many units for each x as f[x].                   *)
Units(f, S) == {p \in S \X Nat : p[2] < f[p[1]]}

(* One more element adds its units. *)
LEMMA UnitsAdd ==
  ASSUME NEW f, NEW T, IsFiniteSet(T), NEW x, x \notin T,
         f[x] \in Nat, IsFiniteSet(Units(f, T))
  PROVE  /\ IsFiniteSet(Units(f, T \cup {x}))
         /\ Cardinality(Units(f, T \cup {x})) = f[x] + Cardinality(Units(f, T))
<1> DEFINE new == {x} \X (0 .. f[x] - 1)
<1>1. IsFiniteSet(new) /\ Cardinality(new) = f[x]
  <2>1. IsFiniteSet(0 .. f[x] - 1) /\ Cardinality(0 .. f[x] - 1) = f[x]
    BY FS_Interval
  <2>2. IsFiniteSet({x}) /\ Cardinality({x}) = 1
    BY FS_Singleton
  <2>3. IsFiniteSet(new) /\ Cardinality(new) = Cardinality({x}) * Cardinality(0 .. f[x] - 1)
    BY <2>1, <2>2, FS_Product
  <2>4. QED
    BY <2>1, <2>2, <2>3
<1>2. Units(f, T \cup {x}) = Units(f, T) \cup new
  BY DEF Units
<1>3. Units(f, T) \cap new = {}
  BY DEF Units
<1>4. Cardinality(Units(f, T)) \in Nat
  BY FS_CardinalityType
<1>5. /\ IsFiniteSet(Units(f, T) \cup new)
      /\ Cardinality(Units(f, T) \cup new)
           = Cardinality(Units(f, T)) + Cardinality(new) - Cardinality(Units(f, T) \cap new)
  BY <1>1, FS_Union
<1>6. Cardinality(Units(f, T) \cap new) = 0
  BY <1>3, FS_EmptySet
<1>7. QED
  <2> HIDE DEF new
  <2>1. IsFiniteSet(Units(f, T \cup {x}))
    BY <1>2, <1>5
  <2>2. Cardinality(Units(f, T \cup {x})) = Cardinality(Units(f, T) \cup new)
    BY <1>2
  <2>3. QED
    BY <1>1, <1>4, <1>5, <1>6, <2>1, <2>2

(* A finite sum has finitely many units. *)
LEMMA UnitsFinite ==
  ASSUME NEW S, IsFiniteSet(S), NEW f, \A x \in S : f[x] \in Nat
  PROVE  IsFiniteSet(Units(f, S)) /\ Cardinality(Units(f, S)) \in Nat
<1> DEFINE F == {T \in SUBSET S : IsFiniteSet(Units(f, T))}
<1>1. {} \in F
  <2>1. Units(f, {}) = {}
    BY DEF Units
  <2>2. QED
    BY <2>1, FS_EmptySet
<1>2. ASSUME NEW T \in SUBSET S, NEW x \in S \ T, T \in F
      PROVE  T \cup {x} \in F
  BY <1>2, UnitsAdd, FS_Subset
<1>3. S \in F
  <2> HIDE DEF F
  <2>1. QED
    BY <1>1, <1>2, GrowingFamily
<1>4. QED
  BY <1>3, FS_CardinalityType

(* The recursion by which a sum is defined.                                *)
Picked(s) == CHOOSE x \in s : TRUE
Sums(g, f, S) ==
  g = [s \in SUBSET S |-> IF s = {} THEN 0 ELSE f[Picked(s)] + g[s \ {Picked(s)}]]

(* Counting the units solves the equation of the sum. *)
LEMMA SumsUnits ==
  ASSUME NEW S, IsFiniteSet(S), NEW f, \A x \in S : f[x] \in Nat
  PROVE  Sums([s \in SUBSET S |-> Cardinality(Units(f, s))], f, S)
<1> DEFINE g == [s \in SUBSET S |-> Cardinality(Units(f, s))]
<1>1. g[{}] = 0
  <2>1. Units(f, {}) = {}
    BY DEF Units
  <2>2. QED
    BY <2>1, FS_EmptySet
<1>2. ASSUME NEW s \in SUBSET S, s # {}
      PROVE  g[s] = f[Picked(s)] + g[s \ {Picked(s)}]
  <2>1. Picked(s) \in s
    BY <1>2 DEF Picked
  <2>2. IsFiniteSet(s \ {Picked(s)}) /\ (s \ {Picked(s)}) \cup {Picked(s)} = s
    BY <2>1, FS_Subset
  <2>3. IsFiniteSet(Units(f, s \ {Picked(s)}))
    BY <2>2, UnitsFinite
  <2>4. Cardinality(Units(f, s)) = f[Picked(s)] + Cardinality(Units(f, s \ {Picked(s)}))
    BY <2>1, <2>2, <2>3, UnitsAdd
  <2>5. QED
    BY <2>4
<1>3. QED
  BY <1>1, <1>2 DEF Sums

(* The equation of the sum has one solution. *)
LEMMA SumsUnique ==
  ASSUME NEW S, IsFiniteSet(S), NEW f, NEW g, NEW h, Sums(g, f, S), Sums(h, f, S)
  PROVE  g[S] = h[S]
<1>1. SUFFICES ASSUME g[S] # h[S]
               PROVE  FALSE
  OBVIOUS
<1> DEFINE bad == {T \in SUBSET S : g[T] # h[T]}
<1>2. IsWellFoundedOn(StrictSubsetOrdering(S), SUBSET S)
  BY FS_StrictSubsetOrderingWellFounded, FS_FiniteSubsetsOfFinite
<1>3. bad \subseteq SUBSET S /\ bad # {}
  BY <1>1
<1>4. PICK T \in bad : \A U \in bad : <<U, T>> \notin StrictSubsetOrdering(S)
  <2> HIDE DEF bad
  <2>1. QED
    BY <1>2, <1>3, WFMin
<1>5. g[{}] = 0 /\ h[{}] = 0
  BY DEF Sums
<1>6. PICK x \in T : x = Picked(T)
  BY <1>4, <1>5 DEF Picked
<1>7. T \ {x} \notin bad
  <2>1. T \ {x} \in SUBSET S /\ T \ {x} \subseteq T /\ T \ {x} # T
    BY <1>4, <1>6
  <2>2. <<T \ {x}, T>> \in StrictSubsetOrdering(S)
    BY <2>1 DEF StrictSubsetOrdering
  <2>3. QED
    BY <1>4, <2>2
<1>8. g[T \ {x}] = h[T \ {x}]
  BY <1>4, <1>7
<1>9. g[T] = f[x] + g[T \ {x}] /\ h[T] = f[x] + h[T \ {x}]
  BY <1>4, <1>6 DEF Sums
<1>10. QED
  BY <1>4, <1>8, <1>9

(* The sum of a function is the number of its units.                       *)
LEMMA SumIsUnits ==
  ASSUME NEW f, IsFiniteSet(DOMAIN f), \A x \in DOMAIN f : f[x] \in Nat
  PROVE  SumFunction(f) = Cardinality(Units(f, DOMAIN f))
<1> DEFINE S == DOMAIN f
           units == [s \in SUBSET S |-> Cardinality(Units(f, s))]
           iter == CHOOSE g : Sums(g, f, S)
<1>1. Sums(units, f, S)
  BY SumsUnits
<1>2. Sums(iter, f, S)
  <2> HIDE DEF units, S
  <2>1. QED
    BY <1>1
<1>3. SumFunction(f) = iter[S]
  BY DEF SumFunction, SumFunctionOnSet, FoldFunctionOnSet, MapThenFoldSet, Sums, Picked
<1>4. iter[S] = units[S]
  <2> HIDE DEF units, S, iter
  <2>1. IsFiniteSet(S)
    BY DEF S
  <2>2. QED
    BY <1>1, <1>2, <2>1, SumsUnique
<1>5. QED
  BY <1>3, <1>4



(* Sums of natural numbers: over no index, over one more, and of the same  *)
(* numbers under other indices, where those left out have the number zero. *)
LEMMA SumType ==
  ASSUME NEW f, IsFiniteSet(DOMAIN f), \A x \in DOMAIN f : f[x] \in Nat
  PROVE  SumFunction(f) \in Nat
BY SumIsUnits, UnitsFinite

(* A sum is at most as many times the greatest value as there are values. *)
LEMMA SumBound ==
  ASSUME NEW f, IsFiniteSet(DOMAIN f), NEW b \in Nat, \A x \in DOMAIN f : f[x] \in Nat /\ f[x] <= b
  PROVE  SumFunction(f) \in Nat /\ SumFunction(f) <= Cardinality(DOMAIN f) * b
<1> DEFINE S == DOMAIN f
<1>1. SumFunction(f) = Cardinality(Units(f, S))
  BY SumIsUnits
<1>2. IsFiniteSet(0 .. b - 1) /\ Cardinality(0 .. b - 1) = b
  BY FS_Interval
<1>3. /\ IsFiniteSet(S \X (0 .. b - 1))
      /\ Cardinality(S \X (0 .. b - 1)) = Cardinality(S) * b
  <2>1. IsFiniteSet(S)
    OBVIOUS
  <2> HIDE DEF S
  <2>2. QED
    BY <1>2, <2>1, FS_Product
<1>4. Units(f, S) \subseteq S \X (0 .. b - 1)
  <2> SUFFICES ASSUME NEW u \in Units(f, S)
               PROVE  u \in S \X (0 .. b - 1)
    OBVIOUS
  <2>1. u \in S \X Nat /\ u[2] < f[u[1]] /\ f[u[1]] \in Nat /\ f[u[1]] <= b
    BY DEF Units
  <2>2. u[2] \in 0 .. b - 1
    BY <2>1
  <2>3. QED
    BY <2>1, <2>2
<1>5. Cardinality(Units(f, S)) <= Cardinality(S \X (0 .. b - 1))
  <2> HIDE DEF S
  <2>1. QED
    BY <1>3, <1>4, FS_Subset
<1>6. SumFunction(f) \in Nat
  BY SumType
<1>7. QED
  BY <1>1, <1>3, <1>5, <1>6

(* The empty sum is 0. *)
LEMMA SumOfNone ==
  ASSUME NEW f, DOMAIN f = {}
  PROVE  SumFunction(f) = 0
<1>1. IsFiniteSet(DOMAIN f) /\ \A x \in DOMAIN f : f[x] \in Nat
  BY FS_EmptySet
<1>2. Units(f, DOMAIN f) = {}
  BY DEF Units
<1>3. QED
  BY <1>1, <1>2, SumIsUnits, FS_EmptySet

(* A sum with a positive part is positive.                                *)
LEMMA SumPositive ==
  ASSUME NEW f, IsFiniteSet(DOMAIN f), \A x \in DOMAIN f : f[x] \in Nat,
         NEW x \in DOMAIN f, f[x] > 0
  PROVE  SumFunction(f) \in Nat \ {0}
<1>1. <<x, 0>> \in Units(f, DOMAIN f) /\ IsFiniteSet(Units(f, DOMAIN f))
  BY UnitsFinite DEF Units
<1>2. Cardinality(Units(f, DOMAIN f)) # 0
  BY <1>1, FS_EmptySet
<1>3. QED
  BY <1>2, SumIsUnits, SumType

(* A sum of zeros is 0. *)
LEMMA SumOfZeros ==
  ASSUME NEW f, IsFiniteSet(DOMAIN f), \A x \in DOMAIN f : f[x] = 0
  PROVE  SumFunction(f) = 0
<1>1. Units(f, DOMAIN f) = {}
  BY DEF Units
<1>2. QED
  BY <1>1, SumIsUnits, FS_EmptySet

(* One more element adds its value. *)
LEMMA SumAdd ==
  ASSUME NEW T, IsFiniteSet(T), NEW x, x \notin T, NEW f, NEW g,
         DOMAIN f = T, DOMAIN g = T \cup {x},
         \A y \in T : f[y] \in Nat /\ g[y] = f[y],
         g[x] \in Nat
  PROVE  SumFunction(g) = SumFunction(f) + g[x]
<1>1. IsFiniteSet(T \cup {x}) /\ \A y \in T \cup {x} : g[y] \in Nat
  BY FS_AddElement
<1>2. SumFunction(g) = Cardinality(Units(g, T \cup {x}))
  BY <1>1, SumIsUnits
<1>3. SumFunction(f) = Cardinality(Units(f, T))
  BY SumIsUnits
<1>4. Units(f, T) = Units(g, T)
  BY DEF Units
<1>5. IsFiniteSet(Units(g, T)) /\ Cardinality(Units(g, T)) \in Nat
  BY UnitsFinite
<1>6. Cardinality(Units(g, T \cup {x})) = g[x] + Cardinality(Units(g, T))
  BY <1>5, UnitsAdd
<1>7. QED
  BY <1>2, <1>3, <1>4, <1>5, <1>6

(* The sum over two disjoint parts.                                        *)
LEMMA SumSplit ==
  ASSUME NEW f, NEW g, NEW h, IsFiniteSet(DOMAIN g), IsFiniteSet(DOMAIN h),
         DOMAIN g \cap DOMAIN h = {}, DOMAIN f = DOMAIN g \cup DOMAIN h,
         \A x \in DOMAIN g : g[x] \in Nat /\ f[x] = g[x],
         \A x \in DOMAIN h : h[x] \in Nat /\ f[x] = h[x]
  PROVE  SumFunction(f) = SumFunction(g) + SumFunction(h)
<1> DEFINE S == DOMAIN g
           T == DOMAIN h
<1>1. IsFiniteSet(S \cup T) /\ \A x \in S \cup T : f[x] \in Nat
  BY FS_Union
<1>2. /\ SumFunction(f) = Cardinality(Units(f, S \cup T))
      /\ SumFunction(g) = Cardinality(Units(g, S))
      /\ SumFunction(h) = Cardinality(Units(h, T))
  BY <1>1, SumIsUnits
<1>3. /\ IsFiniteSet(Units(g, S)) /\ Cardinality(Units(g, S)) \in Nat
      /\ IsFiniteSet(Units(h, T)) /\ Cardinality(Units(h, T)) \in Nat
  BY UnitsFinite
<1>4. Units(f, S \cup T) = Units(g, S) \cup Units(h, T)
  BY DEF Units
<1>5. Cardinality(Units(g, S) \cap Units(h, T)) = 0
  <2>1. Units(g, S) \cap Units(h, T) = {}
    BY DEF Units
  <2>2. QED
    BY <2>1, FS_EmptySet
<1>6. Cardinality(Units(g, S) \cup Units(h, T))
        = Cardinality(Units(g, S)) + Cardinality(Units(h, T))
          - Cardinality(Units(g, S) \cap Units(h, T))
  BY <1>3, FS_Union
<1>7. Cardinality(Units(g, S) \cup Units(h, T)) = SumFunction(g) + SumFunction(h)
  BY <1>2, <1>3, <1>5, <1>6
<1>8. QED
  BY <1>2, <1>4, <1>7

(* Changing one value changes the sum by the difference. *)
LEMMA SumUpdate ==
  ASSUME NEW S, IsFiniteSet(S), NEW x \in S, NEW f \in [S -> Nat], NEW g \in [S -> Nat],
         \A y \in S \ {x} : g[y] = f[y]
  PROVE  SumFunction(g) = SumFunction(f) - f[x] + g[x]
<1> DEFINE rest == [y \in S \ {x} |-> f[y]]
<1>1. IsFiniteSet(S \ {x}) /\ (S \ {x}) \cup {x} = S
  BY FS_RemoveElement
<1>2. DOMAIN rest = S \ {x} /\ \A y \in S \ {x} : rest[y] = f[y] /\ rest[y] = g[y]
  OBVIOUS
<1>3. SumFunction(f) = SumFunction(rest) + f[x] /\ SumFunction(g) = SumFunction(rest) + g[x]
  <2> HIDE DEF rest
  <2>1. DOMAIN f = (S \ {x}) \cup {x} /\ DOMAIN g = (S \ {x}) \cup {x} /\ x \notin S \ {x}
    BY <1>1
  <2>2. SumFunction(f) = SumFunction(rest) + f[x]
    BY <1>1, <1>2, <2>1, SumAdd
  <2>3. SumFunction(g) = SumFunction(rest) + g[x]
    BY <1>1, <1>2, <2>1, SumAdd
  <2>4. QED
    BY <2>2, <2>3
<1>4. SumFunction(rest) \in Nat
  BY <1>1, SumType
<1>5. QED
  <2> HIDE DEF rest
  <2>1. QED
    BY <1>3, <1>4

(* A sum over other names of the same values is the same. *)
LEMMA SumReindexed ==
  ASSUME NEW S, IsFiniteSet(S), NEW f \in [S -> Nat],
         NEW T, NEW g \in [T -> Nat], NEW h \in [T -> S],
         \A s, t \in T : h[s] = h[t] => s = t,
         \A t \in T : g[t] = f[h[t]],
         \A x \in S : (\A t \in T : h[t] # x) => f[x] = 0
  PROVE  IsFiniteSet(T) /\ SumFunction(g) = SumFunction(f)
<1>1. IsFiniteSet(T)
  BY FS_Injection, Fun_IsInj
<1> DEFINE us == Units(g, T)
           vs == Units(f, S)
           map == [u \in us |-> <<h[u[1]], u[2]>>]
<1>2. IsFiniteSet(us) /\ IsFiniteSet(vs)
  BY <1>1, UnitsFinite
<1>3. map \in [us -> vs]
  BY DEF Units
<1>4. \A u, v \in us : map[u] = map[v] => u = v
  BY DEF Units
<1>5. \A v \in vs : \E u \in us : map[u] = v
  <2> SUFFICES ASSUME NEW v \in vs
               PROVE  \E u \in us : map[u] = v
    OBVIOUS
  <2>1. v = <<v[1], v[2]>> /\ v[1] \in S /\ v[2] \in Nat /\ v[2] < f[v[1]]
    BY DEF Units
  <2>2. PICK t \in T : h[t] = v[1]
    BY <2>1
  <2>3. <<t, v[2]>> \in us
    BY <2>1, <2>2 DEF Units
  <2>4. QED
    BY <2>1, <2>2, <2>3
<1>6. ExistsBijection(us, vs)
  <2> HIDE DEF us, vs, map
  <2>1. map \in Bijection(us, vs)
    BY <1>3, <1>4, <1>5, Fun_IsBij
  <2>2. QED
    BY <2>1, Fun_ExistsBij
<1>7. Cardinality(us) = Cardinality(vs)
  <2> HIDE DEF us, vs
  <2>1. QED
    BY <1>2, <1>6, FS_Bijection
<1>8. QED
  BY <1>1, <1>7, SumIsUnits


(* The size of a union of disjoint sets is the sum of their sizes.         *)
LEMMA DisjointUnion ==
  ASSUME NEW S, IsFiniteSet(S), NEW f, DOMAIN f = S,
         \A x \in S : IsFiniteSet(f[x]),
         \A x, y \in S : x # y => f[x] \cap f[y] = {},
         NEW union, union = UNION {f[x] : x \in S},
         NEW size, size = [x \in S |-> Cardinality(f[x])]
  PROVE  IsFiniteSet(union) /\ Cardinality(union) = SumFunction(size)
<1> DEFINE whole(T) == UNION {f[x] : x \in T}
           sizes(T) == [x \in T |-> Cardinality(f[x])]
           F == {T \in SUBSET S : /\ IsFiniteSet(whole(T))
                                  /\ Cardinality(whole(T)) = SumFunction(sizes(T))}
<1>1. {} \in F
  <2>1. whole({}) = {} /\ DOMAIN sizes({}) = {}
    OBVIOUS
  <2>2. QED
    BY <2>1, FS_EmptySet, SumOfNone
<1>2. ASSUME NEW T \in SUBSET S, NEW x \in S \ T, T \in F
      PROVE  T \cup {x} \in F
  <2>1. whole(T \cup {x}) = whole(T) \cup f[x] /\ whole(T) \cap f[x] = {}
    OBVIOUS
  <2>2. IsFiniteSet(whole(T)) /\ Cardinality(whole(T)) = SumFunction(sizes(T))
    BY <1>2
  <2>3. IsFiniteSet(f[x]) /\ IsFiniteSet(T)
    BY FS_Subset
  <2>4. /\ IsFiniteSet(whole(T) \cup f[x])
        /\ Cardinality(whole(T) \cup f[x]) = Cardinality(whole(T)) + Cardinality(f[x])
    <3> HIDE DEF whole
    <3>1. /\ IsFiniteSet(whole(T) \cup f[x])
          /\ Cardinality(whole(T) \cup f[x])
               = Cardinality(whole(T)) + Cardinality(f[x]) - Cardinality(whole(T) \cap f[x])
      BY <2>2, <2>3, FS_Union
    <3>2. Cardinality(whole(T) \cap f[x]) = 0
      BY <2>1, FS_EmptySet
    <3>3. Cardinality(whole(T)) \in Nat /\ Cardinality(f[x]) \in Nat
      BY <2>2, <2>3, FS_CardinalityType
    <3>4. QED
      BY <3>1, <3>2, <3>3
  <2>5. SumFunction(sizes(T \cup {x})) = SumFunction(sizes(T)) + Cardinality(f[x])
    <3>1. \A y \in T \cup {x} : Cardinality(f[y]) \in Nat
      BY FS_CardinalityType
    <3>2. /\ DOMAIN sizes(T) = T /\ DOMAIN sizes(T \cup {x}) = T \cup {x}
          /\ \A y \in T : sizes(T)[y] \in Nat /\ sizes(T \cup {x})[y] = sizes(T)[y]
          /\ sizes(T \cup {x})[x] = Cardinality(f[x])
      BY <3>1
    <3>3. QED
      <4> DEFINE old == sizes(T)
                 new == sizes(T \cup {x})
      <4>1. Cardinality(f[x]) \in Nat /\ x \notin T
        BY <3>1
      <4>2. QED
        <5> HIDE DEF sizes, F, old, new
        <5>1. /\ DOMAIN old = T /\ DOMAIN new = T \cup {x} /\ new[x] \in Nat
              /\ \A y \in T : old[y] \in Nat /\ new[y] = old[y]
          BY <3>2, <4>1 DEF old, new
        <5>2. SumFunction(new) = SumFunction(old) + new[x]
          BY <2>3, <4>1, <5>1, SumAdd
        <5>3. QED
          BY <3>2, <5>2 DEF old, new
  <2>6. T \cup {x} \in SUBSET S
    OBVIOUS
  <2>7. QED
    <3> HIDE DEF whole, sizes
    <3>1. QED
      BY <2>1, <2>2, <2>4, <2>5, <2>6
<1>3. S \in F
  <2> HIDE DEF F
  <2>1. QED
    BY <1>1, <1>2, GrowingFamily
<1>4. QED
  BY <1>3
=============================================================================
