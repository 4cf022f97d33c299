-------------------------- MODULE GreenTimes_proofs --------------------------
(***************************************************************************)
(* Facts about sums over finite sets and about the arithmetic of           *)
(* GreenTimes, for crosses of any number of stages.                        *)
(***************************************************************************)
EXTENDS GreenTimes, FiniteSetTheorems, WellFoundedInduction, TLAPS

-----------------------------------------------------------------------------
(***************************************************************************)
(* Total: the fold it is built from has a solution, and only one.          *)
(***************************************************************************)

\* A set of subsets of a finite set has a smallest element.
LEMMA MinimalSubset ==
    ASSUME NEW S, IsFiniteSet(S), NEW G \in SUBSET (SUBSET S), G # {}
    PROVE  \E T \in G : \A U \in G : U \subseteq T => U = T
<1>1. IsWellFoundedOn(StrictSubsetOrdering(S), SUBSET S)
  BY FS_StrictSubsetOrderingWellFounded, FS_FiniteSubsetsOfFinite
<1>2. PICK T \in G : \A U \in G : <<U, T>> \notin StrictSubsetOrdering(S)
  BY <1>1, WFMin
<1>3. QED
  BY <1>2 DEF StrictSubsetOrdering

Some(U) == CHOOSE x \in U : TRUE

\* h holds the partial sums of f over the subsets of T.
Sums(h, f, T) ==
    h = [U \in SUBSET T |-> IF U = {} THEN 0 ELSE f[Some(U)] + h[U \ {Some(U)}]]

LEMMA TotalIsSums ==
    ASSUME NEW f
    PROVE  Total(f) = (CHOOSE h : Sums(h, f, DOMAIN f))[DOMAIN f]
BY DEF Total, MapThenSumSet, MapThenFoldSet, Sums, Some

LEMMA SomeIn ==
    ASSUME NEW U, U # {}
    PROVE  Some(U) \in U /\ U \ {Some(U)} # U
BY DEF Some

\* Functions that agree on T have the same partial sums there.
LEMMA SumsUnique ==
    ASSUME NEW T, IsFiniteSet(T), NEW R, T \subseteq R, NEW Q, T \subseteq Q,
           NEW f, NEW g, \A i \in T : f[i] = g[i],
           NEW h, Sums(h, f, R), NEW k, Sums(k, g, Q)
    PROVE  h[T] = k[T]
<1> DEFINE G == {U \in SUBSET T : h[U] # k[U]}
<1>1. SUFFICES ASSUME G # {} PROVE FALSE
  OBVIOUS
<1>2. PICK U \in G : \A V \in G : V \subseteq U => V = U
  <2>1. G \in SUBSET (SUBSET T)
    OBVIOUS
  <2> HIDE DEF G
  <2>2. QED
    BY <1>1, <2>1, MinimalSubset
<1>3. /\ h[U] = IF U = {} THEN 0 ELSE f[Some(U)] + h[U \ {Some(U)}]
      /\ k[U] = IF U = {} THEN 0 ELSE g[Some(U)] + k[U \ {Some(U)}]
  <2>1. U \in SUBSET R /\ U \in SUBSET Q
    OBVIOUS
  <2>2. h[U] = IF U = {} THEN 0 ELSE f[Some(U)] + h[U \ {Some(U)}]
    BY <2>1 DEF Sums
  <2>3. k[U] = IF U = {} THEN 0 ELSE g[Some(U)] + k[U \ {Some(U)}]
    BY <2>1 DEF Sums
  <2>4. QED
    BY <2>2, <2>3
<1>4. U # {}
  BY <1>3
<1>5. Some(U) \in U /\ U \ {Some(U)} # U
  BY <1>4, SomeIn
<1>6. h[U \ {Some(U)}] = k[U \ {Some(U)}]
  BY <1>2, <1>5
<1>7. f[Some(U)] = g[Some(U)]
  BY <1>5
<1>8. QED
  BY <1>3, <1>4, <1>6, <1>7

\* The partial sums over the subsets of T hold those over the subsets of U.
LEMMA SumsExist ==
    ASSUME NEW S, IsFiniteSet(S), NEW f
    PROVE  \E h : Sums(h, f, S)
<1> DEFINE G == {T \in SUBSET S : ~ \E h : Sums(h, f, T)}
<1>1. SUFFICES ASSUME G # {} PROVE FALSE
  OBVIOUS
<1>2. PICK T \in G : \A U \in G : U \subseteq T => U = T
  <2>1. G \in SUBSET (SUBSET S)
    OBVIOUS
  <2> HIDE DEF G
  <2>2. QED
    BY <1>1, <2>1, MinimalSubset
<1>3. \A U \in SUBSET T : U # T => Sums(CHOOSE h : Sums(h, f, U), f, U)
  BY <1>2
<1> DEFINE Part(U) == CHOOSE h : Sums(h, f, U)
           Value(U) == IF U = {} THEN 0 ELSE f[Some(U)] + Part(U \ {Some(U)})[U \ {Some(U)}]
           k == [U \in SUBSET T |-> Value(U)]
<1>4. ASSUME NEW U \in SUBSET T, U # {}
      PROVE  k[U \ {Some(U)}] = Part(U \ {Some(U)})[U \ {Some(U)}]
  <2> DEFINE V == U \ {Some(U)}
  <2>1. V \in SUBSET T /\ V # T /\ IsFiniteSet(V)
    <3>1. V # U
      BY <1>4, SomeIn
    <3>2. QED
      BY <3>1, FS_Subset
  <2>2. Sums(Part(V), f, V)
    BY <1>3, <2>1
  <2>3. Part(V)[V] = IF V = {} THEN 0 ELSE f[Some(V)] + Part(V)[V \ {Some(V)}]
    <3> HIDE DEF Part, V
    <3>1. V \in SUBSET V
      OBVIOUS
    <3>2. QED
      BY <2>2, <3>1 DEF Sums
  <2>4. CASE V = {}
    BY <2>1, <2>3, <2>4
  <2>5. CASE V # {}
    <3> DEFINE W == V \ {Some(V)}
    <3>1. W \in SUBSET T /\ W # T /\ IsFiniteSet(W) /\ W \subseteq V
      BY <2>1, FS_Subset
    <3>2. Sums(Part(W), f, W)
      BY <1>3, <3>1
    <3>3. Part(W)[W] = Part(V)[W]
      <4> HIDE DEF Part, W, V
      <4>1. QED
        BY <2>2, <3>1, <3>2, SumsUnique
    <3>4. k[V] = f[Some(V)] + Part(W)[W]
      BY <2>1, <2>5
    <3>5. QED
      BY <2>3, <2>5, <3>3, <3>4
  <2>6. QED
    BY <2>4, <2>5
<1>5. Sums(k, f, T)
  <2>1. \A U \in SUBSET T : Value(U) = IF U = {} THEN 0 ELSE f[Some(U)] + k[U \ {Some(U)}]
    <3> HIDE DEF k, Part
    <3>1. QED
      BY <1>4
  <2>2. k = [U \in SUBSET T |-> Value(U)]
    OBVIOUS
  <2> HIDE DEF k, Value
  <2>3. QED
    BY <2>1, <2>2 DEF Sums
<1>6. QED
  BY <1>2, <1>5

\* The sum over a finite set is 0, or a value plus the sum over the rest.
LEMMA TotalStep ==
    ASSUME NEW S, IsFiniteSet(S), NEW f, S \subseteq DOMAIN f
    PROVE  Total([i \in S |-> f[i]]) =
              IF S = {} THEN 0
              ELSE f[Some(S)] + Total([i \in S \ {Some(S)} |-> f[i]])
<1> DEFINE r == Some(S)
           g == [i \in S |-> f[i]]
           g1 == [i \in S \ {r} |-> f[i]]
           h == CHOOSE h : Sums(h, g, S)
           h1 == CHOOSE h1 : Sums(h1, g1, S \ {r})
<1>1. Sums(h, g, S)
  BY SumsExist
<1>2. IsFiniteSet(S \ {r})
  BY FS_Subset
<1>3. Sums(h1, g1, S \ {r})
  BY <1>2, SumsExist
<1>4. Total(g) = h[S] /\ Total(g1) = h1[S \ {r}]
  <2>1. DOMAIN g = S /\ DOMAIN g1 = S \ {r}
    OBVIOUS
  <2>2. Total(g) = (CHOOSE j : Sums(j, g, DOMAIN g))[DOMAIN g]
    BY TotalIsSums
  <2>3. Total(g1) = (CHOOSE j : Sums(j, g1, DOMAIN g1))[DOMAIN g1]
    BY TotalIsSums
  <2>4. QED
    BY <2>1, <2>2, <2>3
<1>5. h[S] = IF S = {} THEN 0 ELSE g[Some(S)] + h[S \ {Some(S)}]
  <2>1. S \in SUBSET S
    OBVIOUS
  <2> HIDE DEF g, h
  <2>2. QED
    BY <1>1, <2>1 DEF Sums
<1>6. h[S \ {r}] = h1[S \ {r}]
  <2>1. \A i \in S \ {r} : g[i] = g1[i]
    OBVIOUS
  <2>2. S \ {r} \subseteq S
    OBVIOUS
  <2> HIDE DEF g, g1, h, h1, r
  <2>3. QED
    BY <1>1, <1>2, <1>3, <2>1, <2>2, SumsUnique
<1>7. S # {} => g[Some(S)] = f[Some(S)]
  BY SomeIn
<1>8. QED
  BY <1>4, <1>5, <1>6, <1>7

-----------------------------------------------------------------------------
(***************************************************************************)
(* Sums of integers over a finite set.                                     *)
(***************************************************************************)

\* The sum of f over the part S of its domain.
Over(f, S) == Total([i \in S |-> f[i]])

LEMMA OverStep ==
    ASSUME NEW S, IsFiniteSet(S), NEW f, S \subseteq DOMAIN f
    PROVE  /\ S = {} => Over(f, S) = 0
           /\ S # {} => Over(f, S) = f[Some(S)] + Over(f, S \ {Some(S)})
BY TotalStep DEF Over

LEMMA OverType ==
    ASSUME NEW S, IsFiniteSet(S), NEW f, S \subseteq DOMAIN f, \A i \in S : f[i] \in Int
    PROVE  Over(f, S) \in Int
<1> DEFINE G == {T \in SUBSET S : Over(f, T) \notin Int}
<1>1. SUFFICES ASSUME G # {} PROVE FALSE
  OBVIOUS
<1>2. PICK T \in G : \A U \in G : U \subseteq T => U = T
  <2>1. G \in SUBSET (SUBSET S)
    OBVIOUS
  <2> HIDE DEF G
  <2>2. QED
    BY <1>1, <2>1, MinimalSubset
<1>3. IsFiniteSet(T) /\ T \subseteq DOMAIN f
  BY FS_Subset
<1>4. CASE T = {}
  BY <1>3, <1>4, OverStep
<1>5. CASE T # {}
  <2>1. Some(T) \in T /\ T \ {Some(T)} # T
    BY <1>5, SomeIn
  <2>2. Over(f, T \ {Some(T)}) \in Int
    BY <1>2, <2>1
  <2>3. f[Some(T)] \in Int /\ Over(f, T) = f[Some(T)] + Over(f, T \ {Some(T)})
    BY <1>3, <1>5, <2>1, OverStep
  <2>4. Over(f, T) \in Int
    BY <2>2, <2>3
  <2>5. QED
    BY <2>4
<1>6. QED
  BY <1>4, <1>5

\* Any element may be taken out of a sum.
LEMMA OverTake ==
    ASSUME NEW S, IsFiniteSet(S), NEW f, S \subseteq DOMAIN f, \A i \in S : f[i] \in Int,
           NEW x \in S
    PROVE  Over(f, S) = f[x] + Over(f, S \ {x})
<1> DEFINE G == {T \in SUBSET S : \E z \in T : Over(f, T) # f[z] + Over(f, T \ {z})}
<1>1. SUFFICES ASSUME G # {} PROVE FALSE
  OBVIOUS
<1>2. PICK T \in G : \A U \in G : U \subseteq T => U = T
  <2>1. G \in SUBSET (SUBSET S)
    OBVIOUS
  <2> HIDE DEF G
  <2>2. QED
    BY <1>1, <2>1, MinimalSubset
<1>3. PICK z \in T : Over(f, T) # f[z] + Over(f, T \ {z})
  OBVIOUS
<1>4. \A U \in SUBSET S : IsFiniteSet(U) /\ U \subseteq DOMAIN f /\ Over(f, U) \in Int
  BY FS_Subset, OverType
<1> DEFINE y == Some(T)
<1>5. y \in T /\ Over(f, T) = f[y] + Over(f, T \ {y})
  BY <1>4, SomeIn, OverStep
<1>6. y # z
  BY <1>3, <1>5
<1>7. Over(f, T \ {y}) = f[z] + Over(f, (T \ {y}) \ {z})
  <2>1. T \ {y} \in SUBSET S /\ T \ {y} # T /\ z \in T \ {y}
    BY <1>5, <1>6
  <2>2. T \ {y} \notin G
    BY <1>2, <2>1
  <2>3. QED
    BY <2>1, <2>2
<1>8. Over(f, T \ {z}) = f[y] + Over(f, (T \ {z}) \ {y})
  <2>1. T \ {z} \in SUBSET S /\ T \ {z} # T /\ y \in T \ {z}
    BY <1>5, <1>6
  <2>2. T \ {z} \notin G
    BY <1>2, <2>1
  <2>3. QED
    BY <2>1, <2>2
<1>9. (T \ {z}) \ {y} = (T \ {y}) \ {z}
  OBVIOUS
<1>10. /\ f[y] \in Int /\ f[z] \in Int
       /\ Over(f, T) \in Int /\ Over(f, T \ {y}) \in Int /\ Over(f, T \ {z}) \in Int
       /\ Over(f, (T \ {y}) \ {z}) \in Int
  BY <1>4, <1>5
<1>11. Over(f, (T \ {z}) \ {y}) = Over(f, (T \ {y}) \ {z})
  BY <1>9
<1> HIDE DEF y
<1>12. Over(f, T) = f[z] + Over(f, T \ {z})
  BY <1>5, <1>7, <1>8, <1>10, <1>11
<1>13. QED
  BY <1>3, <1>12

\* Sums of functions related element by element.
LEMMA OverMonotone ==
    ASSUME NEW S, IsFiniteSet(S), NEW f, S \subseteq DOMAIN f, \A i \in S : f[i] \in Int,
           NEW g, S \subseteq DOMAIN g, \A i \in S : g[i] \in Int,
           \A i \in S : f[i] <= g[i]
    PROVE  /\ Over(f, S) <= Over(g, S)
           /\ (\E i \in S : f[i] < g[i]) => Over(f, S) < Over(g, S)
<1> DEFINE G == {T \in SUBSET S : ~ /\ Over(f, T) <= Over(g, T)
                                    /\ (\E i \in T : f[i] < g[i]) => Over(f, T) < Over(g, T)}
<1>1. SUFFICES ASSUME G # {} PROVE FALSE
  OBVIOUS
<1>2. PICK T \in G : \A U \in G : U \subseteq T => U = T
  <2>1. G \in SUBSET (SUBSET S)
    OBVIOUS
  <2> HIDE DEF G
  <2>2. QED
    BY <1>1, <2>1, MinimalSubset
<1>3. \A U \in SUBSET S : /\ IsFiniteSet(U) /\ U \subseteq DOMAIN f /\ U \subseteq DOMAIN g
                          /\ Over(f, U) \in Int /\ Over(g, U) \in Int
  BY FS_Subset, OverType
<1>4. CASE T = {}
  <2>1. Over(f, T) = 0 /\ Over(g, T) = 0
    BY <1>3, <1>4, OverStep
  <2>2. QED
    BY <1>4, <2>1
<1>5. CASE T # {}
  <2> DEFINE y == Some(T)
             U == T \ {y}
  <2>1. y \in T /\ U \in SUBSET S /\ U # T
    BY <1>5, SomeIn
  <2>2. /\ Over(f, U) <= Over(g, U)
        /\ (\E i \in U : f[i] < g[i]) => Over(f, U) < Over(g, U)
    <3>1. U \notin G
      BY <1>2, <2>1
    <3>2. QED
      BY <2>1, <3>1
  <2>3. Over(f, T) = f[y] + Over(f, U) /\ Over(g, T) = g[y] + Over(g, U)
    BY <1>3, <1>5, OverStep
  <2>4. f[y] \in Int /\ g[y] \in Int /\ f[y] <= g[y] /\ Over(f, U) \in Int /\ Over(g, U) \in Int
    BY <1>3, <2>1
  <2>5. Over(f, T) <= Over(g, T)
    BY <2>2, <2>3, <2>4
  <2>6. ASSUME NEW i \in T, f[i] < g[i] PROVE Over(f, T) < Over(g, T)
    <3>1. i = y \/ i \in U
      OBVIOUS
    <3> HIDE DEF y, U
    <3>2. QED
      BY <2>2, <2>3, <2>4, <2>6, <3>1
  <2>7. QED
    BY <2>5, <2>6
<1>6. QED
  BY <1>4, <1>5

\* The sum of a sum and of a difference.
LEMMA OverPlus ==
    ASSUME NEW S, IsFiniteSet(S),
           NEW f, S \subseteq DOMAIN f, \A i \in S : f[i] \in Int,
           NEW g, S \subseteq DOMAIN g, \A i \in S : g[i] \in Int,
           NEW h, S \subseteq DOMAIN h, \A i \in S : h[i] = f[i] + g[i]
    PROVE  Over(h, S) = Over(f, S) + Over(g, S)
<1> DEFINE G == {T \in SUBSET S : Over(h, T) # Over(f, T) + Over(g, T)}
<1>1. SUFFICES ASSUME G # {} PROVE FALSE
  OBVIOUS
<1>2. PICK T \in G : \A U \in G : U \subseteq T => U = T
  <2>1. G \in SUBSET (SUBSET S)
    OBVIOUS
  <2> HIDE DEF G
  <2>2. QED
    BY <1>1, <2>1, MinimalSubset
<1>3. \A U \in SUBSET S : /\ IsFiniteSet(U) /\ U \subseteq DOMAIN f /\ U \subseteq DOMAIN g
                          /\ U \subseteq DOMAIN h
                          /\ Over(f, U) \in Int /\ Over(g, U) \in Int
  BY FS_Subset, OverType
<1>4. CASE T = {}
  <2>1. Over(f, T) = 0 /\ Over(g, T) = 0 /\ Over(h, T) = 0
    BY <1>3, <1>4, OverStep
  <2>2. QED
    BY <2>1
<1>5. CASE T # {}
  <2> DEFINE y == Some(T)
             U == T \ {y}
  <2>1. y \in T /\ U \in SUBSET S /\ U # T
    BY <1>5, SomeIn
  <2>2. Over(h, U) = Over(f, U) + Over(g, U)
    BY <1>2, <2>1
  <2>3. /\ Over(f, T) = f[y] + Over(f, U) /\ Over(g, T) = g[y] + Over(g, U)
        /\ Over(h, T) = h[y] + Over(h, U)
    BY <1>3, <1>5, OverStep
  <2>4. /\ f[y] \in Int /\ g[y] \in Int /\ h[y] = f[y] + g[y]
        /\ Over(f, U) \in Int /\ Over(g, U) \in Int
    BY <1>3, <2>1
  <2>5. Over(h, T) = Over(f, T) + Over(g, T)
    <3> HIDE DEF y, U
    <3>1. QED
      BY <2>2, <2>3, <2>4
  <2>6. QED
    BY <2>5
<1>6. QED
  BY <1>4, <1>5

\* A sum is the sum over a part plus the sum over what is left.
LEMMA OverSplit ==
    ASSUME NEW S, IsFiniteSet(S), NEW f, S \subseteq DOMAIN f, \A i \in S : f[i] \in Int,
           NEW A
    PROVE  Over(f, S) = Over(f, S \cap A) + Over(f, S \ A)
<1> DEFINE G == {T \in SUBSET S : Over(f, T) # Over(f, T \cap A) + Over(f, T \ A)}
<1>1. SUFFICES ASSUME G # {} PROVE FALSE
  <2>1. S \in SUBSET S
    OBVIOUS
  <2>2. QED
    BY <2>1
<1>2. PICK T \in G : \A U \in G : U \subseteq T => U = T
  <2>1. G \in SUBSET (SUBSET S)
    OBVIOUS
  <2> HIDE DEF G
  <2>2. QED
    BY <1>1, <2>1, MinimalSubset
<1>3. \A U \in SUBSET S : IsFiniteSet(U) /\ U \subseteq DOMAIN f /\ Over(f, U) \in Int
  BY FS_Subset, OverType
<1>4. CASE T = {}
  <2>1. T \cap A = {} /\ T \ A = {} /\ Over(f, T) = 0
    BY <1>3, <1>4, OverStep
  <2>2. QED
    BY <1>4, <2>1
<1>5. CASE T # {}
  <2> DEFINE y == Some(T)
             U == T \ {y}
  <2>1. y \in T /\ U \in SUBSET S /\ U # T
    BY <1>5, SomeIn
  <2>2. Over(f, U) = Over(f, U \cap A) + Over(f, U \ A)
    BY <1>2, <2>1
  <2>3. Over(f, T) = f[y] + Over(f, U)
    BY <1>3, <1>5, OverStep
  <2>4. f[y] \in Int /\ Over(f, U \cap A) \in Int /\ Over(f, U \ A) \in Int
    <3>1. U \cap A \in SUBSET S /\ U \ A \in SUBSET S
      BY <2>1
    <3>2. QED
      BY <1>3, <2>1, <3>1
  <2>5. CASE y \in A
    <3>1. U \ A = T \ A /\ (T \cap A) \ {y} = U \cap A /\ y \in T \cap A /\ T \cap A \in SUBSET S
      BY <2>1, <2>5
    <3>2. Over(f, T \cap A) = f[y] + Over(f, U \cap A)
      BY <1>3, <3>1, OverTake
    <3>3. Over(f, T) = Over(f, T \cap A) + Over(f, T \ A)
      <4>1. Over(f, U \ A) = Over(f, T \ A)
        BY <3>1
      <4> HIDE DEF y, U
      <4>2. QED
        BY <2>2, <2>3, <2>4, <3>2, <4>1
    <3>4. QED
      BY <3>3
  <2>6. CASE y \notin A
    <3>1. U \cap A = T \cap A /\ (T \ A) \ {y} = U \ A /\ y \in T \ A /\ T \ A \in SUBSET S
      BY <2>1, <2>6
    <3>2. Over(f, T \ A) = f[y] + Over(f, U \ A)
      BY <1>3, <3>1, OverTake
    <3>3. Over(f, T) = Over(f, T \cap A) + Over(f, T \ A)
      <4>1. Over(f, U \cap A) = Over(f, T \cap A)
        BY <3>1
      <4> HIDE DEF y, U
      <4>2. QED
        BY <2>2, <2>3, <2>4, <3>2, <4>1
    <3>4. QED
      BY <3>3
  <2>7. QED
    BY <2>5, <2>6
<1>6. QED
  BY <1>4, <1>5

LEMMA OverAgree ==
    ASSUME NEW S, NEW f, NEW g, \A i \in S : f[i] = g[i]
    PROVE  Over(f, S) = Over(g, S)
<1>1. [i \in S |-> f[i]] = [i \in S |-> g[i]]
  OBVIOUS
<1>2. QED
  BY <1>1 DEF Over

LEMMA OverZero ==
    ASSUME NEW S, IsFiniteSet(S), NEW f, S \subseteq DOMAIN f, \A i \in S : f[i] = 0
    PROVE  Over(f, S) = 0
<1>1. Over(f, S) = Over(f, S) + Over(f, S)
  BY OverPlus
<1>2. Over(f, S) \in Int
  BY OverType
<1>3. QED
  BY <1>1, <1>2

LEMMA OverAll ==
    ASSUME NEW S, NEW T, NEW f \in [S -> T]
    PROVE  Total(f) = Over(f, S)
<1>1. f = [i \in S |-> f[i]]
  OBVIOUS
<1>2. QED
  BY <1>1 DEF Over
-----------------------------------------------------------------------------
(***************************************************************************)
(* Share: handing out an amount in some order of the stages.               *)
(***************************************************************************)

LEMMA ClampType ==
    ASSUME NEW x \in Int, NEW low \in Int, NEW high \in Int, low <= high
    PROVE  /\ Clamp(x, low, high) \in Int
           /\ low <= Clamp(x, low, high) /\ Clamp(x, low, high) <= high
BY DEF Clamp

\* earlier[i] is what comes before i in a total order of S.
Order(S, earlier) ==
    /\ \A i \in S : earlier[i] \subseteq S \ {i}
    /\ \A i \in S : \A j \in earlier[i] : earlier[j] \subseteq earlier[i]
    /\ \A i, j \in S : i # j => i \in earlier[j] \/ j \in earlier[i]

\* A set of stages has a last one.
LEMMA LastIn ==
    ASSUME NEW S, IsFiniteSet(S), NEW earlier, Order(S, earlier), NEW T \in SUBSET S, T # {}
    PROVE  \E z \in T : \A i \in T \ {z} : i \in earlier[z]
<1> DEFINE G == {T \ earlier[i] : i \in T}
<1>1. G # {} /\ G \in SUBSET (SUBSET T) /\ IsFiniteSet(T)
  <2>1. IsFiniteSet(T)
    BY FS_Subset
  <2>2. G # {} /\ G \in SUBSET (SUBSET T)
    OBVIOUS
  <2> HIDE DEF G
  <2>3. QED
    BY <2>1, <2>2
<1>2. PICK U \in G : \A V \in G : V \subseteq U => V = U
  <2> HIDE DEF G
  <2>1. QED
    BY <1>1, MinimalSubset
<1>3. PICK z \in T : U = T \ earlier[z]
  BY <1>2
<1>4. ASSUME NEW i \in T \ {z}, i \notin earlier[z] PROVE FALSE
  <2>1. z \in earlier[i]
    BY <1>3, <1>4 DEF Order
  <2>2. earlier[z] \subseteq earlier[i]
    BY <1>4, <2>1 DEF Order
  <2>3. T \ earlier[i] \in G /\ T \ earlier[i] \subseteq U
    BY <1>3, <1>4, <2>2
  <2>4. T \ earlier[i] = U
    <3> HIDE DEF G
    <3>1. QED
      BY <1>2, <2>3
  <2>5. z \in U
    BY <1>3 DEF Order
  <2>6. QED
    BY <2>1, <2>4, <2>5
<1>5. QED
  BY <1>4

\* share is how amount is handed out to S in the order of earlier.
Shared(S, earlier, room, amount, share) ==
    /\ IsFiniteSet(S) /\ Order(S, earlier)
    /\ S \subseteq DOMAIN room /\ S \subseteq DOMAIN share
    /\ amount \in Int
    /\ \A i \in S : /\ room[i] \in Nat
                    /\ share[i] = Clamp(amount - Over(room, earlier[i]), 0, room[i])

\* Everybody gets something between nothing and its room, and all of them together
\* get the amount, or as much of it as there is room for.
LEMMA ShareTotal ==
    ASSUME NEW S, NEW earlier, NEW room, NEW amount, NEW share,
           Shared(S, earlier, room, amount, share)
    PROVE  /\ \A i \in S : share[i] \in Nat /\ share[i] <= room[i]
           /\ Over(room, S) \in Nat
           /\ Over(share, S) = Clamp(amount, 0, Over(room, S))
<1>0. /\ IsFiniteSet(S) /\ Order(S, earlier)
      /\ S \subseteq DOMAIN room /\ S \subseteq DOMAIN share
      /\ amount \in Int
      /\ \A i \in S : /\ room[i] \in Nat
                      /\ share[i] = Clamp(amount - Over(room, earlier[i]), 0, room[i])
  BY DEF Shared
<1> DEFINE zero == [i \in S |-> 0]
<1>1. ASSUME NEW T \in SUBSET S
      PROVE  /\ IsFiniteSet(T) /\ T \subseteq DOMAIN room /\ T \subseteq DOMAIN share
             /\ Over(room, T) \in Nat
  <2>1. IsFiniteSet(T) /\ T \subseteq DOMAIN room /\ T \subseteq DOMAIN share
    BY <1>0, FS_Subset
  <2>2. Over(zero, T) = 0
    BY <2>1, OverZero
  <2>3. Over(zero, T) <= Over(room, T)
    <3>1. \A i \in T : zero[i] \in Int /\ room[i] \in Int /\ zero[i] <= room[i]
      BY <1>0
    <3>2. T \subseteq DOMAIN zero
      OBVIOUS
    <3> HIDE DEF zero
    <3>3. QED
      BY <2>1, <3>1, <3>2, OverMonotone
  <2>4. Over(room, T) \in Int
    BY <1>0, <2>1, OverType
  <2> HIDE DEF zero
  <2>5. QED
    BY <2>1, <2>2, <2>3, <2>4
<1>2. ASSUME NEW i \in S
      PROVE  /\ Over(room, earlier[i]) \in Nat
             /\ share[i] \in Nat /\ share[i] <= room[i]
  <2>1. earlier[i] \in SUBSET S
    BY <1>0 DEF Order
  <2>2. Over(room, earlier[i]) \in Nat
    BY <1>1, <2>1
  <2>3. amount - Over(room, earlier[i]) \in Int /\ room[i] \in Int /\ 0 <= room[i]
    BY <1>0, <2>2
  <2>4. share[i] \in Int /\ 0 <= share[i] /\ share[i] <= room[i]
    BY <1>0, <2>3 DEF Clamp
  <2>5. QED
    BY <2>2, <2>4
<1> DEFINE Closed(T) == \A i \in T : earlier[i] \subseteq T
           G == {T \in SUBSET S : Closed(T) /\ Over(share, T) # Clamp(amount, 0, Over(room, T))}
<1>3. S \in SUBSET S /\ Closed(S)
  BY <1>0 DEF Order
<1>4. ASSUME G # {} PROVE FALSE
  <2>1. PICK T \in G : \A U \in G : U \subseteq T => U = T
    <3>1. G \in SUBSET (SUBSET S)
      OBVIOUS
    <3> HIDE DEF G
    <3>2. QED
      BY <1>0, <1>4, <3>1, MinimalSubset
  <2>2. CASE T = {}
    <3>1. Over(share, T) = 0 /\ Over(room, T) = 0
      BY <1>1, <2>2, OverStep
    <3>2. Clamp(amount, 0, 0) = 0
      BY <1>0 DEF Clamp
    <3>3. QED
      BY <3>1, <3>2
  <2>3. CASE T # {}
    <3>1. PICK z \in T : \A i \in T \ {z} : i \in earlier[z]
      BY <1>0, <2>3, LastIn
    <3>2. T \ {z} = earlier[z]
      BY <1>0, <2>1, <3>1 DEF Order
    <3>3. Over(share, earlier[z]) = Clamp(amount, 0, Over(room, earlier[z]))
      <4>1. earlier[z] \in SUBSET S /\ Closed(earlier[z]) /\ earlier[z] # T
        BY <1>0, <3>2 DEF Order
      <4>2. earlier[z] \notin G
        BY <2>1, <3>2, <4>1
      <4>3. QED
        BY <4>1, <4>2
    <3>4. Over(room, T) = room[z] + Over(room, earlier[z])
      BY <1>0, <1>1, <3>2, OverTake
    <3>5. Over(share, T) = share[z] + Over(share, earlier[z])
      BY <1>1, <1>2, <3>2, OverTake
    <3>6. /\ amount \in Int /\ room[z] \in Nat /\ Over(room, earlier[z]) \in Nat
          /\ share[z] = Clamp(amount - Over(room, earlier[z]), 0, room[z])
      BY <1>0, <1>2
    <3>7. Over(share, T) = Clamp(amount, 0, Over(room, T))
      <4> HIDE DEF G, Closed
      <4>1. QED
        BY <3>3, <3>4, <3>5, <3>6 DEF Clamp
    <3>8. QED
      BY <3>7
  <2>4. QED
    BY <2>2, <2>3
<1>5. Over(share, S) = Clamp(amount, 0, Over(room, S))
  BY <1>3, <1>4
<1>6. QED
  BY <1>1, <1>2, <1>5

\* earlier orders S by key, and by tie among equals.
ByKey(S, key, tie, earlier) ==
    /\ \A i \in S : key[i] \in Int /\ tie[i] \in Int
    /\ \A i, j \in S : tie[i] = tie[j] => i = j
    /\ \A i \in S : earlier[i] \subseteq S
    /\ \A i, j \in S : j \in earlier[i]
          <=> key[j] < key[i] \/ (key[j] = key[i] /\ tie[j] < tie[i])

\* A key, and what breaks its ties, put the stages in a total order.
LEMMA KeyOrder ==
    ASSUME NEW S, NEW key, NEW tie, NEW earlier, ByKey(S, key, tie, earlier)
    PROVE  Order(S, earlier)
<1> USE DEF ByKey
<1>1. \A i \in S : earlier[i] \subseteq S \ {i}
  OBVIOUS
<1>2. ASSUME NEW i \in S, NEW j \in earlier[i], NEW k \in earlier[j]
      PROVE  k \in earlier[i]
  <2>1. j \in S
    BY <1>2
  <2>2. k \in S
    BY <1>2, <2>1
  <2>3. key[j] < key[i] \/ (key[j] = key[i] /\ tie[j] < tie[i])
    BY <1>2
  <2>4. key[k] < key[j] \/ (key[k] = key[j] /\ tie[k] < tie[j])
    BY <1>2, <2>1
  <2>5. /\ key[i] \in Int /\ key[j] \in Int /\ key[k] \in Int
        /\ tie[i] \in Int /\ tie[j] \in Int /\ tie[k] \in Int
    BY <1>2, <2>1, <2>2
  <2>6. key[k] < key[i] \/ (key[k] = key[i] /\ tie[k] < tie[i])
    BY <2>3, <2>4, <2>5
  <2>7. QED
    BY <2>2, <2>6
<1>3. ASSUME NEW i \in S, NEW j \in S, i # j
      PROVE  i \in earlier[j] \/ j \in earlier[i]
  BY <1>3
<1>4. QED
  BY <1>1, <1>2, <1>3 DEF Order

(***************************************************************************)
(* Adding the two shares to the whole seconds, as both callers do.         *)
(***************************************************************************)

\* plan is whole with what is missing added, up to the room of each stage, or what is
\* too much taken off, down to its room.
Balances(S, whole, target, up, down, plan) ==
    /\ whole \in [S -> Int] /\ up \in [S -> Nat] /\ down \in [S -> Nat]
    /\ target \in Int
    /\ \E before, after, more, less :
          /\ Shared(S, before, up, target - Total(whole), more)
          /\ Shared(S, after, down, -(target - Total(whole)), less)
          /\ plan = [i \in S |-> whole[i] + more[i] - less[i]]

\* At most one of the two hands out anything: what is added never exceeds what a stage
\* has room for, and all of them reach the target whenever the bounds allow it.
LEMMA Balanced ==
    ASSUME NEW S, NEW whole, NEW target, NEW up, NEW down, NEW plan,
           Balances(S, whole, target, up, down, plan)
    PROVE  /\ plan \in [S -> Int]
           /\ \A i \in S : whole[i] - down[i] <= plan[i] /\ plan[i] <= whole[i] + up[i]
           /\ Total(plan) = target
                <=> target \in Total(whole) - Total(down)..Total(whole) + Total(up)
<1>t. whole \in [S -> Int] /\ up \in [S -> Nat] /\ down \in [S -> Nat] /\ target \in Int
  BY DEF Balances
<1> DEFINE missing == target - Total(whole)
           excess == -missing
<1>p. PICK before, after, more, less :
          /\ Shared(S, before, up, missing, more)
          /\ Shared(S, after, down, excess, less)
          /\ plan = [i \in S |-> whole[i] + more[i] - less[i]]
  BY DEF Balances
<1>0. IsFiniteSet(S) /\ S \subseteq DOMAIN more /\ S \subseteq DOMAIN less
  BY <1>p DEF Shared
<1>1. /\ Total(whole) = Over(whole, S) /\ Total(up) = Over(up, S) /\ Total(down) = Over(down, S)
  BY <1>t, OverAll
<1>2. /\ Total(whole) \in Int
  BY <1>0, <1>1, <1>t, OverType
<1>3. missing \in Int /\ excess \in Int
  BY <1>2, <1>t
<1>4. /\ \A i \in S : more[i] \in Nat /\ more[i] <= up[i]
      /\ Over(up, S) \in Nat
      /\ Over(more, S) = Clamp(missing, 0, Over(up, S))
  <2>1. Shared(S, before, up, missing, more)
    BY <1>p
  <2> HIDE DEF missing, excess
  <2>2. QED
    BY <2>1, ShareTotal
<1>5. /\ \A i \in S : less[i] \in Nat /\ less[i] <= down[i]
      /\ Over(down, S) \in Nat
      /\ Over(less, S) = Clamp(excess, 0, Over(down, S))
  <2>1. Shared(S, after, down, excess, less)
    BY <1>p
  <2> HIDE DEF missing, excess
  <2>2. QED
    BY <2>1, ShareTotal
<1>6. plan \in [S -> Int]
      /\ \A i \in S : whole[i] - down[i] <= plan[i] /\ plan[i] <= whole[i] + up[i]
  BY <1>4, <1>5, <1>p, <1>t
<1> DEFINE raised == [i \in S |-> whole[i] + more[i]]
<1>7. Over(raised, S) = Over(whole, S) + Over(more, S)
  <2>1. \A i \in S : raised[i] = whole[i] + more[i] /\ whole[i] \in Int /\ more[i] \in Int
    BY <1>4, <1>t
  <2>2. /\ S \subseteq DOMAIN raised /\ S \subseteq DOMAIN whole /\ S \subseteq DOMAIN more
        /\ IsFiniteSet(S)
    BY <1>0, <1>t
  <2> HIDE DEF raised
  <2>3. QED
    BY <2>1, <2>2, OverPlus
<1>8. Over(raised, S) = Over(plan, S) + Over(less, S)
  <2>1. \A i \in S : raised[i] = plan[i] + less[i] /\ plan[i] \in Int /\ less[i] \in Int
    BY <1>4, <1>5, <1>6, <1>p, <1>t
  <2>2. S \subseteq DOMAIN raised /\ S \subseteq DOMAIN plan
    BY <1>6
  <2> HIDE DEF raised
  <2>3. QED
    BY <1>0, <2>1, <2>2, OverPlus
<1>9. Total(plan) = Over(plan, S) /\ Over(plan, S) \in Int
  BY <1>0, <1>6, OverAll, OverType
<1>10. Total(plan) = Total(whole) + Clamp(missing, 0, Total(up)) - Clamp(excess, 0, Total(down))
  <2>1. Over(more, S) \in Int /\ Over(less, S) \in Int
    BY <1>3, <1>4, <1>5 DEF Clamp
  <2>2. Over(more, S) = Clamp(missing, 0, Total(up)) /\ Over(less, S) = Clamp(excess, 0, Total(down))
    BY <1>1, <1>4, <1>5
  <2>3. Total(plan) = Total(whole) + Over(more, S) - Over(less, S)
    <3>1. Over(raised, S) = Total(whole) + Over(more, S)
      BY <1>1, <1>7
    <3>2. Over(raised, S) = Total(plan) + Over(less, S)
      BY <1>8, <1>9
    <3> HIDE DEF raised, missing, excess
    <3>3. Over(raised, S) \in Int /\ Total(plan) \in Int
      BY <1>2, <1>9, <2>1, <3>1
    <3>4. QED
      BY <1>2, <2>1, <3>1, <3>2, <3>3
  <2>4. QED
    BY <2>2, <2>3
<1>11. Total(up) \in Nat /\ Total(down) \in Nat
  BY <1>1, <1>4, <1>5
<1>12. Total(plan) = target
         <=> target \in Total(whole) - Total(down)..Total(whole) + Total(up)
  BY <1>2, <1>3, <1>10, <1>11, <1>t DEF Clamp
<1>13. QED
  BY <1>6, <1>12

\* _reconcile_green_times: a locked stage keeps its green, every other ends within its
\* bounds, and the plan fills the target exactly if what the locked stages leave is
\* between the minimums and the maximums of the others.
THEOREM ReconciledFits ==
    ASSUME NEW S \in SUBSET Int, IsFiniteSet(S), NEW green \in [S -> Int], NEW target \in Int,
           NEW low \in [S -> Int], NEW high \in [S -> Int], NEW locked,
           \A i \in S \ locked : low[i] <= high[i]
    PROVE  LET plan == Reconciled(green, target, low, high, locked)
               left == target - Over(green, S \cap locked)
           IN  /\ plan \in [S -> Int]
               /\ \A i \in S \cap locked : plan[i] = green[i]
               /\ \A i \in S \ locked : low[i] <= plan[i] /\ plan[i] <= high[i]
               /\ Total(plan) = target
                    <=> left \in Over(low, S \ locked)..Over(high, S \ locked)
<1> DEFINE base == [i \in DOMAIN green |->
                      IF i \in locked THEN green[i] ELSE Clamp(green[i], low[i], high[i])]
           missing == target - Total(base)
           Shorter(j, i) == base[j] < base[i] \/ (base[j] = base[i] /\ j < i)
           Longer(j, i) == base[j] > base[i] \/ (base[j] = base[i] /\ j < i)
           up == [i \in DOMAIN green |-> IF i \in locked THEN 0 ELSE high[i] - base[i]]
           down == [i \in DOMAIN green |-> IF i \in locked THEN 0 ELSE base[i] - low[i]]
           excess == -missing
           more == Share(up, Shorter, missing)
           less == Share(down, Longer, excess)
           plan == [i \in DOMAIN green |-> base[i] + more[i] - less[i]]
           before == [i \in S |-> {j \in S : Shorter(j, i)}]
           after == [i \in S |-> {j \in S : Longer(j, i)}]
<1>1. Reconciled(green, target, low, high, locked) = plan
  BY DEF Reconciled
<1>2. DOMAIN green = S /\ \A i \in S : green[i] \in Int /\ low[i] \in Int /\ high[i] \in Int
  OBVIOUS
<1>3. base \in [S -> Int] /\ \A i \in S : i \in Int
  BY DEF Clamp
<1>4. \A i \in S : /\ i \in locked => base[i] = green[i] /\ up[i] = 0 /\ down[i] = 0
                   /\ i \notin locked => /\ low[i] <= base[i] /\ base[i] <= high[i]
                                         /\ up[i] = high[i] - base[i]
                                         /\ down[i] = base[i] - low[i]
  BY DEF Clamp
<1>5. up \in [S -> Nat] /\ down \in [S -> Nat]
  <2>1. up = [i \in S |-> up[i]] /\ down = [i \in S |-> down[i]]
    OBVIOUS
  <2>2. \A i \in S : up[i] \in Nat /\ down[i] \in Nat
    <3> HIDE DEF up, down, base
    <3>1. QED
      BY <1>2, <1>3, <1>4
  <2> HIDE DEF up, down
  <2>3. QED
    BY <2>1, <2>2
<1>6. /\ \A i \in S : more[i] = Clamp(missing - Over(up, before[i]), 0, up[i])
      /\ \A i \in S : less[i] = Clamp(excess - Over(down, after[i]), 0, down[i])
      /\ DOMAIN more = S /\ DOMAIN less = S
  <2>1. DOMAIN up = S /\ DOMAIN down = S
    OBVIOUS
  <2>2. /\ more = [i \in S |-> Clamp(missing - Over(up, {j \in S : Shorter(j, i)}), 0, up[i])]
        /\ less = [i \in S |-> Clamp(excess - Over(down, {j \in S : Longer(j, i)}), 0, down[i])]
    <3> HIDE DEF up, down, base, missing, excess
    <3>1. QED
      BY <2>1 DEF Share, Over
  <2> HIDE DEF up, down, base, missing, excess, more, less
  <2>3. QED
    BY <2>2
<1>7. Order(S, before) /\ Order(S, after)
  <2> DEFINE tie == [i \in S |-> i]
             neg == [i \in S |-> -base[i]]
  <2>1. ByKey(S, base, tie, before)
    <3> HIDE DEF base
    <3>1. QED
      BY <1>3 DEF ByKey
  <2>2. ByKey(S, neg, tie, after)
    <3> HIDE DEF base
    <3>1. QED
      BY <1>3 DEF ByKey
  <2> HIDE DEF before, after, tie, neg, base
  <2>3. QED
    BY <2>1, <2>2, KeyOrder
<1>8. plan = [i \in S |-> base[i] + more[i] - less[i]]
  OBVIOUS
<1>9. /\ plan \in [S -> Int]
      /\ \A i \in S : base[i] - down[i] <= plan[i] /\ plan[i] <= base[i] + up[i]
      /\ Total(plan) = target
           <=> target \in Total(base) - Total(down)..Total(base) + Total(up)
  <2>1. Shared(S, before, up, missing, more) /\ Shared(S, after, down, excess, less)
    <3>1. missing \in Int
      <4> HIDE DEF base
      <4>1. Total(base) = Over(base, S) /\ DOMAIN base = S
        BY <1>3, OverAll
      <4>2. Total(base) \in Int
        BY <1>3, <4>1, OverType
      <4>3. QED
        BY <4>2
    <3>2. excess \in Int
      BY <3>1
    <3> HIDE DEF base, up, down, more, less, before, after, missing, excess
    <3>3. QED
      BY <1>5, <1>6, <1>7, <3>1, <3>2 DEF Shared
  <2>2. missing = target - Total(base) /\ excess = -missing
    OBVIOUS
  <2> HIDE DEF base, up, down, more, less, before, after, plan, missing, excess
  <2>3. Balances(S, base, target, up, down, plan)
    BY <1>3, <1>5, <1>8, <2>1, <2>2 DEF Balances
  <2>4. QED
    BY <2>3, Balanced
<1> HIDE DEF base, up, down, more, less, before, after, plan, missing, excess
<1> DEFINE free == S \ locked
           left == target - Over(green, S \cap locked)
<1>10. \A i \in S \cap locked : plan[i] = green[i]
  BY <1>2, <1>4, <1>9
<1>11. \A i \in free : low[i] <= plan[i] /\ plan[i] <= high[i]
  BY <1>2, <1>3, <1>4, <1>9
<1>12. /\ S \cap locked \in SUBSET S /\ free \in SUBSET S
       /\ IsFiniteSet(S \cap locked) /\ IsFiniteSet(free)
  BY FS_Subset
\* Locked stages have no room, so the sums over the free ones decide.
<1>13. /\ Total(base) = Over(green, S \cap locked) + Over(base, free)
       /\ Total(up) = Over(up, free) /\ Total(down) = Over(down, free)
  <2>1. /\ Total(base) = Over(base, S \cap locked) + Over(base, free)
        /\ Total(up) = Over(up, S \cap locked) + Over(up, free)
        /\ Total(down) = Over(down, S \cap locked) + Over(down, free)
    <3>1. Total(base) = Over(base, S) /\ Total(up) = Over(up, S) /\ Total(down) = Over(down, S)
      BY <1>3, <1>5, OverAll
    <3>2. /\ DOMAIN base = S /\ DOMAIN up = S /\ DOMAIN down = S
          /\ \A i \in S : base[i] \in Int /\ up[i] \in Int /\ down[i] \in Int
      BY <1>3, <1>5
    <3>3. Over(base, S) = Over(base, S \cap locked) + Over(base, free)
      BY <3>2, OverSplit
    <3>4. Over(up, S) = Over(up, S \cap locked) + Over(up, free)
      BY <3>2, OverSplit
    <3>5. Over(down, S) = Over(down, S \cap locked) + Over(down, free)
      BY <3>2, OverSplit
    <3>6. QED
      BY <3>1, <3>3, <3>4, <3>5
  <2>2. Over(base, S \cap locked) = Over(green, S \cap locked)
    BY <1>4, OverAgree
  <2>3. Over(up, S \cap locked) = 0 /\ Over(down, S \cap locked) = 0
    <3>1. /\ S \cap locked \subseteq DOMAIN up /\ S \cap locked \subseteq DOMAIN down
          /\ \A i \in S \cap locked : up[i] = 0 /\ down[i] = 0
      BY <1>4, <1>5
    <3>2. QED
      BY <1>12, <3>1, OverZero
  <2>4. Over(up, free) \in Int /\ Over(down, free) \in Int
    <3>1. /\ free \subseteq DOMAIN up /\ free \subseteq DOMAIN down
          /\ \A i \in free : up[i] \in Int /\ down[i] \in Int
      BY <1>5, <1>12
    <3>2. QED
      BY <1>12, <3>1, OverType
  <2>5. QED
    BY <2>1, <2>2, <2>3, <2>4
<1>14. /\ Over(high, free) = Over(base, free) + Over(up, free)
       /\ Over(base, free) = Over(low, free) + Over(down, free)
  <2>1. /\ free \subseteq DOMAIN up /\ free \subseteq DOMAIN down /\ free \subseteq DOMAIN base
        /\ free \subseteq DOMAIN low /\ free \subseteq DOMAIN high
        /\ \A i \in free : /\ up[i] \in Int /\ down[i] \in Int /\ base[i] \in Int
                           /\ low[i] \in Int /\ high[i] \in Int
                           /\ high[i] = base[i] + up[i] /\ base[i] = low[i] + down[i]
    <3>1. /\ free \subseteq DOMAIN up /\ free \subseteq DOMAIN down /\ free \subseteq DOMAIN base
          /\ free \subseteq DOMAIN low /\ free \subseteq DOMAIN high
      BY <1>3, <1>5
    <3>2. ASSUME NEW i \in free
          PROVE  /\ up[i] \in Int /\ down[i] \in Int /\ base[i] \in Int
                 /\ low[i] \in Int /\ high[i] \in Int
                 /\ high[i] = base[i] + up[i] /\ base[i] = low[i] + down[i]
      BY <1>2, <1>3, <1>4, <1>5
    <3>3. QED
      BY <3>1, <3>2
  <2> HIDE DEF free
  <2>2. Over(high, free) = Over(base, free) + Over(up, free)
    BY <1>12, <2>1, OverPlus
  <2>3. Over(base, free) = Over(low, free) + Over(down, free)
    BY <1>12, <2>1, OverPlus
  <2>4. QED
    BY <2>2, <2>3
<1>15. /\ Over(green, S \cap locked) \in Int /\ Over(base, free) \in Int
       /\ Over(up, free) \in Int /\ Over(down, free) \in Int
       /\ Over(low, free) \in Int /\ Over(high, free) \in Int
  <2>1. /\ free \subseteq DOMAIN up /\ free \subseteq DOMAIN down /\ free \subseteq DOMAIN base
        /\ free \subseteq DOMAIN low /\ free \subseteq DOMAIN high
        /\ S \cap locked \subseteq DOMAIN green
    BY <1>2, <1>3, <1>5
  <2>2. /\ \A i \in free : /\ up[i] \in Int /\ down[i] \in Int /\ base[i] \in Int
                           /\ low[i] \in Int /\ high[i] \in Int
        /\ \A i \in S \cap locked : green[i] \in Int
    BY <1>2, <1>3, <1>5
  <2> HIDE DEF free
  <2>3. QED
    BY <1>12, <2>1, <2>2, OverType
<1>16. Total(plan) = target <=> left \in Over(low, free)..Over(high, free)
  <2> HIDE DEF free
  <2>1. QED
    BY <1>9, <1>13, <1>14, <1>15
<1>17. QED
  BY <1>1, <1>9, <1>10, <1>11, <1>16
-----------------------------------------------------------------------------
(***************************************************************************)
(* Rescaled: exact fractions, rounded down, then balanced.                 *)
(***************************************************************************)

\* A product of naturals is one, and multiplying keeps an order.
LEMMA Products ==
    ASSUME NEW a \in Int, NEW b \in Int, NEW d \in Nat
    PROVE  /\ a * d \in Int
           /\ a <= b => a * d <= b * d
           /\ a >= 0 /\ b >= 0 => a * b >= 0
           /\ a > 0 /\ b > 0 => a * b > 0
OBVIOUS

\* The quotient of what lies between two multiples of the divisor.
LEMMA QuotientBounds ==
    ASSUME NEW n \in Int, NEW d \in Nat \ {0}, NEW a \in Int, NEW b \in Int,
           a * d <= n, n <= b * d
    PROVE  n \div d \in Int /\ n % d \in Int /\ a <= n \div d /\ n \div d <= b
<1> DEFINE q == n \div d
           m == n % d
<1>1. q \in Int /\ m \in Int /\ 0 <= m /\ m < d /\ n = d * q + m
  OBVIOUS
<1> HIDE DEF q, m
<1>2. a <= q
  <2>1. SUFFICES ASSUME a >= q + 1 PROVE FALSE
    BY <1>1
  <2>2. a * d >= (q + 1) * d
    BY <1>1, <2>1
  <2>3. (q + 1) * d = d * q + d
    BY <1>1
  <2>4. QED
    BY <1>1, <2>2, <2>3
<1>3. q <= b
  <2>1. SUFFICES ASSUME q >= b + 1 PROVE FALSE
    BY <1>1
  <2>2. d * q >= d * (b + 1)
    BY <1>1, <2>1
  <2>3. d * (b + 1) = b * d + d
    OBVIOUS
  <2>4. QED
    BY <1>1, <2>2, <2>3
<1>4. QED
  BY <1>1, <1>2, <1>3 DEF q, m

\* Stretching keeps every stage between its bounds, as fractions of one positive
\* denominator.
LEMMA ScaledFits ==
    ASSUME NEW S, IsFiniteSet(S), NEW target \in Int,
           NEW green \in [S -> Int], NEW low \in [S -> Nat], NEW high \in [S -> Nat],
           \A i \in S : low[i] <= green[i] /\ green[i] <= high[i]
    PROVE  LET real == Scaled(green, target, low, high) IN
           /\ real.den \in Nat \ {0}
           /\ \A i \in S : /\ real.num[i] \in Int
                           /\ low[i] * real.den <= real.num[i]
                           /\ real.num[i] <= high[i] * real.den
<1> DEFINE sum == Total(green)
           num == [i \in DOMAIN green |-> Larger(green[i] * target, low[i] * sum)]
           above == [i \in DOMAIN green |-> num[i] - low[i] * sum]
           excess == Total(num) - target * sum
           slack == Total(above)
           takeBack == (2 * excess > sum \/ 2 * excess < -sum) /\ slack > 0
           den == IF takeBack THEN sum * slack ELSE sum
           X(i) == IF takeBack THEN num[i] * slack - above[i] * excess ELSE num[i]
           last == [i \in DOMAIN green |-> Clamp(X(i), low[i] * den, high[i] * den)]
           real == Scaled(green, target, low, high)
<1> SUFFICES /\ real.den \in Nat \ {0}
             /\ \A i \in S : /\ real.num[i] \in Int
                             /\ low[i] * real.den <= real.num[i]
                             /\ real.num[i] <= high[i] * real.den
  OBVIOUS
<1>1. DOMAIN green = S /\ \A i \in S : green[i] \in Nat /\ low[i] \in Nat /\ high[i] \in Nat
  OBVIOUS
<1>2. sum \in Nat
  <2>1. sum = Over(green, S)
    BY OverAll
  <2>2. Over([i \in S |-> 0], S) = 0
    <3> DEFINE zero == [i \in S |-> 0]
    <3>1. S \subseteq DOMAIN zero /\ \A i \in S : zero[i] = 0
      OBVIOUS
    <3> HIDE DEF zero
    <3>2. Over(zero, S) = 0
      BY <3>1, OverZero
    <3>3. QED
      BY <3>2 DEF zero
  <2>3. Over([i \in S |-> 0], S) <= Over(green, S)
    <3> DEFINE zero == [i \in S |-> 0]
    <3>1. S \subseteq DOMAIN zero /\ \A i \in S : zero[i] \in Int /\ zero[i] <= green[i]
      BY <1>1
    <3> HIDE DEF zero
    <3>2. Over(zero, S) <= Over(green, S)
      BY <1>1, <3>1, OverMonotone
    <3>3. QED
      BY <3>2 DEF zero
  <2>4. Over(green, S) \in Int
    BY <1>1, OverType
  <2>5. QED
    BY <2>1, <2>2, <2>3, <2>4
<1>3. CASE sum \in {0, target}
  <2>1. real = [num |-> green, den |-> 1]
    BY <1>3 DEF Scaled
  <2>2. real.num = green /\ real.den = 1
    BY <2>1
  <2>3. QED
    BY <1>1, <2>2
<1>4. CASE sum \notin {0, target}
  <2>1. real = [den |-> den, num |-> last]
    BY <1>4 DEF Scaled
  <2>2. sum \in Nat /\ sum > 0
    BY <1>2, <1>4
  <2> HIDE DEF sum
  <2>3. \A i \in S : num[i] \in Int /\ above[i] \in Int
    <3>1. \A i \in S : num[i] = Larger(green[i] * target, low[i] * sum)
      BY <1>1
    <3>2. \A i \in S : above[i] = num[i] - low[i] * sum
      BY <1>1
    <3> HIDE DEF num, above
    <3>3. \A i \in S : green[i] * target \in Int /\ low[i] * sum \in Int
      BY <1>1, <2>2
    <3>4. QED
      BY <3>1, <3>2, <3>3 DEF Larger
  <2>4. slack \in Int /\ excess \in Int
    <3>1. num \in [S -> Int] /\ above \in [S -> Int]
      <4>1. num = [i \in S |-> num[i]] /\ above = [i \in S |-> above[i]]
        BY <1>1
      <4> HIDE DEF num, above
      <4>2. QED
        BY <2>3, <4>1
    <3> HIDE DEF num, above
    <3>2. Total(num) = Over(num, S) /\ Total(above) = Over(above, S)
      BY <3>1, OverAll
    <3>3. DOMAIN num = S /\ DOMAIN above = S
      BY <3>1
    <3>4. Over(num, S) \in Int /\ Over(above, S) \in Int
      BY <2>3, <3>3, OverType
    <3>5. target * sum \in Int
      BY <2>2
    <3>6. QED
      BY <3>2, <3>4, <3>5
  <2>5. \A i \in S : X(i) \in Int
    <3> HIDE DEF num, above, slack, excess, takeBack
    <3>1. QED
      BY <2>3, <2>4
  <2>6. den \in Nat \ {0}
    <3>1. takeBack => slack > 0
      OBVIOUS
    <3> HIDE DEF slack, takeBack
    <3>2. CASE takeBack
      <4>1. sum * slack > 0
        BY <2>2, <2>4, <3>1, <3>2
      <4>2. QED
        BY <2>2, <2>4, <3>2, <4>1
    <3>3. CASE ~takeBack
      BY <2>2, <3>3
    <3>4. QED
      BY <3>2, <3>3
  <2> HIDE DEF den, X
  <2>7. ASSUME NEW i \in S
        PROVE  /\ last[i] \in Int /\ low[i] * den <= last[i] /\ last[i] <= high[i] * den
    <3>1. last[i] = Clamp(X(i), low[i] * den, high[i] * den)
      BY <1>1
    <3>2. low[i] * den \in Int /\ high[i] * den \in Int /\ low[i] * den <= high[i] * den
      <4>1. low[i] \in Int /\ high[i] \in Int /\ low[i] <= high[i] /\ den \in Nat
        BY <1>1, <2>6
      <4>2. QED
        BY <4>1, Products
    <3> HIDE DEF last
    <3>3. QED
      BY <2>5, <3>1, <3>2 DEF Clamp
  <2>8. real.den = den /\ real.num = last
    BY <2>1
  <2> HIDE DEF real, last
  <2>9. QED
    BY <2>6, <2>7, <2>8
<1>5. QED
  BY <1>3, <1>4

\* _rescale_green_times: whatever greens are wanted, the plan is within the bounds of
\* every stage and fills the target exactly, if the bounds allow it at all; doubles
\* aside, and in whatever order equal stages are served.
THEOREM RescaledFits ==
    ASSUME NEW S, IsFiniteSet(S), NEW green \in [S -> Int],
           NEW low \in [S -> Nat], NEW high \in [S -> Nat], \A i \in S : low[i] <= high[i],
           NEW target \in Int, Total(low) <= target, target <= Total(high),
           NEW rank \in [S -> Int], \A i, j \in S : rank[i] = rank[j] => i = j
    PROVE  LET plan == Rescaled(green, target, low, high, rank) IN
           /\ plan \in [S -> Int]
           /\ \A i \in S : low[i] <= plan[i] /\ plan[i] <= high[i]
           /\ Total(plan) = target
<1> DEFINE clipped == Clipped(green, low, high)
           real == Scaled(clipped, target, low, high)
           whole == [i \in DOMAIN green |-> real.num[i] \div real.den]
           part == [i \in DOMAIN green |-> real.num[i] % real.den]
           First(key, j, i) == key[j] > key[i] \/ (key[j] = key[i] /\ rank[j] < rank[i])
           missing == target - Total(whole)
           excess == -missing
           up == [i \in DOMAIN green |-> high[i] - whole[i]]
           down == [i \in DOMAIN green |-> whole[i] - low[i]]
           more == Share(up, LAMBDA j, i : First(part, j, i), missing)
           less == Share(down, LAMBDA j, i : First(whole, j, i), excess)
           plan == [i \in DOMAIN green |-> whole[i] + more[i] - less[i]]
           before == [i \in S |-> {j \in S : First(part, j, i)}]
           after == [i \in S |-> {j \in S : First(whole, j, i)}]
<1>1. Rescaled(green, target, low, high, rank) = plan
  BY DEF Rescaled
<1>2. SUFFICES /\ plan \in [S -> Int]
               /\ \A i \in S : low[i] <= plan[i] /\ plan[i] <= high[i]
               /\ Total(plan) = target
  BY <1>1
<1>3. /\ DOMAIN green = S
      /\ \A i \in S : /\ green[i] \in Int /\ low[i] \in Nat /\ high[i] \in Nat
                      /\ low[i] <= high[i]
  OBVIOUS
<1>4. clipped \in [S -> Int] /\ \A i \in S : low[i] <= clipped[i] /\ clipped[i] <= high[i]
  <2>1. clipped = [i \in S |-> Clamp(green[i], low[i], high[i])]
    BY <1>3 DEF Clipped
  <2> HIDE DEF clipped
  <2>2. QED
    BY <1>3, <2>1 DEF Clamp
<1>5. \A i \in S : /\ whole[i] \in Int /\ part[i] \in Int
                   /\ low[i] <= whole[i] /\ whole[i] <= high[i]
  <2>1. /\ real.den \in Nat \ {0}
        /\ \A i \in S : /\ real.num[i] \in Int
                        /\ low[i] * real.den <= real.num[i]
                        /\ real.num[i] <= high[i] * real.den
    <3> HIDE DEF clipped
    <3>1. QED
      BY <1>4, ScaledFits
  <2>2. \A i \in S : whole[i] = real.num[i] \div real.den /\ part[i] = real.num[i] % real.den
    OBVIOUS
  <2> HIDE DEF real, whole, part
  <2>3. ASSUME NEW i \in S
        PROVE  /\ whole[i] \in Int /\ part[i] \in Int
               /\ low[i] <= whole[i] /\ whole[i] <= high[i]
    <3> DEFINE n == real.num[i]
               d == real.den
    <3>1. /\ n \in Int /\ d \in Nat \ {0} /\ low[i] \in Int /\ high[i] \in Int
          /\ low[i] * d <= n /\ n <= high[i] * d
      BY <1>3, <2>1
    <3>2. whole[i] = n \div d /\ part[i] = n % d
      BY <2>2
    <3> HIDE DEF n, d
    <3>3. n \div d \in Int /\ n % d \in Int /\ low[i] <= n \div d /\ n \div d <= high[i]
      BY <3>1, QuotientBounds
    <3>4. QED
      BY <3>2, <3>3
  <2>4. QED
    BY <2>3
<1>6. /\ whole \in [S -> Int] /\ part \in [S -> Int]
      /\ whole = [i \in S |-> whole[i]] /\ part = [i \in S |-> part[i]]
  <2>1. whole = [i \in S |-> whole[i]] /\ part = [i \in S |-> part[i]]
    OBVIOUS
  <2> HIDE DEF whole, part
  <2>2. QED
    BY <1>5, <2>1
<1>7. /\ up = [i \in S |-> high[i] - whole[i]] /\ down = [i \in S |-> whole[i] - low[i]]
      /\ plan = [i \in S |-> whole[i] + more[i] - less[i]]
  OBVIOUS
<1>8. \A i \in S : /\ before[i] = {j \in S : First(part, j, i)}
                   /\ after[i] = {j \in S : First(whole, j, i)}
  OBVIOUS
<1> HIDE DEF clipped, real, whole, part
<1>9. /\ more = [i \in S |-> Clamp(missing - Over(up, before[i]), 0, up[i])]
      /\ less = [i \in S |-> Clamp(excess - Over(down, after[i]), 0, down[i])]
  <2>1. DOMAIN up = S /\ DOMAIN down = S
    OBVIOUS
  <2>2. /\ more = [i \in S |-> Clamp(missing - Over(up, {j \in S : First(part, j, i)}), 0, up[i])]
        /\ less = [i \in S |-> Clamp(excess - Over(down, {j \in S : First(whole, j, i)}), 0, down[i])]
    <3> HIDE DEF up, down, missing, excess
    <3>1. QED
      BY <2>1 DEF Share, Over
  <2> HIDE DEF up, down, more, less, missing, excess
  <2>3. QED
    BY <2>2
<1>10. up \in [S -> Nat] /\ down \in [S -> Nat]
  <2> HIDE DEF up, down
  <2>1. QED
    BY <1>3, <1>5, <1>7
<1>11. Order(S, before) /\ Order(S, after)
  <2>1. ASSUME NEW key \in [S -> Int],
               NEW earlier, earlier = [i \in S |-> {j \in S : First(key, j, i)}]
        PROVE  Order(S, earlier)
    <3> DEFINE neg == [i \in S |-> -key[i]]
    <3>1. ByKey(S, neg, rank, earlier)
      BY <2>1 DEF ByKey
    <3>2. QED
      BY <3>1, KeyOrder
  <2>2. before = [i \in S |-> {j \in S : First(part, j, i)}]
        /\ after = [i \in S |-> {j \in S : First(whole, j, i)}]
    OBVIOUS
  <2> HIDE DEF before, after, First
  <2>3. QED
    BY <1>6, <2>1, <2>2
<1>12. missing \in Int /\ Total(whole) \in Int /\ Total(whole) = Over(whole, S)
  <2>1. Total(whole) = Over(whole, S) /\ DOMAIN whole = S
    BY <1>6, OverAll
  <2>2. Over(whole, S) \in Int
    BY <1>5, <2>1, OverType
  <2>3. QED
    BY <2>1, <2>2
<1>13. Balances(S, whole, target, up, down, plan)
  <2>1. excess \in Int
    BY <1>12
  <2> HIDE DEF up, down, more, less, before, after, missing, excess, plan
  <2>2. Shared(S, before, up, missing, more) /\ Shared(S, after, down, excess, less)
    BY <1>9, <1>10, <1>11, <1>12, <2>1 DEF Shared
  <2>3. missing = target - Total(whole) /\ excess = -missing
    BY DEF missing, excess
  <2>4. /\ Shared(S, before, up, target - Total(whole), more)
        /\ Shared(S, after, down, -(target - Total(whole)), less)
    BY <2>2, <2>3
  <2>5. plan = [i \in S |-> whole[i] + more[i] - less[i]]
    BY <1>7
  <2>6. \E b, a, m, l :
            /\ Shared(S, b, up, target - Total(whole), m)
            /\ Shared(S, a, down, -(target - Total(whole)), l)
            /\ plan = [i \in S |-> whole[i] + m[i] - l[i]]
    BY <2>4, <2>5
  <2>7. QED
    BY <1>6, <1>10, <2>6 DEF Balances
<1> HIDE DEF plan, up, down, more, less
<1>14. /\ plan \in [S -> Int]
       /\ \A i \in S : whole[i] - down[i] <= plan[i] /\ plan[i] <= whole[i] + up[i]
       /\ Total(plan) = target
            <=> target \in Total(whole) - Total(down)..Total(whole) + Total(up)
  BY <1>13, Balanced
<1>15. \A i \in S : low[i] <= plan[i] /\ plan[i] <= high[i]
  BY <1>3, <1>5, <1>7, <1>14
<1>16. /\ Over(high, S) = Over(whole, S) + Over(up, S)
       /\ Over(whole, S) = Over(low, S) + Over(down, S)
  <2>1. /\ S \subseteq DOMAIN up /\ S \subseteq DOMAIN down /\ S \subseteq DOMAIN whole
        /\ S \subseteq DOMAIN low /\ S \subseteq DOMAIN high
    BY <1>6, <1>10
  <2>2. \A i \in S : /\ up[i] \in Int /\ down[i] \in Int /\ low[i] \in Int /\ high[i] \in Int
                     /\ high[i] = whole[i] + up[i] /\ whole[i] = low[i] + down[i]
    BY <1>3, <1>5, <1>7
  <2>3. Over(high, S) = Over(whole, S) + Over(up, S)
    BY <1>5, <2>1, <2>2, OverPlus
  <2>4. Over(whole, S) = Over(low, S) + Over(down, S)
    BY <1>5, <2>1, <2>2, OverPlus
  <2>5. QED
    BY <2>3, <2>4
<1>17. /\ Total(up) = Over(up, S) /\ Total(down) = Over(down, S)
       /\ Total(low) = Over(low, S) /\ Total(high) = Over(high, S)
  BY <1>10, OverAll
<1>18. Over(up, S) \in Int /\ Over(down, S) \in Int /\ Over(low, S) \in Int /\ Over(high, S) \in Int
  <2>1. /\ S \subseteq DOMAIN up /\ S \subseteq DOMAIN down
        /\ S \subseteq DOMAIN low /\ S \subseteq DOMAIN high
        /\ \A i \in S : up[i] \in Int /\ down[i] \in Int /\ low[i] \in Int /\ high[i] \in Int
    BY <1>10
  <2>2. QED
    BY <2>1, OverType
<1>19. target \in Total(whole) - Total(down)..Total(whole) + Total(up)
  <2>1. Over(low, S) <= target /\ target <= Over(high, S)
    BY <1>17
  <2>2. Over(low, S) = Total(whole) - Over(down, S)
    BY <1>12, <1>16, <1>18
  <2>3. Over(high, S) = Total(whole) + Over(up, S)
    BY <1>12, <1>16
  <2>4. QED
    BY <1>12, <1>17, <1>18, <2>1, <2>2, <2>3
<1>20. QED
  BY <1>14, <1>15, <1>19
=============================================================================
