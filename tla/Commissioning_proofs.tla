------------------------- MODULE Commissioning_proofs -------------------------
(***************************************************************************)
(* Theorems about Commissioning, for every area, trained network, manual   *)
(* config and request.                                                     *)
(***************************************************************************)
EXTENDS Commissioning, FiniteSetTheorems, TLAPS

-----------------------------------------------------------------------------
(***************************************************************************)
(* Places in a finite order.  The program numbers stages, crosses and      *)
(* links by sorting them: the place of an element is the number of those   *)
(* before it.                                                              *)
(***************************************************************************)
StrictOrder(R, S) ==
    \A x, y, z \in S :
        /\ <<x, x>> \notin R
        /\ <<x, y>> \in R /\ <<y, z>> \in R => <<x, z>> \in R
        /\ x # y => <<x, y>> \in R \/ <<y, x>> \in R

Below(R, S, x) == {y \in S : <<y, x>> \in R}

Place(R, S, x) == Cardinality(Below(R, S, x))

LEMMA PlaceInRange ==
    ASSUME NEW R, NEW S, IsFiniteSet(S), StrictOrder(R, S), NEW x \in S
    PROVE  Place(R, S, x) \in 0..(Cardinality(S) - 1)
<1>1. Below(R, S, x) \in SUBSET S /\ Below(R, S, x) # S
  BY DEF Below, StrictOrder
<1>2. /\ IsFiniteSet(Below(R, S, x))
      /\ Cardinality(Below(R, S, x)) <= Cardinality(S)
      /\ Cardinality(S) # Cardinality(Below(R, S, x))
  BY <1>1, FS_Subset
<1>3. Cardinality(Below(R, S, x)) \in Nat /\ Cardinality(S) \in Nat
  BY <1>2, FS_CardinalityType
<1>4. QED
  BY <1>2, <1>3 DEF Place

LEMMA PlaceMonotone ==
    ASSUME NEW R, NEW S, IsFiniteSet(S), StrictOrder(R, S), NEW x \in S, NEW y \in S,
           <<x, y>> \in R
    PROVE  Place(R, S, x) < Place(R, S, y)
<1>1. /\ Below(R, S, x) \in SUBSET Below(R, S, y)
      /\ x \in Below(R, S, y) /\ x \notin Below(R, S, x)
  BY DEF Below, StrictOrder
<1>2. IsFiniteSet(Below(R, S, y))
  <2>1. Below(R, S, y) \in SUBSET S
    BY DEF Below
  <2>2. QED
    BY <2>1, FS_Subset
<1>3. /\ IsFiniteSet(Below(R, S, x))
      /\ Cardinality(Below(R, S, x)) <= Cardinality(Below(R, S, y))
      /\ Cardinality(Below(R, S, y)) # Cardinality(Below(R, S, x))
  <2>1. Below(R, S, x) # Below(R, S, y)
    BY <1>1
  <2>2. QED
    BY <1>1, <1>2, <2>1, FS_Subset
<1>4. Cardinality(Below(R, S, x)) \in Nat /\ Cardinality(Below(R, S, y)) \in Nat
  BY <1>2, <1>3, FS_CardinalityType
<1>5. QED
  BY <1>3, <1>4 DEF Place

LEMMA PlaceInjective ==
    ASSUME NEW R, NEW S, IsFiniteSet(S), StrictOrder(R, S), NEW x \in S, NEW y \in S,
           Place(R, S, x) = Place(R, S, y)
    PROVE  x = y
<1>1. SUFFICES ASSUME x # y PROVE FALSE
  OBVIOUS
<1>2. Place(R, S, x) \in Int /\ Place(R, S, y) \in Int
  <2>1. Place(R, S, x) \in 0..(Cardinality(S) - 1) /\ Place(R, S, y) \in 0..(Cardinality(S) - 1)
    BY PlaceInRange
  <2>2. QED
    BY <2>1
<1>3. <<x, y>> \in R \/ <<y, x>> \in R
  BY <1>1 DEF StrictOrder
<1>4. Place(R, S, x) < Place(R, S, y) \/ Place(R, S, y) < Place(R, S, x)
  BY <1>3, PlaceMonotone
<1>5. QED
  BY <1>2, <1>4

\* Every place is taken.
LEMMA PlaceTaken ==
    ASSUME NEW R, NEW S, IsFiniteSet(S), StrictOrder(R, S),
           NEW k \in 0..(Cardinality(S) - 1)
    PROVE  \E x \in S : Place(R, S, x) = k
<1> DEFINE N == Cardinality(S)
           f == [x \in S |-> Place(R, S, x)]
<1>1. N \in Nat
  BY FS_CardinalityType
<1>2. IsFiniteSet(0..(N - 1)) /\ Cardinality(0..(N - 1)) = N
  BY <1>1, FS_Interval
<1>3. f \in Injection(S, 0..(N - 1))
  <2>1. f \in [S -> 0..(N - 1)]
    BY PlaceInRange
  <2>2. \A x, y \in S : f[x] = f[y] => x = y
    BY PlaceInjective
  <2>3. QED
    BY <2>1, <2>2 DEF Injection, IsInjective
<1>4. f \in Surjection(S, 0..(N - 1))
  <2> HIDE DEF f
  <2>1. QED
    BY <1>2, <1>3, FS_Injection
<1>5. QED
  BY <1>4 DEF Surjection

LEMMA HasLeast ==
    ASSUME NEW R, NEW S, IsFiniteSet(S), StrictOrder(R, S), S # {}
    PROVE  \E x \in S : \A y \in S : y # x => <<x, y>> \in R
<1>1. Cardinality(S) \in Nat /\ Cardinality(S) # 0
  BY FS_CardinalityType, FS_EmptySet
<1>2. PICK x \in S : Place(R, S, x) = 0
  <2>1. 0 \in 0..(Cardinality(S) - 1)
    BY <1>1
  <2>2. QED
    BY <2>1, PlaceTaken
<1>3. Below(R, S, x) = {}
  <2>1. Below(R, S, x) \in SUBSET S
    BY DEF Below
  <2>2. IsFiniteSet(Below(R, S, x))
    BY <2>1, FS_Subset
  <2>3. QED
    BY <1>2, <2>2, FS_EmptySet DEF Place
<1>4. QED
  BY <1>3 DEF Below, StrictOrder

\* A set of integers is ordered by their size.
LEMMA LeastInteger ==
    ASSUME NEW S, IsFiniteSet(S), \A i \in S : i \in Int, S # {}
    PROVE  \E i \in S : \A j \in S : i <= j
<1>1. PICK R : \A i, j \in S : <<i, j>> \in R <=> i < j
  <2> DEFINE R == {p \in S \X S : p[1] < p[2]}
  <2>1. \A i, j \in S : <<i, j>> \in R <=> i < j
    OBVIOUS
  <2>2. QED
    BY <2>1
<1>2. \A i \in S : i \in Int
  OBVIOUS
<1>3. StrictOrder(R, S)
  <2> SUFFICES ASSUME NEW x \in S, NEW y \in S, NEW z \in S
               PROVE  /\ <<x, x>> \notin R
                      /\ <<x, y>> \in R /\ <<y, z>> \in R => <<x, z>> \in R
                      /\ x # y => <<x, y>> \in R \/ <<y, x>> \in R
    BY DEF StrictOrder
  <2>1. x \in Int /\ y \in Int /\ z \in Int
    BY <1>2
  <2>2. QED
    BY <1>1, <2>1
<1>4. PICK i \in S : \A j \in S : j # i => <<i, j>> \in R
  BY <1>3, HasLeast
<1>5. QED
  <2> SUFFICES ASSUME NEW j \in S PROVE i <= j
    OBVIOUS
  <2>1. i \in Int /\ j \in Int
    BY <1>2
  <2>2. j # i => i < j
    BY <1>1, <1>4, Zenon
  <2>3. QED
    BY <2>1, <2>2

-----------------------------------------------------------------------------
(***************************************************************************)
(* What is compiled from a snapshot.                                       *)
(***************************************************************************)

\* Stages are numbered by order_number, equal ones by id.
LEMMA StagesOrdered ==
    ASSUME NEW s \in Payloads, NEW y
    PROVE  /\ IsFiniteSet(StagesOf(s, y))
           /\ \E R : /\ StrictOrder(R, StagesOf(s, y))
                     /\ \A t \in StagesOf(s, y) : Ordinal(s, t) = Place(R, StagesOf(s, y), t)
<1> DEFINE S == StagesOf(s, y)
           R == {p \in S \X S : Before(s, p[1], p[2])}
<1>1. S \subseteq DOMAIN s.stages
  BY DEF StagesOf
<1>2. IsFiniteSet(S)
  BY <1>1, PayloadsAssumption, FS_Subset
<1>3. \A t \in S : s.stages[t].order \in Int /\ t \in Int
  BY <1>1, PayloadsAssumption
<1>4. \A t, u \in S : <<t, u>> \in R <=> Before(s, t, u)
  OBVIOUS
<1>5. \A t \in S : Ordinal(s, t) = Place(R, S, t)
  <2> TAKE t \in S
  <2>1. s.stages[t].cycle = y
    BY DEF StagesOf
  <2>2. {u \in S : Before(s, u, t)} = Below(R, S, t)
    BY <1>4 DEF Below
  <2>3. QED
    BY <2>1, <2>2 DEF Ordinal, Place
<1>6. StrictOrder(R, S)
  <2> HIDE DEF R, S
  <2> SUFFICES ASSUME NEW x \in S, NEW z \in S, NEW v \in S
               PROVE  /\ <<x, x>> \notin R
                      /\ <<x, z>> \in R /\ <<z, v>> \in R => <<x, v>> \in R
                      /\ x # z => <<x, z>> \in R \/ <<z, x>> \in R
    BY DEF StrictOrder
  <2>1. QED
    BY <1>3, <1>4 DEF Before
<1>7. QED
  BY <1>2, <1>5, <1>6

LEMMA OrdinalFacts ==
    ASSUME NEW s \in Payloads, NEW y
    PROVE  LET S == StagesOf(s, y) IN
           /\ IsFiniteSet(S) /\ Cardinality(S) \in Nat
           /\ \A t \in S : Ordinal(s, t) \in 0..(Cardinality(S) - 1)
           /\ \A t, u \in S : Ordinal(s, t) = Ordinal(s, u) => t = u
           /\ \A k \in 0..(Cardinality(S) - 1) : \E t \in S : Ordinal(s, t) = k
<1> DEFINE S == StagesOf(s, y)
<1>1. IsFiniteSet(S)
  BY StagesOrdered
<1>2. PICK R : /\ StrictOrder(R, S)
               /\ \A t \in S : Ordinal(s, t) = Place(R, S, t)
  BY StagesOrdered
<1>3. Cardinality(S) \in Nat
  BY <1>1, FS_CardinalityType
<1> HIDE DEF S
<1>4. \A t \in S : Ordinal(s, t) \in 0..(Cardinality(S) - 1)
  BY <1>1, <1>2, PlaceInRange
<1>5. \A t, u \in S : Ordinal(s, t) = Ordinal(s, u) => t = u
  BY <1>1, <1>2, PlaceInjective
<1>6. \A k \in 0..(Cardinality(S) - 1) : \E t \in S : Ordinal(s, t) = k
  <2> TAKE k \in 0..(Cardinality(S) - 1)
  <2>1. \E t \in S : Place(R, S, t) = k
    BY <1>1, <1>2, PlaceTaken
  <2>2. QED
    BY <1>2, <2>1
<1>7. QED
  BY <1>1, <1>3, <1>4, <1>5, <1>6 DEF S

\* stages holds the active stages of a cycle, each at its place.
LEMMA StageOrderFacts ==
    ASSUME NEW s \in Payloads, NEW y
    PROVE  LET S == StagesOf(s, y)
               q == StageOrder(s, y)
           IN  /\ DOMAIN q = 1..Cardinality(S) /\ Cardinality(S) \in Nat
               /\ \A k \in DOMAIN q : q[k] \in S /\ Ordinal(s, q[k]) = k - 1
               /\ \A t \in S : Ordinal(s, t) + 1 \in DOMAIN q /\ q[Ordinal(s, t) + 1] = t
               /\ \A k, l \in DOMAIN q : q[k] = q[l] => k = l
               /\ Len(q) = Cardinality(S)
<1> DEFINE S == StagesOf(s, y)
           N == Cardinality(S)
           q == StageOrder(s, y)
<1>1. /\ N \in Nat
      /\ \A t \in S : Ordinal(s, t) \in 0..(N - 1)
      /\ \A t, u \in S : Ordinal(s, t) = Ordinal(s, u) => t = u
      /\ \A k \in 0..(N - 1) : \E t \in S : Ordinal(s, t) = k
  BY OrdinalFacts
<1>2. q = [k \in 1..N |-> CHOOSE t \in S : Ordinal(s, t) = k - 1]
  BY DEF StageOrder
<1> HIDE DEF S, N, q
<1>3. DOMAIN q = 1..N
  BY <1>2
<1>4. \A k \in 1..N : q[k] \in S /\ Ordinal(s, q[k]) = k - 1
  <2> TAKE k \in 1..N
  <2>1. k - 1 \in 0..(N - 1)
    BY <1>1
  <2>2. \E t \in S : Ordinal(s, t) = k - 1
    BY <1>1, <2>1
  <2>3. q[k] = CHOOSE t \in S : Ordinal(s, t) = k - 1
    BY <1>2
  <2>4. QED
    BY <2>2, <2>3
<1>5. \A t \in S : Ordinal(s, t) + 1 \in 1..N /\ q[Ordinal(s, t) + 1] = t
  <2> TAKE t \in S
  <2> DEFINE k == Ordinal(s, t) + 1
  <2>1. k \in 1..N /\ k - 1 = Ordinal(s, t)
    BY <1>1
  <2> HIDE DEF k
  <2>2. q[k] \in S /\ Ordinal(s, q[k]) = Ordinal(s, t)
    BY <1>4, <2>1
  <2>3. q[k] = t
    BY <1>1, <2>2
  <2>4. QED
    BY <2>1, <2>3 DEF k
<1>6. \A k, l \in 1..N : q[k] = q[l] => k = l
  <2> SUFFICES ASSUME NEW k \in 1..N, NEW l \in 1..N, q[k] = q[l] PROVE k = l
    OBVIOUS
  <2>1. k - 1 = l - 1
    BY <1>4
  <2>2. QED
    BY <1>1, <2>1
<1>7. Len(q) = N
  <2>1. q \in [1..N -> {q[k] : k \in 1..N}]
    BY <1>2, <1>3
  <2>2. QED
    BY <1>1, <1>3, <2>1
<1>8. QED
  BY <1>1, <1>3, <1>4, <1>5, <1>6, <1>7 DEF S, N, q

-----------------------------------------------------------------------------
(***************************************************************************)
(* Which road an approach is bound to.                                     *)
(***************************************************************************)
LEMMA TouchingFinite ==
    ASSUME NEW s \in Payloads, NEW c
    PROVE  /\ IsFiniteSet(Touching(s, c)) /\ \A i \in Touching(s, c) : i \in Int
           /\ Touching(s, c) \subseteq DOMAIN s.roads
<1>1. Touching(s, c) \in SUBSET (DOMAIN s.roads)
  BY DEF Touching, Roads
<1>2. IsFiniteSet(DOMAIN s.roads) /\ DOMAIN s.roads \subseteq Int
  BY PayloadsAssumption
<1>3. IsFiniteSet(Touching(s, c))
  BY <1>1, <1>2, FS_Subset
<1>4. QED
  BY <1>1, <1>2, <1>3

\* A road is a candidate for a direction just if it leads to the cross from there.
LEMMA CandidatesLead ==
    ASSUME NEW s, NEW c \in Crosses(s), NEW d
    PROVE  \A i : i \in Candidates(s, c, d) <=> i \in DOMAIN s.roads /\ LeadsTo(s, i, c, d)
BY DEF Candidates, Touching, Roads, LeadsTo

LEMMA OffIsInt ==
    ASSUME NEW s \in Payloads, NEW c \in Crosses(s), NEW d \in Directions,
           NEW i \in Candidates(s, c, d)
    PROVE  Off(s, i, c, d) \in Int
<1> DEFINE b == Bearing(s, i, c)
<1>1. i \in DOMAIN s.roads /\ c \in Ends(s.roads[i]) \cap Crosses(s) /\ b # None
  BY DEF Candidates, Touching, Roads
<1>2. s.roads[i].angle[c] \in Int \cup {None}
  BY <1>1, PayloadsAssumption
<1>3. \A e \in Directions : Ideal[e] \in Int
  BY DEF Ideal, Directions
<1>4. \A k \in DOMAIN Encoding(s) : Encoding(s)[k] \in Directions
  BY DEF Encoding, FourDir, EightDir, Directions
<1>5. b \in Int
  <2>1. CASE s.roads[i].angle[c] # None
    BY <1>2, <2>1 DEF Bearing
  <2>2. CASE s.roads[i].angle[c] = None
    <3> DEFINE k == Code(s.roads[i], c)
    <3>1. k \in DOMAIN Encoding(s) /\ b = Ideal[Encoding(s)[k]]
      BY <1>1, <2>2 DEF Bearing
    <3> HIDE DEF k, b
    <3>2. Encoding(s)[k] \in Directions
      BY <1>4, <3>1
    <3>3. QED
      BY <1>3, <3>1, <3>2
  <2>3. QED
    BY <2>1, <2>2
<1>6. Ideal[d] \in Int
  BY <1>3
<1> HIDE DEF b
<1>7. \A x, z \in Int : Delta(x, z) \in Int
  BY DEF Delta
<1>8. QED
  BY <1>5, <1>6, <1>7 DEF Off, b

LEMMA OneIsChosen ==
    ASSUME NEW s \in Payloads, NEW c \in Crosses(s), NEW d \in Directions,
           Candidates(s, c, d) # {}
    PROVE  \E i : Chosen(s, i, c, d)
<1> DEFINE S == Candidates(s, c, d)
           off(i) == Off(s, i, c, d)
<1>1. PICK R : \A i, j \in S : <<i, j>> \in R <=> off(i) < off(j) \/ (off(i) = off(j) /\ i < j)
  <2> DEFINE R == {p \in S \X S : \/ off(p[1]) < off(p[2])
                                  \/ off(p[1]) = off(p[2]) /\ p[1] < p[2]}
  <2>1. \A i, j \in S : <<i, j>> \in R <=> off(i) < off(j) \/ (off(i) = off(j) /\ i < j)
    BY Zenon
  <2>2. QED
    BY <2>1
<1>2. IsFiniteSet(S) /\ \A i \in S : i \in Int
  <2>1. S \in SUBSET Touching(s, c)
    BY DEF Candidates
  <2>2. QED
    BY <2>1, TouchingFinite, FS_Subset
<1>3. \A i \in S : off(i) \in Int
  BY OffIsInt
<1> HIDE DEF off, S
<1>4. StrictOrder(R, S)
  <2> SUFFICES ASSUME NEW x \in S, NEW y \in S, NEW z \in S
               PROVE  /\ <<x, x>> \notin R
                      /\ <<x, y>> \in R /\ <<y, z>> \in R => <<x, z>> \in R
                      /\ x # y => <<x, y>> \in R \/ <<y, x>> \in R
    BY DEF StrictOrder
  <2>1. x \in Int /\ y \in Int /\ z \in Int /\ off(x) \in Int /\ off(y) \in Int /\ off(z) \in Int
    BY <1>2, <1>3
  <2>2. QED
    BY <1>1, <2>1
<1>5. S # {}
  BY DEF S
<1>6. PICK i \in S : \A j \in S : j # i => <<i, j>> \in R
  BY <1>2, <1>4, <1>5, HasLeast
<1>7. \A j \in S : off(i) < off(j) \/ (off(i) = off(j) /\ i <= j)
  <2> TAKE j \in S
  <2>1. i \in Int /\ j \in Int /\ off(i) \in Int /\ off(j) \in Int
    BY <1>2, <1>3
  <2>2. j # i => off(i) < off(j) \/ (off(i) = off(j) /\ i < j)
    BY <1>1, <1>6, Zenon
  <2>3. QED
    BY <2>1, <2>2
<1>8. QED
  BY <1>7 DEF Chosen, S, off

LEMMA ChosenIsUnique ==
    ASSUME NEW s \in Payloads, NEW c \in Crosses(s), NEW d \in Directions,
           NEW i, NEW j, Chosen(s, i, c, d), Chosen(s, j, c, d)
    PROVE  i = j
<1>1. i \in Candidates(s, c, d) /\ j \in Candidates(s, c, d)
  BY DEF Chosen
<1>2. i \in Int /\ j \in Int
  BY <1>1, TouchingFinite DEF Candidates
<1>3. Off(s, i, c, d) \in Int /\ Off(s, j, c, d) \in Int
  BY <1>1, OffIsInt
<1>4. QED
  BY <1>1, <1>2, <1>3 DEF Chosen

\* direction_map has at most one road for a direction, and has it just if one leads there.
LEMMA RoadsInFacts ==
    ASSUME NEW s \in Payloads, NEW c \in Crosses(s), NEW d \in Directions
    PROVE  LET S == RoadsIn(real_normalization(s).crosses[c], d) IN
           /\ \A i : i \in S <=> Chosen(s, i, c, d)
           /\ S # {} <=> \E i \in DOMAIN s.roads : LeadsTo(s, i, c, d)
           /\ S # {} => Chosen(s, CHOOSE i \in S : \A j \in S : i <= j, c, d)
<1> DEFINE S == RoadsIn(real_normalization(s).crosses[c], d)
           m == direction_map(s, c)
<1>1. S = {i \in DOMAIN m : m[i] = d}
  BY DEF RoadsIn, real_normalization
<1>2. \A i, e : Chosen(s, i, c, e) => i \in Touching(s, c) /\ Compass(Bearing(s, i, c)) = e
  BY DEF Chosen, Candidates
<1>3. m = [i \in {j \in Touching(s, c) : \E e \in Directions : Chosen(s, j, c, e)} |->
              Compass(Bearing(s, i, c))]
  BY DEF direction_map
<1> HIDE DEF S, m
<1>4. \A i : i \in S <=> Chosen(s, i, c, d)
  <2>1. DOMAIN m = {j \in Touching(s, c) : \E e \in Directions : Chosen(s, j, c, e)}
    BY <1>3
  <2>2. \A i \in DOMAIN m : m[i] = Compass(Bearing(s, i, c))
    BY <1>3
  <2>3. ASSUME NEW i, i \in S PROVE Chosen(s, i, c, d)
    <3>1. i \in DOMAIN m /\ m[i] = d
      BY <1>1, <2>3
    <3>2. PICK e \in Directions : Chosen(s, i, c, e)
      BY <2>1, <3>1
    <3>3. e = d
      BY <1>2, <2>2, <3>1, <3>2
    <3>4. QED
      BY <3>2, <3>3
  <2>4. ASSUME NEW i, Chosen(s, i, c, d) PROVE i \in S
    <3>1. i \in DOMAIN m
      BY <1>2, <2>1, <2>4
    <3>2. m[i] = d
      BY <1>2, <2>2, <2>4, <3>1
    <3>3. QED
      BY <1>1, <3>1, <3>2
  <2>5. QED
    BY <2>3, <2>4
<1>5. S # {} <=> \E i \in DOMAIN s.roads : LeadsTo(s, i, c, d)
  <2>1. S # {} => Candidates(s, c, d) # {}
    BY <1>4 DEF Chosen
  <2>2. Candidates(s, c, d) # {} => S # {}
    BY <1>4, OneIsChosen
  <2>3. Candidates(s, c, d) # {} <=> \E i \in DOMAIN s.roads : LeadsTo(s, i, c, d)
    BY CandidatesLead
  <2>4. QED
    BY <2>1, <2>2, <2>3
<1>6. ASSUME S # {} PROVE Chosen(s, CHOOSE i \in S : \A j \in S : i <= j, c, d)
  <2>1. PICK i : i \in S
    BY <1>6
  <2>2. \A j \in S : j = i
    BY <1>4, <2>1, ChosenIsUnique
  <2>3. i <= i
    <3>1. i \in Int
      BY <1>2, <1>4, <2>1, TouchingFinite
    <3>2. QED
      BY <3>1
  <2>4. (CHOOSE k \in S : \A j \in S : k <= j) \in S
    BY <2>1, <2>2, <2>3
  <2>5. QED
    BY <1>4, <2>4
<1>7. QED
  BY <1>4, <1>5, <1>6 DEF S

-----------------------------------------------------------------------------
(***************************************************************************)
(* What a composition makes of a trained network n and a snapshot s.       *)
(***************************************************************************)
Composed(n, s) ==
    /\ n \in Networks /\ s \in Payloads
    /\ Crosses(s) # {}
    /\ Composable(n, real_normalization(s), Production)

Mapping(n, s) == deployment_map(n, real_normalization(s))

\* Entry x of the deployment map: cross c, its roads, its programme.
LEMMA EntryFacts ==
    ASSUME NEW n \in Networks, NEW s \in Payloads,
           NEW x \in Elements(n.ids), x \notin CrossErrors(n, real_normalization(s))
    PROVE  LET e   == Mapping(n, s)[x]
               sim == n.cross[x]
           IN  /\ x \in DOMAIN n.cross
               /\ e.real \in Crosses(s) /\ e.real = sim_to_real(n, real_normalization(s))[x]
               /\ DOMAIN e.roads = sim.edges /\ sim.edges \subseteq Directions
               /\ \A d \in DOMAIN e.roads : Chosen(s, e.roads[d], e.real, d)
               /\ e.cycle = primary_cycle_id(s, e.real) /\ e.cycle \in CyclesOf(s, e.real)
               /\ DOMAIN e.phases = DOMAIN sim.phases
               /\ DOMAIN e.phases = DOMAIN StageOrder(s, e.cycle)
               /\ sim.phases # << >>
               /\ \A k \in DOMAIN e.phases :
                     /\ e.phases[k].phase = IF sim.phases[k] # None THEN sim.phases[k] ELSE k - 1
                     /\ e.phases[k].stage = StageOrder(s, e.cycle)[k]
                     /\ e.phases[k].std = IF k - 1 \in DOMAIN sim.std THEN sim.std[k - 1]
                                          ELSE IF k - 1 < NumPhases THEN k - 1 ELSE NumPhases - 1
<1> DEFINE r    == real_normalization(s)
           to   == sim_to_real(n, r)
           c    == to[x]
           e    == Mapping(n, s)[x]
           sim  == n.cross[x]
           real == r.crosses[c]
<1>1. c = to[x]
  OBVIOUS
<1>2. x \in Elements(n.ids) /\ x \notin CrossErrors(n, r)
  OBVIOUS
<1>3. n \in Networks /\ s \in Payloads
  OBVIOUS
<1>4. x \in DOMAIN n.cross
  BY NetworksAssumption
<1>5. x \in DOMAIN to /\ c \in DOMAIN r.crosses /\ ~Incompatible(sim, real)
  BY <1>2 DEF CrossErrors
<1>6. DOMAIN r.crosses = Crosses(s)
  BY DEF real_normalization
<1>7. /\ e.real = c
      /\ e.roads = roads_by_direction(sim, real)
      /\ e.cycle = real.primary
      /\ e.phases = phase_to_stage(sim, real)
  BY <1>2 DEF Mapping, deployment_map
<1>8. c \in Crosses(s)
  BY <1>5, <1>6
<1>9. /\ real.primary = primary_cycle_id(s, c)
      /\ real.cycles = [y \in CyclesOf(s, c) |-> cycle_cfg(s, y)]
  BY <1>8 DEF real_normalization
<1>10. /\ \A d \in sim.edges : RoadsIn(real, d) # {}
       /\ sim.phases # << >>
       /\ real.primary \in CyclesOf(s, c)
       /\ Len(Stages(real)) = Len(sim.phases)
  BY <1>5, <1>9 DEF Incompatible
<1>11. sim.edges \subseteq Directions /\ sim.phases \in Seq(Elements(sim.phases))
  BY <1>3, <1>4, NetworksAssumption
<1>12. Stages(real) = StageOrder(s, real.primary)
  BY <1>9, <1>10 DEF Stages, cycle_cfg
<1>13. e.roads = [d \in sim.edges |-> CHOOSE i \in RoadsIn(real, d) :
                                          \A j \in RoadsIn(real, d) : i <= j]
  BY <1>7 DEF roads_by_direction
<1>14. ASSUME NEW d \in sim.edges PROVE Chosen(s, e.roads[d], c, d)
  <2>1. d \in Directions /\ RoadsIn(real, d) # {}
    BY <1>10, <1>11
  <2>2. Chosen(s, CHOOSE i \in RoadsIn(real, d) : \A j \in RoadsIn(real, d) : i <= j, c, d)
    BY <1>3, <1>8, <2>1, RoadsInFacts
  <2>3. e.roads[d] = CHOOSE i \in RoadsIn(real, d) : \A j \in RoadsIn(real, d) : i <= j
    BY <1>13
  <2>4. QED
    BY <2>2, <2>3
<1>15. DOMAIN sim.phases = 1..Len(sim.phases)
  BY <1>11
<1>16. /\ DOMAIN StageOrder(s, real.primary) = 1..Cardinality(StagesOf(s, real.primary))
       /\ Len(StageOrder(s, real.primary)) = Cardinality(StagesOf(s, real.primary))
  BY <1>3, StageOrderFacts
<1>17. DOMAIN sim.phases = DOMAIN StageOrder(s, real.primary)
  BY <1>10, <1>12, <1>15, <1>16
<1>18. /\ DOMAIN e.phases = DOMAIN sim.phases
       /\ \A k \in DOMAIN sim.phases :
             /\ e.phases[k].phase = IF sim.phases[k] # None THEN sim.phases[k] ELSE k - 1
             /\ e.phases[k].stage = Stages(real)[k]
             /\ e.phases[k].std = IF k - 1 \in DOMAIN sim.std THEN sim.std[k - 1]
                                  ELSE IF k - 1 < NumPhases THEN k - 1 ELSE NumPhases - 1
  BY <1>7 DEF phase_to_stage
<1>19. DOMAIN e.roads = sim.edges
  BY <1>13
<1> HIDE DEF e, sim, real, c, to
<1>20. /\ x \in DOMAIN n.cross
       /\ e.real \in Crosses(s) /\ e.real = to[x]
       /\ DOMAIN e.roads = sim.edges /\ sim.edges \subseteq Directions
       /\ \A d \in DOMAIN e.roads : Chosen(s, e.roads[d], e.real, d)
  BY <1>1, <1>4, <1>7, <1>8, <1>11, <1>14, <1>19
<1>21. /\ e.cycle = primary_cycle_id(s, e.real) /\ e.cycle \in CyclesOf(s, e.real)
       /\ DOMAIN e.phases = DOMAIN sim.phases
       /\ DOMAIN e.phases = DOMAIN StageOrder(s, e.cycle)
       /\ sim.phases # << >>
  BY <1>7, <1>9, <1>10, <1>17, <1>18
<1>22. \A k \in DOMAIN e.phases :
          /\ e.phases[k].phase = IF sim.phases[k] # None THEN sim.phases[k] ELSE k - 1
          /\ e.phases[k].stage = StageOrder(s, e.cycle)[k]
          /\ e.phases[k].std = IF k - 1 \in DOMAIN sim.std THEN sim.std[k - 1]
                               ELSE IF k - 1 < NumPhases THEN k - 1 ELSE NumPhases - 1
  BY <1>7, <1>12, <1>18
<1>23. QED
  BY <1>20, <1>21, <1>22 DEF e, sim, to

LEMMA MappedCross ==
    ASSUME NEW n, NEW s, Composed(n, s), NEW x \in DOMAIN Mapping(n, s)
    PROVE  LET e   == Mapping(n, s)[x]
               sim == n.cross[x]
           IN  /\ x \in DOMAIN n.cross
               /\ e.real \in Crosses(s)
               /\ DOMAIN e.roads = sim.edges /\ sim.edges \subseteq Directions
               /\ \A d \in DOMAIN e.roads : Chosen(s, e.roads[d], e.real, d)
               /\ e.cycle = primary_cycle_id(s, e.real) /\ e.cycle \in CyclesOf(s, e.real)
               /\ DOMAIN e.phases = DOMAIN sim.phases
               /\ DOMAIN e.phases = DOMAIN StageOrder(s, e.cycle)
               /\ sim.phases # << >>
               /\ \A k \in DOMAIN e.phases :
                     /\ e.phases[k].stage = StageOrder(s, e.cycle)[k]
                     /\ e.phases[k].std = IF k - 1 \in DOMAIN sim.std THEN sim.std[k - 1]
                                          ELSE IF k - 1 < NumPhases THEN k - 1 ELSE NumPhases - 1
<1>1. DOMAIN Mapping(n, s) = Elements(n.ids)
  BY DEF Mapping, deployment_map
<1>2. x \in Elements(n.ids) /\ x \notin CrossErrors(n, real_normalization(s))
  BY <1>1 DEF Composed, Composable
<1>3. n \in Networks /\ s \in Payloads
  BY DEF Composed
<1>4. QED
  BY <1>2, <1>3, EntryFacts

\* The parts of the runtime bundle.
LEMMA BundleParts ==
    ASSUME NEW n, NEW s, Composed(n, s)
    PROVE  LET b == runtime_bundle(n, real_normalization(s))
               m == Mapping(n, s)
           IN  /\ b.map = m
               /\ DOMAIN b.cross = {m[x].real : x \in DOMAIN m}
               /\ DOMAIN b.network = {m[x].real : x \in DOMAIN m}
               /\ \A x \in DOMAIN m :
                     b.cross[m[x].real] =
                        cross_config(m[x], real_normalization(s).crosses[m[x].real].roads_static)
               /\ WellFormed(m)
<1> DEFINE b == runtime_bundle(n, real_normalization(s))
           m == Mapping(n, s)
           cfg(c) == cross_config(m[CHOOSE x \in DOMAIN m : m[x].real = c],
                                  real_normalization(s).crosses[c].roads_static)
<1>1. WellFormed(m)
  BY DEF Composed, Composable, Mapping
<1>2. /\ b.map = m
      /\ b.cross = [c \in {m[x].real : x \in DOMAIN m} |-> cfg(c)]
      /\ b.network = network_json(n, m)
  BY DEF runtime_bundle, Mapping
<1>3. DOMAIN network_json(n, m) = {m[x].real : x \in DOMAIN m}
  BY DEF network_json
<1>4. ASSUME NEW x \in DOMAIN m
      PROVE  b.cross[m[x].real] =
                 cross_config(m[x], real_normalization(s).crosses[m[x].real].roads_static)
  <2> DEFINE z == CHOOSE z \in DOMAIN m : m[z].real = m[x].real
  <2>1. z \in DOMAIN m /\ m[z].real = m[x].real
    OBVIOUS
  <2>2. z = x
    <3> HIDE DEF z, m
    <3>1. Injective([w \in DOMAIN m |-> m[w].real])
      BY <1>1 DEF WellFormed
    <3>2. \A u, v \in DOMAIN m : m[u].real = m[v].real => u = v
      BY <3>1 DEF Injective
    <3>3. QED
      BY <2>1, <3>2
  <2>3. b.cross[m[x].real] = cfg(m[x].real)
    BY <1>2
  <2>4. cfg(m[x].real) = cross_config(m[z], real_normalization(s).crosses[m[x].real].roads_static)
    OBVIOUS
  <2> HIDE DEF z, cfg, b, m
  <2>5. QED
    BY <2>2, <2>3, <2>4
<1> HIDE DEF cfg
<1>5. QED
  BY <1>1, <1>2, <1>3, <1>4

-----------------------------------------------------------------------------
(***************************************************************************)
(* Types of what is compiled.                                              *)
(***************************************************************************)
LEMMA FirstLinkFacts ==
    ASSUME NEW s \in Payloads, NEW c
    PROVE  /\ \A n \in Linked(s, c) : FirstLink(s, c, n) \in Links(s, c, n)
           /\ \A n \in Linked(s, c) : FirstLink(s, c, n) \in Int
           /\ \A m, n \in Linked(s, c) : FirstLink(s, c, m) = FirstLink(s, c, n) => m = n
<1>1. ASSUME NEW n \in Linked(s, c) PROVE FirstLink(s, c, n) \in Links(s, c, n)
  <2> DEFINE S == Links(s, c, n)
  <2>1. S \in SUBSET (DOMAIN s.roads) /\ S # {}
    BY DEF Links, Roads, Linked
  <2>2. IsFiniteSet(DOMAIN s.roads) /\ DOMAIN s.roads \subseteq Int
    BY PayloadsAssumption
  <2>3. IsFiniteSet(S) /\ \A i \in S : i \in Int
    BY <2>1, <2>2, FS_Subset
  <2>4. FirstLink(s, c, n) = CHOOSE i \in S : \A j \in S : i <= j
    BY DEF FirstLink
  <2> HIDE DEF S
  <2>5. \E i \in S : \A j \in S : i <= j
    BY <2>1, <2>3, LeastInteger
  <2>6. FirstLink(s, c, n) \in S
    BY <2>4, <2>5
  <2>7. QED
    BY <2>6 DEF S
<1>2. ASSUME NEW n \in Linked(s, c) PROVE FirstLink(s, c, n) \in Int
  <2>1. DOMAIN s.roads \subseteq Int
    BY PayloadsAssumption
  <2>2. FirstLink(s, c, n) \in DOMAIN s.roads
    BY <1>1 DEF Links, Roads
  <2>3. QED
    BY <2>1, <2>2
<1>3. ASSUME NEW m \in Linked(s, c), NEW n \in Linked(s, c),
             FirstLink(s, c, m) = FirstLink(s, c, n)
      PROVE  m = n
  <2> DEFINE i == FirstLink(s, c, m)
  <2>1. i \in Links(s, c, m) /\ i \in Links(s, c, n)
    BY <1>1, <1>3
  <2> HIDE DEF i
  <2>2. c # m /\ c # n /\ {c, m} = {c, n}
    BY <2>1 DEF Links
  <2>3. QED
    BY <2>2
<1>4. QED
  BY <1>1, <1>2, <1>3

LEMMA FewNeighbors ==
    ASSUME NEW s \in Payloads, NEW c
    PROVE  Cardinality(DOMAIN neighbors(s, c)) <= MaxNeighbors
<1> DEFINE L == Linked(s, c)
           first(n) == FirstLink(s, c, n)
           D == DOMAIN neighbors(s, c)
<1>1. IsFiniteSet(L)
  <2>1. L \in SUBSET (DOMAIN s.area) /\ IsFiniteSet(DOMAIN s.area)
    BY PayloadsAssumption DEF Linked, Crosses
  <2>2. QED
    BY <2>1, FS_Subset
<1>2. /\ \A n \in L : first(n) \in Int
      /\ \A m, n \in L : first(m) = first(n) => m = n
  BY FirstLinkFacts
<1>3. D = {n \in L : Cardinality({m \in L : first(m) < first(n)}) < MaxNeighbors}
  BY DEF neighbors
<1> HIDE DEF L, first, D
<1>4. PICK R : \A m, n \in L : <<m, n>> \in R <=> first(m) < first(n)
  <2> DEFINE R == {p \in L \X L : first(p[1]) < first(p[2])}
  <2>1. \A m, n \in L : <<m, n>> \in R <=> first(m) < first(n)
    BY Zenon
  <2>2. QED
    BY <2>1
<1>5. StrictOrder(R, L)
  <2> SUFFICES ASSUME NEW x \in L, NEW y \in L, NEW z \in L
               PROVE  /\ <<x, x>> \notin R
                      /\ <<x, y>> \in R /\ <<y, z>> \in R => <<x, z>> \in R
                      /\ x # y => <<x, y>> \in R \/ <<y, x>> \in R
    BY DEF StrictOrder
  <2>1. first(x) \in Int /\ first(y) \in Int /\ first(z) \in Int
    BY <1>2
  <2>2. QED
    BY <1>2, <1>4, <2>1
<1>6. D = {n \in L : Place(R, L, n) < MaxNeighbors}
  <2>1. \A n \in L : {m \in L : first(m) < first(n)} = Below(R, L, n)
    BY <1>4 DEF Below
  <2>2. QED
    BY <1>3, <2>1 DEF Place
<1> DEFINE f == [n \in D |-> Place(R, L, n)]
<1>7. f \in Injection(D, 0..3)
  <2>1. ASSUME NEW n \in D PROVE f[n] \in 0..3
    <3>1. n \in L /\ Place(R, L, n) < 4
      BY <1>6 DEF MaxNeighbors
    <3>2. Place(R, L, n) \in 0..(Cardinality(L) - 1)
      BY <1>1, <1>5, <3>1, PlaceInRange
    <3>3. QED
      BY <3>1, <3>2
  <2>2. \A m, n \in D : f[m] = f[n] => m = n
    BY <1>1, <1>5, <1>6, PlaceInjective
  <2>3. f \in [D -> 0..3]
    BY <2>1
  <2>4. DOMAIN f = D
    OBVIOUS
  <2> HIDE DEF f
  <2>5. QED
    BY <2>2, <2>3, <2>4 DEF Injection, IsInjective
<1>8. IsFiniteSet(0..3) /\ Cardinality(0..3) = 4
  <2>1. \A k \in Nat : IsFiniteSet(0..k) /\ Cardinality(0..k) = k + 1
    BY FS_Interval
  <2>2. IsFiniteSet(0..3) /\ Cardinality(0..3) = 3 + 1
    BY <2>1
  <2>3. QED
    BY <2>2
<1>9. Cardinality(D) <= 4
  <2> HIDE DEF f
  <2>1. QED
    BY <1>7, <1>8, FS_Injection
<1>10. QED
  BY <1>9 DEF MaxNeighbors, D

\* What is written for cross c of snapshot s.
FileOf(s, c) == real_cfg(real_normalization(s).crosses[c])

LEMMA FileFacts ==
    ASSUME NEW s \in Payloads, NEW c \in Crosses(s)
    PROVE  LET f == FileOf(s, c) IN
           /\ f.direction_map = direction_map(s, c)
           /\ f.roads_static = roads_static(s, c)
           /\ f.primary = primary_cycle_id(s, c)
           /\ f.std = [y \in CyclesOf(s, c) |->
                           [t \in StagesOf(s, y) |-> StandardPhase(s, t)]]
           /\ f.meta = [y \in CyclesOf(s, c) |-> cycle_cfg(s, y)]
           /\ f # None
<1> DEFINE x == real_normalization(s).crosses[c]
<1>1. /\ x.primary = primary_cycle_id(s, c)
      /\ x.direction_map = direction_map(s, c)
      /\ x.roads_static = roads_static(s, c)
      /\ x.cycles = [y \in CyclesOf(s, c) |-> cycle_cfg(s, y)]
  BY DEF real_normalization
<1>2. \A y \in CyclesOf(s, c) :
          cycle_cfg(s, y).std = [t \in StagesOf(s, y) |-> StandardPhase(s, t)]
  BY DEF cycle_cfg
<1>3. real_cfg(x) # None
  BY NoneAssumption
<1> HIDE DEF x
<1>4. real_cfg(x).std = [y \in CyclesOf(s, c) |->
                            [t \in StagesOf(s, y) |-> StandardPhase(s, t)]]
  BY <1>1, <1>2 DEF real_cfg
<1>5. /\ real_cfg(x).direction_map = direction_map(s, c)
      /\ real_cfg(x).roads_static = roads_static(s, c)
      /\ real_cfg(x).primary = primary_cycle_id(s, c)
      /\ real_cfg(x).meta = [y \in CyclesOf(s, c) |-> cycle_cfg(s, y)]
  BY <1>1 DEF real_cfg
<1>6. QED
  BY <1>3, <1>4, <1>5 DEF FileOf, x

LEMMA PhaseType ==
    ASSUME NEW s \in Payloads, NEW y, NEW t \in StagesOf(s, y)
    PROVE  StandardPhase(s, t) \in -1..(NumPhases - 1)
<1>1. Ordinal(s, t) \in 0..(Cardinality(StagesOf(s, y)) - 1) /\ Cardinality(StagesOf(s, y)) \in Nat
  BY OrdinalFacts
<1>2. QED
  BY <1>1 DEF StandardPhase, NumPhases

-----------------------------------------------------------------------------
(***************************************************************************)
(* The inductive invariant: what each part of the state was made from.     *)
(***************************************************************************)
StateInv ==
    /\ row \in Payloads \cup {None}
    /\ compiling \in BOOLEAN
    /\ compiling => row \in Payloads
    /\ DOMAIN legacy \subseteq DOMAIN Manual
    /\ syncs \in 0..MaxSyncs

\* Every file is the one of its cross in the snapshot it was compiled from, also after
\* later snapshots have dropped the cross.
FilesInv ==
    /\ DOMAIN files = DOMAIN origin
    /\ \A c \in DOMAIN origin :
          /\ origin[c] \in Payloads /\ c \in Crosses(origin[c])
          /\ files[c] = FileOf(origin[c], c)

GraphInv ==
    IF latest = None THEN graph = None
    ELSE /\ latest \in Payloads
         /\ graph = [c \in Crosses(latest) |-> neighbors(latest, c)]
         /\ \A c \in Crosses(latest) : c \in DOMAIN origin /\ origin[c] = latest

BundleInv ==
    IF built = None THEN bundle = None
    ELSE /\ Composed(built.net, built.of)
         /\ bundle = runtime_bundle(built.net, real_normalization(built.of))

Inv == StateInv /\ FilesInv /\ GraphInv /\ BundleInv

LEMMA UpdateFacts ==
    ASSUME NEW f, NEW g
    PROVE  /\ DOMAIN Update(f, g) = DOMAIN f \cup DOMAIN g
           /\ \A c \in DOMAIN g : Update(f, g)[c] = g[c]
           /\ \A c \in DOMAIN f \ DOMAIN g : Update(f, g)[c] = f[c]
BY DEF Update

LEMMA InvInit == Init => Inv
<1>1. DOMAIN Empty = {}
  BY DEF Empty
<1> SUFFICES ASSUME Init PROVE Inv
  OBVIOUS
<1>2. StateInv
  <2>1. syncs \in 0..MaxSyncs
    BY CommissioningAssumption DEF Init
  <2>2. legacy = Empty /\ DOMAIN legacy = {}
    BY <1>1 DEF Init
  <2>3. row = None /\ compiling = FALSE
    BY DEF Init
  <2>4. QED
    BY <2>1, <2>2, <2>3 DEF StateInv
<1>3. FilesInv
  BY <1>1 DEF Init, FilesInv
<1>4. GraphInv /\ BundleInv
  BY DEF Init, GraphInv, BundleInv
<1>5. QED
  BY <1>2, <1>3, <1>4 DEF Inv

\* What a compile of snapshot row leaves behind.
LEMMA CompileWrites ==
    ASSUME Compile, Crosses(row) # {}
    PROVE  /\ files' = Update(files, [c \in Crosses(row) |-> FileOf(row, c)])
           /\ graph' = [c \in Crosses(row) |-> neighbors(row, c)]
           /\ origin' = Update(origin, [c \in Crosses(row) |-> row])
           /\ latest' = row
<1>1. /\ \E r \in {real_normalization(row)} :
            /\ files' = Update(files, [c \in Crosses(row) |-> real_cfg(r.crosses[c])])
            /\ graph' = [c \in Crosses(row) |-> r.crosses[c].neighbors]
      /\ origin' = Update(origin, [c \in Crosses(row) |-> row])
      /\ latest' = row
  BY DEF Compile
<1>2. \A c \in Crosses(row) : real_normalization(row).crosses[c].neighbors = neighbors(row, c)
  BY DEF real_normalization
<1>3. graph' = [c \in Crosses(row) |-> real_normalization(row).crosses[c].neighbors]
  BY <1>1
<1>4. QED
  BY <1>1, <1>2, <1>3 DEF FileOf

LEMMA InvNext == Inv /\ [Next]_vars => Inv'
<1> SUFFICES ASSUME Inv, [Next]_vars PROVE Inv'
  OBVIOUS
<1> USE DEF Inv
<1>1. ASSUME NEW s \in Payloads, Sync(s) PROVE Inv'
  <2>1. StateInv'
    BY <1>1, CommissioningAssumption DEF Sync, StateInv
  <2>2. UNCHANGED <<files, graph, origin, latest, bundle, built>>
    BY <1>1 DEF Sync
  <2>3. QED
    BY <2>1, <2>2 DEF FilesInv, GraphInv, BundleInv
<1>2. ASSUME Compile PROVE Inv'
  <2>1. StateInv' /\ UNCHANGED <<bundle, built>>
    BY <1>2 DEF Compile, StateInv
  <2>2. CASE Crosses(row) = {}
    <3>1. UNCHANGED <<files, graph, origin, latest>>
      BY <1>2, <2>2 DEF Compile
    <3>2. QED
      BY <2>1, <3>1 DEF FilesInv, GraphInv, BundleInv
  <2>3. CASE Crosses(row) # {}
    <3> DEFINE new == [c \in Crosses(row) |-> FileOf(row, c)]
               from == [c \in Crosses(row) |-> row]
    <3>1. row \in Payloads /\ row # None
      BY <1>2, NoneAssumption DEF Compile, StateInv
    <3>2. /\ files' = Update(files, new)
          /\ graph' = [c \in Crosses(row) |-> neighbors(row, c)]
          /\ origin' = Update(origin, from)
          /\ latest' = row
      BY <1>2, <2>3, CompileWrites
    <3>3. /\ DOMAIN new = Crosses(row) /\ DOMAIN from = Crosses(row)
          /\ \A c \in Crosses(row) : new[c] = FileOf(row, c) /\ from[c] = row
      OBVIOUS
    <3> HIDE DEF new, from
    <3>4. /\ DOMAIN files' = DOMAIN files \cup Crosses(row)
          /\ \A c \in Crosses(row) : files'[c] = FileOf(row, c)
          /\ \A c \in DOMAIN files \ Crosses(row) : files'[c] = files[c]
      <4>1. /\ DOMAIN Update(files, new) = DOMAIN files \cup DOMAIN new
            /\ \A c \in DOMAIN new : Update(files, new)[c] = new[c]
            /\ \A c \in DOMAIN files \ DOMAIN new : Update(files, new)[c] = files[c]
        BY UpdateFacts
      <4>2. QED
        BY <3>2, <3>3, <4>1
    <3>5. /\ DOMAIN origin' = DOMAIN origin \cup Crosses(row)
          /\ \A c \in Crosses(row) : origin'[c] = row
          /\ \A c \in DOMAIN origin \ Crosses(row) : origin'[c] = origin[c]
      <4>1. /\ DOMAIN Update(origin, from) = DOMAIN origin \cup DOMAIN from
            /\ \A c \in DOMAIN from : Update(origin, from)[c] = from[c]
            /\ \A c \in DOMAIN origin \ DOMAIN from : Update(origin, from)[c] = origin[c]
        BY UpdateFacts
      <4>2. QED
        BY <3>2, <3>3, <4>1
    <3>6. FilesInv'
      <4>1. DOMAIN files' = DOMAIN origin'
        BY <3>4, <3>5 DEF FilesInv
      <4>2. ASSUME NEW c \in DOMAIN origin'
            PROVE  /\ origin'[c] \in Payloads /\ c \in Crosses(origin'[c])
                   /\ files'[c] = FileOf(origin'[c], c)
        <5>1. CASE c \in Crosses(row)
          BY <3>1, <3>4, <3>5, <5>1
        <5>2. CASE c \notin Crosses(row)
          BY <3>4, <3>5, <5>2 DEF FilesInv
        <5>3. QED
          BY <5>1, <5>2
      <4>3. QED
        BY <4>1, <4>2 DEF FilesInv
    <3>7. GraphInv'
      BY <3>1, <3>2, <3>5 DEF GraphInv
    <3>8. QED
      BY <2>1, <3>6, <3>7 DEF BundleInv
  <2>4. QED
    BY <2>2, <2>3
<1>3. ASSUME NotCompiled PROVE Inv'
  BY <1>3 DEF NotCompiled, StateInv, FilesInv, GraphInv, BundleInv
<1>4. ASSUME NEW c \in DOMAIN Manual, SaveConfig(c) PROVE Inv'
  <2>1. PICK d \in Manual[c] : legacy' = Update(legacy, [x \in {c} |-> legacy_cfg(d)])
    BY <1>4 DEF SaveConfig
  <2>2. DOMAIN legacy' = DOMAIN legacy \cup {c}
    BY <2>1, UpdateFacts
  <2>3. UNCHANGED <<row, compiling, files, graph, origin, latest, bundle, built, syncs>>
    BY <1>4 DEF SaveConfig
  <2>4. StateInv'
    BY <2>2, <2>3 DEF StateInv
  <2>5. QED
    BY <2>3, <2>4 DEF FilesInv, GraphInv, BundleInv
<1>5. ASSUME Compose PROVE Inv'
  <2>1. PICK n \in Networks :
           /\ Composable(n, real_normalization(row), Production)
           /\ bundle' = runtime_bundle(n, real_normalization(row))
           /\ built' = [net |-> n, of |-> row]
    BY <1>5 DEF Compose
  <2>2. /\ row # None /\ Crosses(row) # {}
        /\ UNCHANGED <<row, compiling, files, graph, origin, latest, legacy, syncs>>
    BY <1>5 DEF Compose
  <2>3. row \in Payloads
    BY <2>2 DEF StateInv
  <2>4. Composed(n, row)
    BY <2>1, <2>2, <2>3 DEF Composed
  <2>5. built' # None /\ built'.net = n /\ built'.of = row
    BY <2>1, <2>2, <2>3, NoneAssumption
  <2>6. BundleInv'
    BY <2>1, <2>4, <2>5 DEF BundleInv
  <2>7. QED
    BY <2>2, <2>6 DEF StateInv, FilesInv, GraphInv
<1>6. CASE UNCHANGED vars
  BY <1>6 DEF vars, StateInv, FilesInv, GraphInv, BundleInv
<1>7. QED
  BY <1>1, <1>2, <1>3, <1>4, <1>5, <1>6 DEF Next

LEMMA InvAlways == Spec => []Inv
BY InvInit, InvNext, PTL DEF Spec

-----------------------------------------------------------------------------
LEMMA TypeOKFromInv == Inv => TypeOK
<1> SUFFICES ASSUME Inv PROVE TypeOK
  OBVIOUS
<1> USE DEF Inv
<1>1. ASSUME NEW c \in DOMAIN files, NEW y \in DOMAIN files[c].std,
             NEW t \in DOMAIN files[c].std[y]
      PROVE  files[c].std[y][t] \in -1..(NumPhases - 1)
  <2> DEFINE s == origin[c]
  <2>1. s \in Payloads /\ c \in Crosses(s) /\ files[c] = FileOf(s, c)
    BY <1>1 DEF FilesInv
  <2> HIDE DEF s
  <2>2. files[c].std = [z \in CyclesOf(s, c) |-> [u \in StagesOf(s, z) |-> StandardPhase(s, u)]]
    BY <2>1, FileFacts
  <2>3. y \in CyclesOf(s, c) /\ files[c].std[y] = [u \in StagesOf(s, y) |-> StandardPhase(s, u)]
    BY <1>1, <2>2
  <2>4. t \in StagesOf(s, y) /\ files[c].std[y][t] = StandardPhase(s, t)
    BY <1>1, <2>3
  <2>5. QED
    BY <2>1, <2>4, PhaseType
<1>2. ASSUME graph # None
      PROVE  /\ DOMAIN graph \subseteq DOMAIN files
             /\ \A c \in DOMAIN graph : Cardinality(DOMAIN graph[c]) <= MaxNeighbors
  <2>1. /\ latest \in Payloads
        /\ graph = [c \in Crosses(latest) |-> neighbors(latest, c)]
        /\ \A c \in Crosses(latest) : c \in DOMAIN origin
    BY <1>2 DEF GraphInv
  <2>2. DOMAIN graph = Crosses(latest) /\ \A c \in DOMAIN graph : graph[c] = neighbors(latest, c)
    BY <2>1
  <2>3. \A c \in DOMAIN graph : Cardinality(DOMAIN graph[c]) <= MaxNeighbors
    BY <2>1, <2>2, FewNeighbors
  <2>4. QED
    BY <2>1, <2>2, <2>3 DEF FilesInv
<1>3. /\ (bundle = None) <=> (built = None)
      /\ built # None => built.net \in Networks /\ built.of \in Payloads
  <2>1. CASE built = None
    BY <2>1 DEF BundleInv
  <2>2. CASE built # None
    <3> DEFINE n == built.net
               s == built.of
    <3>1. Composed(n, s) /\ bundle = runtime_bundle(n, real_normalization(s))
      BY <2>2 DEF BundleInv
    <3> HIDE DEF n, s
    <3>2. n \in Networks /\ s \in Payloads /\ bundle # None
      BY <3>1, NoneAssumption DEF Composed
    <3>3. QED
      BY <2>2, <3>2 DEF n, s
  <2>3. QED
    BY <2>1, <2>2
<1>4. QED
  BY <1>1, <1>2, <1>3 DEF TypeOK, StateInv, FilesInv

\* Types: the files are those of the snapshots they were compiled from, a stage stands for
\* one of eight standard phases or none, a cross has at most four neighbours, and there is a
\* bundle just when there is something it was built from.
THEOREM CommissioningTypes == Spec => []TypeOK
BY InvAlways, TypeOKFromInv, PTL

LEMMA ServedFromInv == Inv => ServedFromLatestCompile
<1> SUFFICES ASSUME Inv, latest # None, NEW q \in Served
             PROVE  q.id \in Crosses(latest) /\ origin[q.id] = latest
  BY DEF ServedFromLatestCompile
<1>1. /\ latest \in Payloads
      /\ graph = [c \in Crosses(latest) |-> neighbors(latest, c)]
      /\ \A c \in Crosses(latest) : origin[c] = latest
  BY DEF Inv, GraphInv
<1>2. graph # None
  BY <1>1, NoneAssumption
<1>3. q.id \in DOMAIN graph
  BY <1>2 DEF Served, ensure_area_configs, load_network
<1>4. QED
  BY <1>1, <1>3

\* Files of dropped crosses stay on disk, but a request is served only for a cross of the
\* snapshot that was compiled last, and with the file compiled from it.
THEOREM RequestsUseTheLatestCompile == Spec => []ServedFromLatestCompile
BY InvAlways, ServedFromInv, PTL

LEMMA ApproachesFromInv == Inv => ApproachesBoundRightly
<1> DEFINE n == built.net
           s == built.of
           m == bundle.map
<1> SUFFICES ASSUME Inv, bundle # None, NEW x \in DOMAIN m
             PROVE  LET e == m[x] IN
                    /\ DOMAIN e.roads = n.cross[x].edges
                    /\ \A d \in DOMAIN e.roads :
                          /\ LeadsTo(s, e.roads[d], e.real, d)
                          /\ \A j \in DOMAIN s.roads :
                                LeadsTo(s, j, e.real, d) =>
                                    Off(s, e.roads[d], e.real, d) <= Off(s, j, e.real, d)
                    /\ \A z \in DOMAIN m \ {x} : m[z].real # e.real
  BY DEF ApproachesBoundRightly
<1>1. Composed(n, s) /\ bundle = runtime_bundle(n, real_normalization(s))
  BY DEF Inv, BundleInv
<1>2. m = Mapping(n, s) /\ WellFormed(m)
  BY <1>1, BundleParts
<1> DEFINE e == m[x]
<1>3. /\ e.real \in Crosses(s)
      /\ DOMAIN e.roads = n.cross[x].edges /\ n.cross[x].edges \subseteq Directions
      /\ \A d \in DOMAIN e.roads : Chosen(s, e.roads[d], e.real, d)
  BY <1>1, <1>2, MappedCross
<1>4. s \in Payloads
  BY <1>1 DEF Composed
<1>5. \A z \in DOMAIN m \ {x} : m[z].real # e.real
  <2> HIDE DEF m
  <2>1. Injective([z \in DOMAIN m |-> m[z].real])
    BY <1>2 DEF WellFormed
  <2>2. QED
    BY <2>1 DEF Injective
<1> HIDE DEF n, s, m, e
<1>6. ASSUME NEW d \in DOMAIN e.roads
      PROVE  /\ LeadsTo(s, e.roads[d], e.real, d)
             /\ \A j \in DOMAIN s.roads :
                   LeadsTo(s, j, e.real, d) =>
                       Off(s, e.roads[d], e.real, d) <= Off(s, j, e.real, d)
  <2> DEFINE i == e.roads[d]
             c == e.real
  <2>1. Chosen(s, i, c, d) /\ d \in Directions /\ c \in Crosses(s)
    BY <1>3
  <2> HIDE DEF i, c
  <2>2. i \in Candidates(s, c, d)
    BY <2>1 DEF Chosen
  <2>3. LeadsTo(s, i, c, d)
    BY <2>1, <2>2, CandidatesLead
  <2>4. ASSUME NEW j \in DOMAIN s.roads, LeadsTo(s, j, c, d)
        PROVE  Off(s, i, c, d) <= Off(s, j, c, d)
    <3>1. j \in Candidates(s, c, d)
      BY <2>1, <2>4, CandidatesLead
    <3>2. Off(s, i, c, d) \in Int /\ Off(s, j, c, d) \in Int
      BY <1>4, <2>1, <2>2, <3>1, OffIsInt
    <3>3. \/ Off(s, i, c, d) < Off(s, j, c, d)
          \/ Off(s, i, c, d) = Off(s, j, c, d)
      BY <2>1, <3>1 DEF Chosen
    <3>4. QED
      BY <3>2, <3>3
  <2>5. QED
    BY <2>3, <2>4 DEF i, c
<1>7. QED
  BY <1>3, <1>5, <1>6 DEF e

\* Every approach a policy was trained with is bound to a road that leads to its cross from
\* that side, none that does points more exactly, and no two sim crosses share a real one.
THEOREM ApproachesAreBoundRightly == Spec => []ApproachesBoundRightly
BY InvAlways, ApproachesFromInv, PTL

\* The first of two values that is there.
LEMMA FirstOfPair ==
    ASSUME NEW a, NEW b
    PROVE  FirstOf(<<a, b>>) = IF a # None THEN a ELSE b
<1> DEFINE q == <<a, b>>
           P(k) == q[k] # None /\ \A j \in 1..(k - 1) : q[j] = None
<1>1. DOMAIN q = {1, 2} /\ q[1] = a /\ q[2] = b
  OBVIOUS
<1>2. FirstOf(q) = IF \A k \in DOMAIN q : q[k] = None THEN None
                   ELSE q[CHOOSE k \in DOMAIN q : P(k)]
  BY DEF FirstOf
<1> HIDE DEF q
<1>3. P(1) <=> a # None
  BY <1>1
<1>4. P(2) <=> a = None /\ b # None
  BY <1>1
<1> HIDE DEF P
<1>5. CASE a # None
  <2>1. (CHOOSE k \in DOMAIN q : P(k)) \in {1, 2} /\ P(CHOOSE k \in DOMAIN q : P(k))
    BY <1>1, <1>3, <1>5
  <2>2. (CHOOSE k \in DOMAIN q : P(k)) = 1
    BY <1>4, <1>5, <2>1
  <2>3. QED
    BY <1>1, <1>2, <1>5, <2>2 DEF q
<1>6. CASE a = None /\ b # None
  <2>1. (CHOOSE k \in DOMAIN q : P(k)) \in {1, 2} /\ P(CHOOSE k \in DOMAIN q : P(k))
    BY <1>1, <1>4, <1>6
  <2>2. (CHOOSE k \in DOMAIN q : P(k)) = 2
    BY <1>3, <1>6, <2>1
  <2>3. QED
    BY <1>1, <1>2, <1>6, <2>2 DEF q
<1>7. CASE a = None /\ b = None
  BY <1>1, <1>2, <1>7 DEF q
<1>8. QED
  BY <1>5, <1>6, <1>7

\* A stage that gets a duration: from the controller, or as the sum of its times.
LEMMA HydratedStageAddsUp ==
    ASSUME NEW cfg, NEW q, NEW st,
           hydrated_stage(cfg, q, st).duration # None
    PROVE  LET h == hydrated_stage(cfg, q, st) IN
           /\ st.duration = None => h.duration = h.green + h.yellow + h.red
           /\ st.green # None => h.green = st.green
<1> DEFINE m      == cycle_meta(cfg, q)
           static == IF m # None /\ st.id \in DOMAIN m.times THEN m.times[st.id] ELSE NoTimes
           cycle  == IF m # None THEN [yellow |-> m.meta.yellow, red |-> m.meta.red]
                     ELSE [yellow |-> None, red |-> None]
           yellow == FirstOf(<<st.yellow, static.yellow, cycle.yellow>>)
           red    == FirstOf(<<st.red, static.red, cycle.red, 0>>)
           green  == FirstOf(<<st.green, static.green>>)
           sum    == Total(green, yellow, red)
           total  == FirstOf(<<st.duration, sum>>)
           h      == hydrated_stage(cfg, q, st)
<1>1. /\ h.yellow = yellow /\ h.red = red /\ h.duration = total
      /\ h.green = IF green # None \/ total = None \/ yellow = None THEN green
                   ELSE total - yellow - red
  BY DEF hydrated_stage
<1>2. green = IF st.green # None THEN st.green ELSE static.green
  BY FirstOfPair
<1>3. total = IF st.duration # None THEN st.duration ELSE sum
  BY FirstOfPair
<1>4. sum = IF green # None /\ yellow # None THEN green + yellow + red ELSE None
  BY DEF Total
<1>5. h.duration # None
  OBVIOUS
<1> HIDE DEF m, static, cycle, yellow, red, green, sum, total, h
<1>6. ASSUME st.duration = None PROVE h.duration = h.green + h.yellow + h.red
  <2>1. sum # None /\ total = sum
    BY <1>1, <1>3, <1>5, <1>6
  <2>2. green # None /\ sum = green + yellow + red
    BY <1>4, <2>1
  <2>3. h.green = green
    BY <1>1, <2>2
  <2>4. QED
    BY <1>1, <2>1, <2>2, <2>3
<1>7. ASSUME st.green # None PROVE h.green = st.green
  BY <1>1, <1>2, <1>7
<1>8. QED
  BY <1>6, <1>7 DEF h

LEMMA HydrationAddsUp == HydratedTimesAddUp
<1> SUFFICES ASSUME NEW q \in Served, NEW k \in DOMAIN q.stages
             PROVE  LET st == q.stages[k]
                        h  == hydrated_stages(get_config(q.id), q)[k]
                    IN  /\ st.duration = None => h.duration = h.green + h.yellow + h.red
                        /\ st.green # None => h.green = st.green
  BY DEF HydratedTimesAddUp
<1> DEFINE cfg == get_config(q.id)
           h   == hydrated_stages(cfg, q)[k]
<1>1. q.stages # << >>
  <2>1. DOMAIN << >> = {}
    OBVIOUS
  <2>2. QED
    BY <2>1
<1>2. input_stages(cfg, q) = q.stages
  BY <1>1 DEF input_stages
<1>3. h = hydrated_stage(cfg, q, q.stages[k])
  BY <1>2 DEF hydrated_stages
<1>4. h.duration # None
  BY <1>2 DEF Served, Hydrates
<1> HIDE DEF h, cfg
<1>5. LET g == hydrated_stage(cfg, q, q.stages[k]) IN
      /\ q.stages[k].duration = None => g.duration = g.green + g.yellow + g.red
      /\ q.stages[k].green # None => g.green = q.stages[k].green
  BY <1>3, <1>4, HydratedStageAddsUp
<1>6. QED
  BY <1>3, <1>5 DEF h, cfg

\* A stage whose duration a controller leaves out lasts as long as its green, yellow and red
\* together, and the green that it names is kept.
THEOREM HydratedTimesDoAddUp == Spec => []HydratedTimesAddUp
BY HydrationAddsUp, PTL

-----------------------------------------------------------------------------
(***************************************************************************)
(* The phases a request is worked with.                                    *)
(***************************************************************************)

LEMMA NotEmpty ==
    ASSUME NEW S, NEW q \in Seq(S), q # << >>
    PROVE  DOMAIN q # {}
<1>1. Len(q) \in Nat /\ DOMAIN q = 1..Len(q) /\ Len(q) # 0
  OBVIOUS
<1>2. 1 \in DOMAIN q
  BY <1>1
<1>3. QED
  BY <1>2

\* The table of the mapped programme in the bundle: every active stage of the cycle has the
\* standard phase of the trained phase that it takes the place of.
LEMMA BundleTable ==
    ASSUME NEW n, NEW s, Composed(n, s), NEW x \in DOMAIN Mapping(n, s)
    PROVE  LET b == runtime_bundle(n, real_normalization(s))
               e == Mapping(n, s)[x]
               y == e.cycle
               T == b.cross[e.real].std[y]
           IN  /\ DOMAIN b.cross[e.real].std = {y}
               /\ DOMAIN T = StagesOf(s, y) /\ DOMAIN T # {} /\ T # None
               /\ \A k \in DOMAIN e.phases :
                     /\ T[e.phases[k].stage] = e.phases[k].std
                     /\ e.phases[k].std \in 0..(NumPhases - 1)
               /\ b.cross[e.real].primary = y
               /\ bundle_cfg(b, e.real) # None /\ b # None /\ e.real \in DOMAIN b.cross
<1> DEFINE b  == runtime_bundle(n, real_normalization(s))
           m  == Mapping(n, s)
           e  == m[x]
           y  == e.cycle
           st == real_normalization(s).crosses[e.real].roads_static
           T  == b.cross[e.real].std[y]
<1>1. /\ n \in Networks /\ s \in Payloads /\ Crosses(s) # {}
      /\ Composable(n, real_normalization(s), Production)
  BY DEF Composed
<1>2. /\ DOMAIN b.cross = {m[z].real : z \in DOMAIN m}
      /\ b.cross[e.real] = cross_config(e, st)
      /\ WellFormed(m)
  BY BundleParts
<1>3. e.real \in DOMAIN b.cross
  BY <1>2
<1>4. /\ n.cross[x].phases # << >>
      /\ DOMAIN e.phases = DOMAIN n.cross[x].phases
      /\ DOMAIN e.phases = DOMAIN StageOrder(s, y)
      /\ \A k \in DOMAIN e.phases : e.phases[k].stage = StageOrder(s, y)[k]
      /\ x \in DOMAIN n.cross
  BY MappedCross
<1>5. /\ DOMAIN StageOrder(s, y) = 1..Cardinality(StagesOf(s, y))
      /\ \A k \in DOMAIN StageOrder(s, y) : StageOrder(s, y)[k] \in StagesOf(s, y)
      /\ \A t \in StagesOf(s, y) : \E k \in DOMAIN StageOrder(s, y) : StageOrder(s, y)[k] = t
      /\ \A k, l \in DOMAIN StageOrder(s, y) : StageOrder(s, y)[k] = StageOrder(s, y)[l] => k = l
  BY <1>1, StageOrderFacts
<1>6. DOMAIN e.phases # {}
  <2>1. n.cross[x].phases \in Seq(Elements(n.cross[x].phases))
    BY <1>1, <1>4, NetworksAssumption
  <2>2. DOMAIN n.cross[x].phases # {}
    BY <1>4, <2>1, NotEmpty
  <2>3. QED
    BY <1>4, <2>2
<1>7. \A k \in DOMAIN e.phases : e.phases[k].std \in 0..(NumPhases - 1)
  BY <1>2 DEF WellFormed
<1> HIDE DEF b, m, e, y, st
<1>8. /\ b.cross[e.real].std = [z \in {e.cycle} |->
             [t \in {e.phases[k].stage : k \in DOMAIN e.phases} |->
                 e.phases[CHOOSE k \in DOMAIN e.phases : e.phases[k].stage = t].std]]
      /\ b.cross[e.real].primary = e.cycle
  BY <1>2 DEF cross_config
<1>9. DOMAIN b.cross[e.real].std = {y} /\ b.cross[e.real].primary = y
  BY <1>8 DEF y
<1>10. T = [t \in {e.phases[k].stage : k \in DOMAIN e.phases} |->
               e.phases[CHOOSE k \in DOMAIN e.phases : e.phases[k].stage = t].std]
  BY <1>8 DEF y
<1>11. {e.phases[k].stage : k \in DOMAIN e.phases} = StagesOf(s, y)
  BY <1>4, <1>5
<1>12. bundle_cfg(b, e.real) # None /\ b # None /\ T # None
  <2>1. /\ b # None
        /\ \A c \in DOMAIN b.cross :
              /\ bundle_cfg(b, c) # None
              /\ \A z \in DOMAIN b.cross[c].std : b.cross[c].std[z] # None
    BY <1>1, NoneAssumption DEF b
  <2>2. QED
    BY <1>3, <1>9, <2>1
<1> HIDE DEF T
<1>13. \A k \in DOMAIN e.phases : T[e.phases[k].stage] = e.phases[k].std
  <2> SUFFICES ASSUME NEW k \in DOMAIN e.phases PROVE T[e.phases[k].stage] = e.phases[k].std
    OBVIOUS
  <2> DEFINE j == CHOOSE j \in DOMAIN e.phases : e.phases[j].stage = e.phases[k].stage
  <2>1. j \in DOMAIN e.phases /\ e.phases[j].stage = e.phases[k].stage
    OBVIOUS
  <2>2. T[e.phases[k].stage] = e.phases[j].std
    BY <1>10
  <2> HIDE DEF j
  <2>3. j = k
    BY <1>4, <1>5, <2>1
  <2>4. QED
    BY <2>2, <2>3
<1>14. DOMAIN T = StagesOf(s, y) /\ DOMAIN T # {}
  <2>1. DOMAIN T = {e.phases[k].stage : k \in DOMAIN e.phases}
    BY <1>10
  <2>2. QED
    BY <1>6, <1>11, <2>1
<1>15. QED
  BY <1>3, <1>7, <1>9, <1>12, <1>13, <1>14 DEF b, m, e, y, T

\* Whatever has been compiled since: the config of a mapped cross has the bundle's table.
LEMMA ServedTable ==
    ASSUME Inv, bundle # None, NEW x \in DOMAIN bundle.map
    PROVE  LET e   == bundle.map[x]
               cfg == get_config(e.real)
           IN  e.cycle \in DOMAIN cfg.std
               /\ cfg.std[e.cycle] = bundle.cross[e.real].std[e.cycle]
<1> DEFINE n   == built.net
           s   == built.of
           e   == bundle.map[x]
           c   == e.real
           y   == e.cycle
           b   == bundle_cfg(bundle, c)
           cfg == get_config(c)
           T   == bundle.cross[c].std[y]
<1>1. Composed(n, s) /\ bundle = runtime_bundle(n, real_normalization(s))
  BY DEF Inv, BundleInv
<1>2. bundle.map = Mapping(n, s)
  BY <1>1, BundleParts
<1>3. /\ DOMAIN bundle.cross[c].std = {y} /\ DOMAIN T # {}
      /\ b # None /\ c \in DOMAIN bundle.cross
  BY <1>1, <1>2, BundleTable
<1>4. b.std = bundle.cross[c].std
  BY <1>3 DEF bundle_cfg
<1> DEFINE real == At(files, c)
<1>5. cfg = merge_config(real, b, At(legacy, c))
  BY DEF get_config
<1> HIDE DEF n, s, c, y, b, cfg, real
<1>6. CASE real = None
  <2>1. cfg = b
    BY <1>3, <1>5, <1>6 DEF merge_config
  <2>2. QED
    BY <1>3, <1>4, <2>1 DEF c, y, cfg
<1>7. CASE real # None
  <2>1. cfg.std = merge_cycles(real.std, b.std)
    BY <1>3, <1>5, <1>7 DEF merge_config
  <2>2. y \in DOMAIN b.std /\ b.std[y] = T
    BY <1>3, <1>4
  <2>3. DOMAIN cfg.std = DOMAIN real.std \cup DOMAIN b.std
    BY <2>1 DEF merge_cycles
  <2>4. cfg.std[y] = OrElse(b.std[y], IF y \in DOMAIN real.std THEN real.std[y] ELSE Empty)
    BY <2>1, <2>2 DEF merge_cycles
  <2>5. cfg.std[y] = T
    BY <1>3, <2>2, <2>4 DEF OrElse
  <2>6. QED
    BY <2>2, <2>3, <2>5 DEF c, y, cfg
<1>8. QED
  BY <1>6, <1>7

\* A stage of a cycle with a table has the phase of the table, or is masked.
LEMMA PhaseFromTable ==
    ASSUME NEW cfg, NEW y \in DOMAIN cfg.std, cfg.std[y] # None, NEW ids, NEW k \in DOMAIN ids
    PROVE  /\ k \in DOMAIN effective_phase_mapping(cfg, y, ids)
           /\ effective_phase_mapping(cfg, y, ids)[k] =
                  IF ids[k] \in DOMAIN cfg.std[y] THEN InPhases(cfg.std[y][ids[k]]) ELSE -1
<1>1. stage_to_std_phase_for_cycle(cfg, y) = cfg.std[y]
  BY DEF stage_to_std_phase_for_cycle
<1>2. DOMAIN cfg.std # {}
  OBVIOUS
<1>3. QED
  BY <1>1, <1>2 DEF effective_phase_mapping

LEMMA MappingFromInv == Inv => MappingStaysWithBundle
<1> DEFINE n == built.net
           s == built.of
           l(t) == Ordinal(s, t)
<1> SUFFICES ASSUME Inv, bundle # None, NEW x \in DOMAIN bundle.map, NEW q \in Served,
                    q.id = bundle.map[x].real,
                    CycleId(get_config(bundle.map[x].real), q) = bundle.map[x].cycle,
                    NEW k \in DOMAIN StageIds(q),
                    StageIds(q)[k] \in StagesOf(s, bundle.map[x].cycle),
                    l(StageIds(q)[k]) \in DOMAIN n.cross[x].std
             PROVE  PhasesServed(q)[k] = n.cross[x].std[l(StageIds(q)[k])]
  BY DEF MappingStaysWithBundle
<1> DEFINE e   == bundle.map[x]
           c   == e.real
           y   == e.cycle
           cfg == get_config(c)
           T   == bundle.cross[c].std[y]
           t   == StageIds(q)[k]
           ph  == e.phases
           std == n.cross[x].std
<1>1. Composed(n, s) /\ bundle = runtime_bundle(n, real_normalization(s))
  BY DEF Inv, BundleInv
<1>2. bundle.map = Mapping(n, s)
  BY <1>1, BundleParts
<1>3. /\ DOMAIN T = StagesOf(s, y) /\ T # None
      /\ \A j \in DOMAIN ph : T[ph[j].stage] = ph[j].std /\ ph[j].std \in 0..(NumPhases - 1)
  <2>1. x \in DOMAIN Mapping(n, s)
    BY <1>2
  <2> DEFINE b == runtime_bundle(n, real_normalization(s))
             z == Mapping(n, s)[x]
             U == b.cross[z.real].std[z.cycle]
  <2>2. /\ DOMAIN U = StagesOf(s, z.cycle) /\ U # None
        /\ \A j \in DOMAIN z.phases : U[z.phases[j].stage] = z.phases[j].std
        /\ \A j \in DOMAIN z.phases : z.phases[j].std \in 0..(NumPhases - 1)
    <3>1. Composed(n, s)
      BY <1>1
    <3> HIDE DEF n, s
    <3>2. DOMAIN U = StagesOf(s, z.cycle) /\ U # None
      BY <3>1, <2>1, BundleTable
    <3>3. \A j \in DOMAIN z.phases : U[z.phases[j].stage] = z.phases[j].std
      BY <3>1, <2>1, BundleTable
    <3>4. \A j \in DOMAIN z.phases : z.phases[j].std \in 0..(NumPhases - 1)
      BY <3>1, <2>1, BundleTable
    <3>5. QED
      BY <3>2, <3>3, <3>4
  <2>3. z = e /\ U = T
    BY <1>1, <1>2
  <2> HIDE DEF z, U, T, n, s, e
  <2>4. QED
    BY <2>2, <2>3 DEF ph, y
<1>4. /\ DOMAIN ph = DOMAIN StageOrder(s, y)
      /\ \A j \in DOMAIN ph :
            /\ ph[j].stage = StageOrder(s, y)[j]
            /\ ph[j].std = IF j - 1 \in DOMAIN std THEN std[j - 1]
                           ELSE IF j - 1 < NumPhases THEN j - 1 ELSE NumPhases - 1
  BY <1>1, <1>2, MappedCross
<1>5. y \in DOMAIN cfg.std /\ cfg.std[y] = T
  BY ServedTable
<1>6. PhasesServed(q) = effective_phase_mapping(cfg, y, StageIds(q))
  BY DEF PhasesServed
<1>7. t \in StagesOf(s, y) /\ l(t) \in DOMAIN std
  OBVIOUS
<1>8. /\ l(t) + 1 \in DOMAIN StageOrder(s, y) /\ StageOrder(s, y)[l(t) + 1] = t
      /\ l(t) \in Int
  <2>1. s \in Payloads
    BY <1>1 DEF Composed
  <2>2. \A u \in StagesOf(s, y) : l(u) + 1 \in DOMAIN StageOrder(s, y)
                                  /\ StageOrder(s, y)[l(u) + 1] = u
    BY <2>1, StageOrderFacts
  <2>3. \A u \in StagesOf(s, y) : l(u) \in 0..(Cardinality(StagesOf(s, y)) - 1)
    BY <2>1, OrdinalFacts
  <2> HIDE DEF l, s, y, t
  <2>4. QED
    BY <1>7, <2>2, <2>3
<1> HIDE DEF cfg, T, t, ph, std, l, s, y, n, c, e
<1>9. T[t] = std[l(t)] /\ T[t] \in 0..(NumPhases - 1)
  <2> DEFINE j == l(t) + 1
  <2>1. j \in DOMAIN ph /\ j - 1 = l(t) /\ ph[j].stage = t
    BY <1>4, <1>8
  <2> HIDE DEF j
  <2>2. ph[j].std = std[l(t)]
    BY <1>4, <1>7, <2>1
  <2>3. QED
    BY <1>3, <2>1, <2>2
<1>10. PhasesServed(q)[k] = IF t \in DOMAIN T THEN InPhases(T[t]) ELSE -1
  <2>1. effective_phase_mapping(cfg, y, StageIds(q))[k] =
            IF StageIds(q)[k] \in DOMAIN cfg.std[y] THEN InPhases(cfg.std[y][StageIds(q)[k]]) ELSE -1
    BY <1>3, <1>5, PhaseFromTable
  <2>2. QED
    BY <1>5, <1>6, <2>1 DEF t
<1>11. PhasesServed(q)[k] = std[l(t)]
  BY <1>3, <1>7, <1>9, <1>10 DEF InPhases
<1>12. QED
  BY <1>11 DEF std, l, t, n, s

\* Whatever snapshots have been compiled since, a stage that took the place of a trained
\* phase is worked with the standard phase the policy was trained with.
THEOREM MappingSurvivesCompiles == Spec => []MappingStaysWithBundle
BY InvAlways, MappingFromInv, PTL

\* A cross whose file is of the snapshot the bundle was built from.
LEMMA InStepConfig ==
    ASSUME Inv, bundle # None, NEW x \in DOMAIN bundle.map,
           At(origin, bundle.map[x].real) = built.of
    PROVE  LET s   == built.of
               c   == bundle.map[x].real
               cfg == get_config(c)
           IN  /\ s \in Payloads /\ c \in Crosses(s)
               /\ cfg.direction_map = direction_map(s, c)
               /\ cfg.roads_static = roads_static(s, c)
               /\ cfg.primary = bundle.map[x].cycle
               /\ cfg.meta = [y \in CyclesOf(s, c) |-> cycle_cfg(s, y)]
               /\ bundle.map[x].cycle \in CyclesOf(s, c)
<1> DEFINE n    == built.net
           s    == built.of
           e    == bundle.map[x]
           c    == e.real
           b    == bundle_cfg(bundle, c)
           real == At(files, c)
           cfg  == get_config(c)
<1>1. Composed(n, s) /\ bundle = runtime_bundle(n, real_normalization(s))
  BY DEF Inv, BundleInv
<1>2. bundle.map = Mapping(n, s) /\ WellFormed(bundle.map)
  BY <1>1, BundleParts
<1>3. bundle.cross[c].primary = e.cycle /\ b # None /\ c \in DOMAIN bundle.cross
  BY <1>1, <1>2, BundleTable
<1>4. b.primary = e.cycle
  BY <1>3 DEF bundle_cfg
<1>5. /\ c \in Crosses(s)
      /\ e.cycle = primary_cycle_id(s, c) /\ e.cycle \in CyclesOf(s, c)
      /\ DOMAIN e.roads \subseteq Directions
      /\ \A d \in DOMAIN e.roads : Chosen(s, e.roads[d], c, d)
  BY <1>1, <1>2, MappedCross
<1>6. s \in Payloads /\ s # None
  BY <1>1, NoneAssumption DEF Composed
<1>7. DOMAIN e.roads # {}
  BY <1>2 DEF WellFormed
<1>8. cfg = merge_config(real, b, At(legacy, c))
  BY DEF get_config
<1>9. At(origin, c) = s
  OBVIOUS
<1> HIDE DEF n, s, e, c, b, real, cfg
<1>10. c \in DOMAIN origin /\ origin[c] = s
  BY <1>6, <1>9 DEF At
<1>11. real = FileOf(s, c)
  BY <1>10 DEF Inv, FilesInv, At, real
<1>12. /\ real.direction_map = direction_map(s, c)
       /\ real.roads_static = roads_static(s, c)
       /\ real.primary = primary_cycle_id(s, c)
       /\ real.meta = [y \in CyclesOf(s, c) |-> cycle_cfg(s, y)]
       /\ real # None
  BY <1>5, <1>6, <1>11, FileFacts
<1>13. /\ cfg.direction_map = OrElse(real.direction_map, b.direction_map)
       /\ cfg.roads_static = OrElse(real.roads_static, b.roads_static)
       /\ cfg.primary = FirstOf(<<real.primary, b.primary>>)
       /\ cfg.meta = real.meta
  BY <1>3, <1>8, <1>12 DEF merge_config
<1>14. DOMAIN direction_map(s, c) # {} /\ DOMAIN roads_static(s, c) # {}
  <2>1. PICK d \in Directions : Chosen(s, e.roads[d], c, d)
    BY <1>5, <1>7
  <2>2. e.roads[d] \in Touching(s, c)
    BY <2>1 DEF Chosen, Candidates
  <2>3. e.roads[d] \in DOMAIN direction_map(s, c)
    BY <2>1, <2>2 DEF direction_map
  <2>4. e.roads[d] \in DOMAIN roads_static(s, c)
    BY <2>2 DEF roads_static
  <2>5. QED
    BY <2>3, <2>4
<1>15. cfg.direction_map = direction_map(s, c) /\ cfg.roads_static = roads_static(s, c)
  BY <1>12, <1>13, <1>14 DEF OrElse
<1>16. cfg.primary = e.cycle
  BY <1>4, <1>5, <1>12, <1>13, FirstOfPair
<1>17. cfg.meta = [y \in CyclesOf(s, c) |-> cycle_cfg(s, y)]
  BY <1>12, <1>13
<1>18. QED
  BY <1>5, <1>6, <1>15, <1>16, <1>17 DEF s, e, c, cfg

\* A request without stages is answered for all stages of the programme, in their order.
LEMMA StagesOfProgramme ==
    ASSUME NEW q, q.stages = << >>, NEW y, NEW s,
           LET cfg == get_config(q.id) IN
              /\ Hydrates(cfg, q) /\ CycleId(cfg, q) = y
              /\ y \in DOMAIN cfg.meta /\ cfg.meta[y] = cycle_cfg(s, y),
           NEW k \in DOMAIN StageIds(q)
    PROVE  k \in DOMAIN StageOrder(s, y) /\ StageIds(q)[k] = StageOrder(s, y)[k]
<1> DEFINE cfg == get_config(q.id)
           m   == cycle_meta(cfg, q)
           in  == input_stages(cfg, q)
<1>1. m = cycle_cfg(s, y)
  BY DEF cycle_meta
<1>2. m.stages = StageOrder(s, y)
  BY <1>1 DEF cycle_cfg
<1>3. in # << >>
  BY DEF Hydrates
<1>4. in = IF q.stages # << >> \/ m = None THEN q.stages
           ELSE [j \in DOMAIN m.stages |->
                    [id |-> m.stages[j], green |-> None, duration |-> None,
                     yellow |-> None, red |-> None]]
  BY DEF input_stages
<1>5. StageIds(q) = [j \in DOMAIN hydrated_stages(cfg, q) |-> hydrated_stages(cfg, q)[j].id]
  BY DEF StageIds
<1>6. hydrated_stages(cfg, q) = [j \in DOMAIN in |-> hydrated_stage(cfg, q, in[j])]
  BY DEF hydrated_stages
<1>7. k \in DOMAIN in /\ StageIds(q)[k] = hydrated_stage(cfg, q, in[k]).id
  BY <1>5, <1>6
<1>8. hydrated_stage(cfg, q, in[k]).id = in[k].id
  BY DEF hydrated_stage
<1> HIDE DEF m, in, cfg
<1>9. in = [j \in DOMAIN m.stages |->
               [id |-> m.stages[j], green |-> None, duration |-> None,
                yellow |-> None, red |-> None]]
  BY <1>3, <1>4
<1>10. k \in DOMAIN m.stages /\ in[k].id = m.stages[k]
  BY <1>7, <1>9
<1>11. QED
  BY <1>2, <1>7, <1>8, <1>10

LEMMA InStepFromInv == Inv => NothingLostWhileInStep
<1> SUFFICES ASSUME Inv, NEW q \in Served, bundle # None, q.id \in DOMAIN bundle.cross,
                    At(origin, q.id) = built.of
             PROVE  LET c == q.id IN
                    /\ (q.stages = << >> /\ CycleId(get_config(c), q) = get_config(c).primary) =>
                            \A k \in DOMAIN PhasesServed(q) : PhasesServed(q)[k] # -1
                    /\ DOMAIN get_config(c).direction_map \subseteq DOMAIN get_config(c).roads_static
  BY DEF NothingLostWhileInStep
<1> DEFINE n   == built.net
           s   == built.of
           m   == bundle.map
           c   == q.id
           cfg == get_config(c)
<1>1. Composed(n, s) /\ bundle = runtime_bundle(n, real_normalization(s))
  BY DEF Inv, BundleInv
<1>2. m = Mapping(n, s) /\ DOMAIN bundle.cross = {m[x].real : x \in DOMAIN m}
  BY <1>1, BundleParts
<1>3. PICK x \in DOMAIN m : m[x].real = c
  BY <1>2
<1> DEFINE e == m[x]
           y == e.cycle
           T == bundle.cross[c].std[y]
<1>4. /\ s \in Payloads /\ c \in Crosses(s)
      /\ cfg.direction_map = direction_map(s, c)
      /\ cfg.roads_static = roads_static(s, c)
      /\ cfg.primary = y
      /\ cfg.meta = [z \in CyclesOf(s, c) |-> cycle_cfg(s, z)]
      /\ y \in CyclesOf(s, c)
  BY <1>3, InStepConfig
<1>5. DOMAIN cfg.direction_map \subseteq DOMAIN cfg.roads_static
  <2>1. DOMAIN direction_map(s, c) \subseteq Touching(s, c)
    BY DEF direction_map
  <2>2. DOMAIN roads_static(s, c) = Touching(s, c)
    BY DEF roads_static
  <2>3. QED
    BY <1>4, <2>1, <2>2
<1>6. ASSUME q.stages = << >>, CycleId(cfg, q) = cfg.primary,
             NEW k \in DOMAIN PhasesServed(q)
      PROVE  PhasesServed(q)[k] # -1
  <2>1. y \in DOMAIN cfg.std /\ cfg.std[y] = T
    BY <1>3, ServedTable
  <2>2. /\ DOMAIN T = StagesOf(s, y) /\ T # None
        /\ \A j \in DOMAIN e.phases : T[e.phases[j].stage] = e.phases[j].std
        /\ \A j \in DOMAIN e.phases : e.phases[j].std \in 0..(NumPhases - 1)
    <3> DEFINE b == runtime_bundle(n, real_normalization(s))
               z == Mapping(n, s)[x]
               U == b.cross[z.real].std[z.cycle]
    <3>1. Composed(n, s) /\ x \in DOMAIN Mapping(n, s)
      BY <1>1, <1>2
    <3>2. z = e /\ U = T
      BY <1>1, <1>2, <1>3
    <3> HIDE DEF n, s
    <3>3. DOMAIN U = StagesOf(s, z.cycle) /\ U # None
      BY <3>1, BundleTable
    <3>4. \A j \in DOMAIN z.phases : U[z.phases[j].stage] = z.phases[j].std
      BY <3>1, BundleTable
    <3>5. \A j \in DOMAIN z.phases : z.phases[j].std \in 0..(NumPhases - 1)
      BY <3>1, BundleTable
    <3> HIDE DEF z, U, T, e
    <3>6. QED
      BY <3>2, <3>3, <3>4, <3>5 DEF y
  <2>3. /\ DOMAIN e.phases = DOMAIN StageOrder(s, y)
        /\ \A j \in DOMAIN e.phases : e.phases[j].stage = StageOrder(s, y)[j]
    BY <1>1, <1>2, MappedCross
  <2>4. PhasesServed(q) = effective_phase_mapping(cfg, y, StageIds(q))
    BY <1>4, <1>6 DEF PhasesServed
  <2>5. k \in DOMAIN StageIds(q)
    <3>1. DOMAIN effective_phase_mapping(cfg, y, StageIds(q)) = DOMAIN StageIds(q)
      BY DEF effective_phase_mapping
    <3>2. QED
      BY <1>6, <2>4, <3>1
  <2>6. k \in DOMAIN StageOrder(s, y) /\ StageIds(q)[k] = StageOrder(s, y)[k]
    <3>1. Hydrates(cfg, q) /\ CycleId(cfg, q) = y
      BY <1>4, <1>6 DEF Served
    <3>2. y \in DOMAIN cfg.meta /\ cfg.meta[y] = cycle_cfg(s, y)
      BY <1>4
    <3> HIDE DEF y, s
    <3>3. QED
      BY <1>6, <2>5, <3>1, <3>2, StagesOfProgramme
  <2>7. PhasesServed(q)[k] = IF StageIds(q)[k] \in DOMAIN T THEN InPhases(T[StageIds(q)[k]]) ELSE -1
    <3>1. cfg.std[y] # None
      BY <2>1, <2>2
    <3> HIDE DEF T, cfg, y
    <3>2. effective_phase_mapping(cfg, y, StageIds(q))[k] =
              IF StageIds(q)[k] \in DOMAIN cfg.std[y] THEN InPhases(cfg.std[y][StageIds(q)[k]]) ELSE -1
      BY <2>1, <2>5, <3>1, PhaseFromTable
    <3>3. QED
      BY <2>1, <2>4, <3>2
  <2>8. StageIds(q)[k] \in DOMAIN T
    <3>1. StageOrder(s, y)[k] \in StagesOf(s, y)
      BY <1>4, <2>6, StageOrderFacts
    <3>2. QED
      BY <2>2, <2>6, <3>1
  <2> HIDE DEF T, e, y, s
  <2>9. T[StageIds(q)[k]] \in 0..(NumPhases - 1)
    BY <2>2, <2>3, <2>6
  <2>10. PhasesServed(q)[k] = T[StageIds(q)[k]]
    BY <2>7, <2>8, <2>9 DEF InPhases
  <2>11. QED
    BY <2>9, <2>10 DEF NumPhases
<1>7. QED
  BY <1>5, <1>6

\* While the files come from the snapshot the bundle was built from, no stage of the trained
\* programme is masked, and every road in use has its static properties.
THEOREM NothingIsLostWhileInStep == Spec => []NothingLostWhileInStep
BY InvAlways, InStepFromInv, PTL

-----------------------------------------------------------------------------
(***************************************************************************)
(* When a composition is refused.                                          *)
(***************************************************************************)

Less(S, c) == {d \in S : d < c}

\* A list of all of S in increasing order has each element at its place.
LEMMA ListedInOrder ==
    ASSUME NEW S, \A c \in S : c \in Int,
           NEW N \in Nat, NEW g \in [1..N -> S],
           \A c \in S : \E k \in 1..N : g[k] = c,
           \A k, l \in 1..N : k < l => g[k] < g[l]
    PROVE  /\ Cardinality(S) = N
           /\ \A k \in 1..N : Cardinality(Less(S, g[k])) = k - 1
<1>1. \A k, l \in 1..N : g[k] = g[l] => k = l
  <2> SUFFICES ASSUME NEW k \in 1..N, NEW l \in 1..N, g[k] = g[l], k # l PROVE FALSE
    OBVIOUS
  <2>1. g[k] \in Int /\ g[l] \in Int
    OBVIOUS
  <2>2. k < l \/ l < k
    OBVIOUS
  <2>3. g[k] < g[l] \/ g[l] < g[k]
    BY <2>2
  <2>4. QED
    BY <2>1, <2>3
<1>2. \A a \in Nat : IsFiniteSet(1..a) /\ Cardinality(1..a) = a
  BY FS_Interval
<1>3. Cardinality(S) = N
  <2>1. g \in Bijection(1..N, S)
    BY <1>1 DEF Bijection, Injection, Surjection, IsInjective
  <2>2. ExistsBijection(1..N, S)
    BY <2>1 DEF ExistsBijection
  <2>3. QED
    BY <1>2, <2>2, FS_Bijection
<1>4. ASSUME NEW k \in 1..N PROVE Cardinality(Less(S, g[k])) = k - 1
  <2> DEFINE a == k - 1
             B == {d \in S : d < g[k]}
             h == [j \in 1..a |-> g[j]]
  <2>1. a \in Nat /\ a < k /\ 1..a \subseteq 1..N
    OBVIOUS
  <2>2. \A j \in 1..N : g[j] < g[k] <=> j \in 1..a
    <3> TAKE j \in 1..N
    <3>1. g[j] \in Int /\ g[k] \in Int
      OBVIOUS
    <3>2. CASE j < k
      BY <3>2
    <3>3. CASE j = k
      BY <3>1, <3>3
    <3>4. CASE k < j
      <4>1. g[k] < g[j]
        BY <3>4
      <4>2. QED
        BY <3>1, <3>4, <4>1
    <3>5. QED
      BY <3>2, <3>3, <3>4
  <2> HIDE DEF a
  <2>3. h \in [1..a -> B]
    BY <2>1, <2>2
  <2>4. \A d \in B : \E j \in 1..a : h[j] = d
    <3> TAKE d \in B
    <3>1. PICK j \in 1..N : g[j] = d
      OBVIOUS
    <3>2. j \in 1..a
      BY <2>2, <3>1
    <3>3. QED
      BY <3>1, <3>2
  <2>5. \A i, j \in 1..a : h[i] = h[j] => i = j
    BY <1>1, <2>1
  <2>6. DOMAIN h = 1..a
    OBVIOUS
  <2> HIDE DEF h, B
  <2>7. h \in Bijection(1..a, B)
    BY <2>3, <2>4, <2>5, <2>6 DEF Bijection, Injection, Surjection, IsInjective
  <2>8. ExistsBijection(1..a, B)
    BY <2>7 DEF ExistsBijection
  <2>9. Cardinality(B) = Cardinality(1..a)
    BY <1>2, <2>1, <2>8, FS_Bijection
  <2>10. Cardinality(B) = a
    BY <1>2, <2>1, <2>9
  <2>11. QED
    BY <2>10 DEF a, B, Less
<1>5. QED
  BY <1>3, <1>4

\* An assignment the snapshot leaves open is the one that is taken.
LEMMA AssignmentIsTaken ==
    ASSUME NEW n \in Networks, NEW s \in Payloads, NEW f \in Assignments(s, n)
    PROVE  LET r == real_normalization(s) IN
           /\ Resolvable(n, r, Production)
           /\ f \in [DOMAIN n.cross -> Crosses(s)]
           /\ \A x \in DOMAIN n.cross :
                 x \in DOMAIN sim_to_real(n, r) /\ sim_to_real(n, r)[x] = f[x]
<1> DEFINE r  == real_normalization(s)
           S  == Crosses(s)
           to == sim_to_real(n, r)
           q  == n.ids
           N  == Len(q)
<1>1. r.simToReal = s.simToReal /\ DOMAIN r.crosses = S
  BY DEF real_normalization
<1>2. S \subseteq DOMAIN s.area /\ DOMAIN s.area \subseteq Int /\ None \notin DOMAIN s.area
  BY PayloadsAssumption DEF Crosses
<1>3. /\ q \in Seq(DOMAIN n.cross) /\ Injective(q) /\ Elements(q) = DOMAIN n.cross
  BY NetworksAssumption
<1> HIDE DEF r, S
<1>4. CASE DOMAIN s.simToReal # {}
  <2>1. f \in [DOMAIN n.cross -> S] /\ \A x \in DOMAIN f : At(s.simToReal, x) = f[x]
    BY <1>4 DEF Assignments, S
  <2>2. to = s.simToReal /\ Resolvable(n, r, Production)
    BY <1>1, <1>4 DEF sim_to_real, Resolvable
  <2>3. ASSUME NEW x \in DOMAIN n.cross PROVE x \in DOMAIN to /\ to[x] = f[x]
    <3>1. At(s.simToReal, x) = f[x] /\ f[x] # None
      BY <1>2, <2>1
    <3>2. QED
      BY <2>2, <3>1 DEF At
  <2>4. QED
    BY <2>1, <2>2, <2>3 DEF r, S
<1>5. CASE DOMAIN s.simToReal = {}
  <2>1. /\ f \in [DOMAIN n.cross -> S]
        /\ ~Production
        /\ {f[x] : x \in DOMAIN f} = S
        /\ \A k, l \in DOMAIN q : k < l => f[q[k]] < f[q[l]]
    BY <1>5 DEF Assignments, S
  <2>2. N \in Nat /\ DOMAIN q = 1..N
    BY <1>3
  <2> DEFINE g == [k \in 1..N |-> f[q[k]]]
  <2> HIDE DEF q, N
  <2>3. \A k \in 1..N : q[k] \in DOMAIN n.cross
    BY <1>3, <2>2 DEF Elements
  <2>4. g \in [1..N -> S]
    BY <2>1, <2>3
  <2>5. \A k \in 1..N : g[k] = f[q[k]]
    OBVIOUS
  <2> HIDE DEF g
  <2>6. \A c \in S : \E k \in 1..N : g[k] = c
    <3> TAKE c \in S
    <3>1. PICK x \in DOMAIN n.cross : f[x] = c
      BY <2>1
    <3>2. PICK k \in DOMAIN q : q[k] = x
      BY <1>3 DEF Elements
    <3>3. QED
      BY <2>2, <2>5, <3>1, <3>2
  <2>7. \A k, l \in 1..N : k < l => g[k] < g[l]
    BY <2>1, <2>2, <2>5
  <2>8. \A c \in S : c \in Int
    BY <1>2
  <2>9. /\ Cardinality(S) = N
        /\ \A k \in 1..N : Cardinality(Less(S, g[k])) = k - 1
    <3> HIDE DEF to
    <3>1. Cardinality(S) = N
      BY <2>2, <2>4, <2>6, <2>7, <2>8, ListedInOrder
    <3>2. \A k \in 1..N : Cardinality(Less(S, g[k])) = k - 1
      BY <2>2, <2>4, <2>6, <2>7, <2>8, ListedInOrder
    <3>3. QED
      BY <3>1, <3>2
  <2>10. Resolvable(n, r, Production)
    BY <1>1, <2>1, <2>9 DEF Resolvable, q, N
  <2>11. ASSUME NEW k \in 1..N PROVE CrossOrder(r)[k] = g[k]
    <3> DEFINE P(c) == Cardinality(Less(S, c)) = k - 1
               c    == CHOOSE c \in S : P(c)
    <3>1. CrossOrder(r)[k] = c
      BY <1>1, <2>9 DEF CrossOrder, Less
    <3>2. g[k] \in S /\ P(g[k])
      BY <2>4, <2>9
    <3>3. c \in S /\ P(c)
      <4> HIDE DEF P
      <4>1. QED
        BY <3>2
    <3> HIDE DEF c
    <3>4. PICK j \in 1..N : g[j] = c
      BY <2>6, <3>3
    <3>5. j - 1 = k - 1
      BY <2>9, <3>3, <3>4
    <3>6. j = k
      BY <3>5
    <3>7. QED
      BY <3>1, <3>4, <3>6
  <2>12. ASSUME NEW x \in DOMAIN n.cross PROVE x \in DOMAIN to /\ to[x] = f[x]
    <3>1. to = [z \in Elements(q) |-> CrossOrder(r)[CHOOSE k \in DOMAIN q : q[k] = z]]
      BY <1>1, <1>5 DEF sim_to_real, q
    <3> DEFINE k == CHOOSE k \in DOMAIN q : q[k] = x
    <3>2. k \in DOMAIN q /\ q[k] = x
      BY <1>3 DEF Elements
    <3>3. x \in DOMAIN to /\ to[x] = CrossOrder(r)[k]
      BY <1>3, <3>1
    <3> HIDE DEF k, to
    <3>4. QED
      BY <2>2, <2>5, <2>11, <3>2, <3>3
  <2>13. QED
    BY <2>1, <2>10, <2>12 DEF r, S
<1>6. QED
  BY <1>4, <1>5

\* A trained cross that fits is not incompatible.
LEMMA FittingIsCompatible ==
    ASSUME NEW n \in Networks, NEW s \in Payloads, NEW x \in DOMAIN n.cross,
           NEW c \in Crosses(s), Fits(s, n.cross[x], c)
    PROVE  ~Incompatible(n.cross[x], real_normalization(s).crosses[c])
<1> DEFINE sim  == n.cross[x]
           real == real_normalization(s).crosses[c]
           y    == primary_cycle_id(s, c)
<1>1. /\ real.primary = y
      /\ real.cycles = [z \in CyclesOf(s, c) |-> cycle_cfg(s, z)]
  BY DEF real_normalization
<1>2. /\ sim.edges # {} /\ sim.phases # << >>
      /\ \A d \in sim.edges : \E i \in DOMAIN s.roads : LeadsTo(s, i, c, d)
      /\ y \in CyclesOf(s, c)
      /\ Cardinality(StagesOf(s, y)) = Len(sim.phases)
  BY DEF Fits
<1>3. sim.edges \subseteq Directions
  BY NetworksAssumption
<1>4. \A d \in sim.edges : RoadsIn(real, d) # {}
  BY <1>2, <1>3, RoadsInFacts
<1>5. Len(StageOrder(s, y)) = Cardinality(StagesOf(s, y))
  BY StageOrderFacts
<1> HIDE DEF sim, real, y
<1>6. real.primary \in DOMAIN real.cycles /\ Stages(real) = StageOrder(s, y)
  BY <1>1, <1>2 DEF Stages, cycle_cfg
<1>7. ~Incompatible(sim, real)
  BY <1>2, <1>4, <1>5, <1>6 DEF Incompatible
<1>8. QED
  BY <1>7 DEF sim, real

\* The phases of a programme whose phases can be told apart.
LEMMA PhasesToldApart ==
    ASSUME NEW n \in Networks, NEW s \in Payloads,
           NEW x \in Elements(n.ids), x \notin CrossErrors(n, real_normalization(s)),
           ToldApart(n.cross[x])
    PROVE  LET ph  == Mapping(n, s)[x].phases
               sim == n.cross[x]
           IN  /\ DOMAIN ph = DOMAIN sim.phases
               /\ \A k \in DOMAIN ph : ph[k].phase = sim.phases[k]
               /\ \A k, l \in DOMAIN ph : ph[k].phase = ph[l].phase => k = l
               /\ \A k, l \in DOMAIN ph : ph[k].stage = ph[l].stage => k = l
               /\ \A k \in DOMAIN ph : ph[k].std \in 0..(NumPhases - 1)
<1> DEFINE e   == Mapping(n, s)[x]
           sim == n.cross[x]
           ph  == e.phases
           q   == StageOrder(s, e.cycle)
<1>1. /\ x \in DOMAIN n.cross
      /\ DOMAIN ph = DOMAIN sim.phases /\ DOMAIN ph = DOMAIN q
      /\ \A k \in DOMAIN ph :
            /\ ph[k].phase = IF sim.phases[k] # None THEN sim.phases[k] ELSE k - 1
            /\ ph[k].stage = q[k]
            /\ ph[k].std = IF k - 1 \in DOMAIN sim.std THEN sim.std[k - 1]
                           ELSE IF k - 1 < NumPhases THEN k - 1 ELSE NumPhases - 1
  BY EntryFacts
<1>2. \A k, l \in DOMAIN q : q[k] = q[l] => k = l
  BY StageOrderFacts
<1>3. /\ \A k, l \in DOMAIN sim.phases : sim.phases[k] = sim.phases[l] => k = l
      /\ \A k \in DOMAIN sim.phases : sim.phases[k] # None
      /\ \A k \in DOMAIN sim.std : k < Len(sim.phases) => sim.std[k] \in 0..(NumPhases - 1)
  BY DEF ToldApart, Injective, Elements
<1>4. sim.phases \in Seq(Elements(sim.phases))
  BY <1>1, NetworksAssumption
<1>5. DOMAIN sim.phases = 1..Len(sim.phases) /\ Len(sim.phases) \in Nat
  BY <1>4
<1> HIDE DEF e, sim, ph, q
<1>6. \A k \in DOMAIN ph : ph[k].phase = sim.phases[k]
  BY <1>1, <1>3
<1>7. \A k, l \in DOMAIN ph : ph[k].phase = ph[l].phase => k = l
  BY <1>1, <1>3, <1>6
<1>8. \A k, l \in DOMAIN ph : ph[k].stage = ph[l].stage => k = l
  BY <1>1, <1>2
<1>9. ASSUME NEW k \in DOMAIN ph PROVE ph[k].std \in 0..(NumPhases - 1)
  <2> DEFINE j == k - 1
  <2>1. j \in Nat /\ j < Len(sim.phases)
    <3>1. k \in 1..Len(sim.phases)
      BY <1>1, <1>5
    <3>2. QED
      BY <1>5, <3>1
  <2>2. ph[k].std = IF j \in DOMAIN sim.std THEN sim.std[j]
                    ELSE IF j < NumPhases THEN j ELSE NumPhases - 1
    BY <1>1
  <2> HIDE DEF j
  <2>3. CASE j \in DOMAIN sim.std
    BY <1>3, <2>1, <2>2, <2>3
  <2>4. CASE j \notin DOMAIN sim.std
    BY <2>1, <2>2, <2>4 DEF NumPhases
  <2>5. QED
    BY <2>3, <2>4
<1>10. QED
  BY <1>1, <1>6, <1>7, <1>8, <1>9 DEF e, sim, ph

LEMMA FittingIsComposable ==
    ASSUME NEW n \in Networks, NEW s \in Payloads, n.ids # << >>, Crosses(s) # {},
           NEW f \in Assignments(s, n), Injective(f),
           \A x \in DOMAIN f : Fits(s, n.cross[x], f[x]) /\ ToldApart(n.cross[x]),
           ~ShareARoad(s, n, f)
    PROVE  Composable(n, real_normalization(s), Production)
<1> DEFINE r  == real_normalization(s)
           to == sim_to_real(n, r)
           m  == Mapping(n, s)
<1>1. /\ Resolvable(n, r, Production)
      /\ f \in [DOMAIN n.cross -> Crosses(s)]
      /\ \A x \in DOMAIN n.cross : x \in DOMAIN to /\ to[x] = f[x]
  BY AssignmentIsTaken
<1>2. Elements(n.ids) = DOMAIN n.cross /\ DOMAIN f = DOMAIN n.cross
  BY <1>1, NetworksAssumption
<1>3. DOMAIN r.crosses = Crosses(s)
  BY DEF real_normalization
<1>4. \A x \in DOMAIN n.cross : ~Incompatible(n.cross[x], r.crosses[f[x]])
  <2> TAKE x \in DOMAIN n.cross
  <2>1. f[x] \in Crosses(s) /\ Fits(s, n.cross[x], f[x])
    BY <1>1, <1>2
  <2>2. QED
    BY <2>1, FittingIsCompatible
<1>5. CrossErrors(n, r) = {}
  <2> HIDE DEF r
  <2>1. QED
    BY <1>1, <1>2, <1>3, <1>4 DEF CrossErrors
<1>6. DOMAIN m = DOMAIN n.cross
  BY <1>2 DEF Mapping, deployment_map
<1>7. ASSUME NEW x \in DOMAIN m
      PROVE  /\ m[x].real = f[x] /\ f[x] \in Crosses(s)
             /\ DOMAIN m[x].roads = n.cross[x].edges
             /\ n.cross[x].edges \subseteq Directions
             /\ \A d \in DOMAIN m[x].roads : Chosen(s, m[x].roads[d], f[x], d)
  <2>1. x \in Elements(n.ids) /\ x \notin CrossErrors(n, r)
    BY <1>2, <1>5, <1>6, <1>7
  <2>2. m[x].real = f[x]
    <3>1. m[x].real = to[x]
      BY <2>1, EntryFacts
    <3>2. QED
      BY <1>1, <1>6, <3>1
  <2>3. /\ DOMAIN m[x].roads = n.cross[x].edges
        /\ n.cross[x].edges \subseteq Directions
        /\ \A d \in DOMAIN m[x].roads : Chosen(s, m[x].roads[d], m[x].real, d)
    BY <2>1, EntryFacts
  <2> HIDE DEF m
  <2>4. QED
    BY <1>1, <1>2, <1>6, <2>2, <2>3
<1>8. ASSUME NEW x \in DOMAIN m
      PROVE  /\ DOMAIN m[x].phases = DOMAIN n.cross[x].phases
             /\ \A k \in DOMAIN m[x].phases : m[x].phases[k].phase = n.cross[x].phases[k]
             /\ \A k, l \in DOMAIN m[x].phases :
                   m[x].phases[k].phase = m[x].phases[l].phase => k = l
             /\ \A k, l \in DOMAIN m[x].phases :
                   m[x].phases[k].stage = m[x].phases[l].stage => k = l
             /\ \A k \in DOMAIN m[x].phases : m[x].phases[k].std \in 0..(NumPhases - 1)
  <2>1. x \in Elements(n.ids) /\ x \notin CrossErrors(n, r) /\ ToldApart(n.cross[x])
    BY <1>2, <1>5, <1>6, <1>8
  <2>2. QED
    BY <2>1, PhasesToldApart
\* A road chosen at two crosses would be shared; at one it has one direction.
<1>9. ASSUME NEW x \in DOMAIN m, NEW z \in DOMAIN m,
             NEW d \in DOMAIN m[x].roads, NEW e \in DOMAIN m[z].roads,
             m[x].roads[d] = m[z].roads[e]
      PROVE  x = z /\ d = e
  <2> DEFINE i == m[x].roads[d]
  <2>1. Chosen(s, i, f[x], d) /\ Chosen(s, i, f[z], e)
    BY <1>7, <1>9
  <2>2. f[x] \in Crosses(s) /\ f[z] \in Crosses(s)
    BY <1>7
  <2> HIDE DEF i
  <2>3. i \in DOMAIN s.roads /\ LeadsTo(s, i, f[x], d) /\ LeadsTo(s, i, f[z], e)
    BY <2>1, <2>2, CandidatesLead DEF Chosen
  <2>4. d \in n.cross[x].edges /\ e \in n.cross[z].edges
    BY <1>7, <1>9
  <2>5. x = z
    <3> SUFFICES ASSUME x # z PROVE FALSE
      OBVIOUS
    <3>1. \E a, b \in DOMAIN f : \E j \in DOMAIN s.roads :
              /\ a # b
              /\ \E u \in n.cross[a].edges : LeadsTo(s, j, f[a], u)
              /\ \E u \in n.cross[b].edges : LeadsTo(s, j, f[b], u)
      <4>1. x \in DOMAIN f /\ z \in DOMAIN f
        BY <1>2, <1>6
      <4> HIDE DEF m
      <4>2. QED
        BY <2>3, <2>4, <4>1
    <3>2. QED
      BY <3>1 DEF ShareARoad
  <2>6. d = e
    BY <2>3, <2>5 DEF LeadsTo
  <2>7. QED
    BY <2>5, <2>6
<1>10. \A x \in DOMAIN m : DOMAIN m[x].roads # {}
  <2> TAKE x \in DOMAIN m
  <2>1. Fits(s, n.cross[x], f[x])
    BY <1>2, <1>6
  <2>2. n.cross[x].edges # {}
    BY <2>1 DEF Fits
  <2>3. QED
    BY <1>7, <2>2
<1>11. \A x, z \in DOMAIN m : m[x].real = m[z].real => x = z
  <2>1. \A x, z \in DOMAIN f : f[x] = f[z] => x = z
    BY DEF Injective
  <2>2. QED
    BY <1>2, <1>6, <1>7, <2>1
<1> HIDE DEF m
<1>12. WellFormed(m)
  <2>1. ASSUME NEW x \in DOMAIN m
        PROVE  /\ Injective([k \in DOMAIN m[x].phases |-> m[x].phases[k].phase])
               /\ Injective([k \in DOMAIN m[x].phases |-> m[x].phases[k].stage])
    BY <1>8, <2>1 DEF Injective
  <2>2. Injective([x \in DOMAIN m |-> m[x].real])
    BY <1>11 DEF Injective
  <2>3. \A x \in DOMAIN m : \A k \in DOMAIN m[x].phases :
            m[x].phases[k].std \in 0..(NumPhases - 1)
    BY <1>8
  <2>4. \A x, y \in DOMAIN m : \A d \in DOMAIN m[x].roads, e \in DOMAIN m[y].roads :
            m[x].roads[d] = m[y].roads[e] => x = y /\ d = e
    BY <1>9
  <2>5. QED
    BY <1>10, <2>1, <2>2, <2>3, <2>4 DEF WellFormed
<1>13. PhasesKnown(n, m)
  <2>1. \A x \in DOMAIN m : \A k \in DOMAIN m[x].phases :
            m[x].phases[k].phase \in Elements(n.cross[x].phases)
    BY <1>8 DEF Elements
  <2>2. QED
    BY <2>1 DEF PhasesKnown
<1>14. QED
  BY <1>1, <1>3, <1>5, <1>12, <1>13 DEF Composable, m, Mapping

LEMMA RefusedFromInv == Inv => RefusedForAReason
<1> SUFFICES ASSUME Inv, row # None, NEW n \in Networks, n.ids # << >>, Crosses(row) # {},
                    ~Composable(n, real_normalization(row), Production),
                    NEW f \in Assignments(row, n)
             PROVE  \/ ~Injective(f)
                    \/ \E x \in DOMAIN f : ~Fits(row, n.cross[x], f[x]) \/ ~ToldApart(n.cross[x])
                    \/ ShareARoad(row, n, f)
  BY DEF RefusedForAReason
<1>1. row \in Payloads
  BY DEF Inv, StateInv
<1>2. QED
  BY <1>1, FittingIsComposable

\* A composition is refused only for a reason that lies in the data: whatever assignment of
\* sim crosses to real ones the snapshot leaves open, it maps two to one, lacks a road or a
\* stage, has phases that cannot be told apart, or crosses that may share a road.
THEOREM RefusalsHaveAReason == Spec => []RefusedForAReason
BY InvAlways, RefusedFromInv, PTL
=============================================================================
