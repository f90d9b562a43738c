--------------------------- MODULE HashRingProofs ---------------------------
(***************************************************************************)
(* What compute_placement returns, for every ring order, rack layout, N    *)
(* and set of eligible nodes; and that the ring and its loops compute it,  *)
(* for every hash, weights and history of nodes that join and leave.       *)
(***************************************************************************)
EXTENDS HashRing, FiniteSetTheorems, FunctionTheorems, WellFoundedInduction,
    TLAPS

Lesser(a, b) == IF a <= b THEN a ELSE b

Racks(S) == {Rack[n] : n \in S}

(* Every node has its own place in the walk.                               *)
Ranks ==
    {rank \in [Nodes -> Nat] :
        \A m, n \in Nodes : rank[m] = rank[n] => m = n}

(* The leaders that Placed starts with.                                    *)
Chosen(rank, S) == FirstOf(rank, Leaders(rank, S), N)

LEMMA PlacedDef ==
    ASSUME NEW rank, NEW S
    PROVE  Placed(rank, S) =
               Chosen(rank, S) \cup FirstOf(rank, S \ Chosen(rank, S),
                                         N - Cardinality(Chosen(rank, S)))
  BY DEF Placed, Chosen

LEMMA NodesFinite ==
    ASSUME NEW S \in SUBSET Nodes
    PROVE  IsFiniteSet(S) /\ Cardinality(S) \in Nat
  BY HashRingAssumption, FS_Subset, FS_CardinalityType

LEMMA Ranked ==
    ASSUME NEW rank \in Ranks
    PROVE  /\ \A n \in Nodes : rank[n] \in Nat
           /\ \A m, n \in Nodes : m # n =>
                  \/ rank[m] < rank[n]
                  \/ rank[n] < rank[m]
  <1>1. \A n \in Nodes : rank[n] \in Nat
    BY DEF Ranks
  <1>2. \A m, n \in Nodes : m # n => rank[m] # rank[n]
    BY DEF Ranks
  <1> QED BY <1>1, <1>2

-----------------------------------------------------------------------------
(* The walk of a key numbers the nodes of a set from 0 on.                 *)
LEMMA Positions ==
    ASSUME NEW rank \in Ranks, NEW S \in SUBSET Nodes
    PROVE  LET pos == [n \in S |-> Cardinality(Before(rank, S, n))]
               top == Cardinality(S) - 1
           IN  /\ pos \in [S -> 0 .. top]
               /\ \A m, n \in S : pos[m] = pos[n] => m = n
               /\ \A i \in 0 .. top : \E n \in S : pos[n] = i
  <1> DEFINE pos == [n \in S |-> Cardinality(Before(rank, S, n))]
             top == Cardinality(S) - 1
  <1>1. IsFiniteSet(S) /\ Cardinality(S) \in Nat
    BY NodesFinite
  <1>2. ASSUME NEW n \in S
        PROVE  /\ Before(rank, S, n) \in SUBSET Nodes
               /\ IsFiniteSet(Before(rank, S, n))
               /\ Cardinality(Before(rank, S, n)) \in 0 .. top
    <2>1. Before(rank, S, n) \in SUBSET S /\ n \notin Before(rank, S, n)
      BY Ranked DEF Before
    <2>2. /\ Cardinality(Before(rank, S, n)) <= Cardinality(S)
          /\ Cardinality(Before(rank, S, n)) # Cardinality(S)
      BY <1>1, <2>1, FS_Subset
    <2>3. IsFiniteSet(Before(rank, S, n)) /\ Cardinality(Before(rank, S, n)) \in Nat
      BY <2>1, NodesFinite
    <2> QED BY <1>1, <2>1, <2>2, <2>3
  <1>3. ASSUME NEW m \in S, NEW n \in S, rank[m] < rank[n]
        PROVE  Cardinality(Before(rank, S, m)) < Cardinality(Before(rank, S, n))
    <2>1. Before(rank, S, m) \in SUBSET Before(rank, S, n)
      <3> SUFFICES ASSUME NEW x \in S, rank[x] < rank[m]
                   PROVE  rank[x] < rank[n]
        BY DEF Before
      <3>1. /\ rank[x] \in Nat /\ rank[m] \in Nat
            /\ rank[n] \in Nat
        BY Ranked
      <3> QED BY <1>3, <3>1
    <2>2. m \in Before(rank, S, n) /\ m \notin Before(rank, S, m)
      BY <1>3, Ranked DEF Before
    <2>3. /\ Cardinality(Before(rank, S, m)) <= Cardinality(Before(rank, S, n))
          /\ Cardinality(Before(rank, S, m)) # Cardinality(Before(rank, S, n))
      BY <1>2, <2>1, <2>2, FS_Subset
    <2>4. /\ Cardinality(Before(rank, S, m)) \in Nat
          /\ Cardinality(Before(rank, S, n)) \in Nat
      BY <1>2, NodesFinite
    <2> QED BY <2>3, <2>4
  <1>4. pos \in [S -> 0 .. top]
    BY <1>2
  <1>5. ASSUME NEW m \in S, NEW n \in S, pos[m] = pos[n] PROVE m = n
    <2> SUFFICES ASSUME m # n PROVE FALSE OBVIOUS
    <2>1. /\ Cardinality(Before(rank, S, m)) = Cardinality(Before(rank, S, n))
          /\ Cardinality(Before(rank, S, m)) \in Nat
      BY <1>2, <1>5, NodesFinite
    <2>2. rank[m] < rank[n] \/ rank[n] < rank[m]
      BY Ranked
    <2>3. \/ Cardinality(Before(rank, S, m)) < Cardinality(Before(rank, S, n))
          \/ Cardinality(Before(rank, S, n)) < Cardinality(Before(rank, S, m))
      BY <1>3, <2>2
    <2> QED BY <2>1, <2>3
  <1> HIDE DEF pos
  <1>6. pos \in Injection(S, 0 .. top)
    BY <1>4, <1>5, Fun_IsInj
  <1>7. IsFiniteSet(0 .. top) /\ Cardinality(0 .. top) = Cardinality(S)
    BY <1>1, FS_Interval
  <1>8. pos \in Surjection(S, 0 .. top)
    BY <1>6, <1>7, FS_Injection
  <1>9. \A i \in 0 .. top : \E n \in S : pos[n] = i
    BY <1>8 DEF Surjection
  <1> QED BY <1>4, <1>5, <1>9 DEF pos

(* The first `count` of a set are that many, or all.                       *)
LEMMA FirstOfCount ==
    ASSUME NEW rank \in Ranks, NEW S \in SUBSET Nodes, NEW count \in Nat
    PROVE  /\ FirstOf(rank, S, count) \subseteq S
           /\ Cardinality(FirstOf(rank, S, count)) = Lesser(count, Cardinality(S))
           /\ Cardinality(S) <= count => FirstOf(rank, S, count) = S
  <1> DEFINE pos   == [n \in S |-> Cardinality(Before(rank, S, n))]
             top   == Cardinality(S) - 1
             first == FirstOf(rank, S, count)
             size  == Lesser(count, Cardinality(S))
             place == [n \in first |-> pos[n]]
  <1>1. /\ pos \in [S -> 0 .. top]
        /\ \A m, n \in S : pos[m] = pos[n] => m = n
        /\ \A i \in 0 .. top : \E n \in S : pos[n] = i
    BY Positions
  <1>2. first = {n \in S : pos[n] < count}
    BY DEF FirstOf
  <1>3. Cardinality(S) \in Nat /\ size \in Nat
    BY NodesFinite DEF Lesser
  <1>4. /\ size <= count /\ size <= Cardinality(S)
        /\ size = count \/ size = Cardinality(S)
    BY <1>3 DEF Lesser
  <1> HIDE DEF pos, first, size
  <1>5. \A n \in first : n \in S /\ pos[n] \in 0 .. (size - 1)
    <2> SUFFICES ASSUME NEW n \in S, pos[n] < count
                 PROVE  pos[n] \in 0 .. (size - 1)
      BY <1>2
    <2>1. pos[n] \in 0 .. top
      BY <1>1
    <2> QED BY <1>3, <1>4, <2>1
  <1>6. place \in [first -> 0 .. (size - 1)]
    BY <1>5
  <1>7. place \in Injection(first, 0 .. (size - 1))
    <2>1. \A m, n \in first : place[m] = place[n] => m = n
      BY <1>1, <1>5
    <2> HIDE DEF place
    <2> QED BY <1>6, <2>1, Fun_IsInj
  <1>8. ASSUME NEW i \in 0 .. (size - 1)
        PROVE  \E n \in first : place[n] = i
    <2>1. i \in 0 .. top /\ i < count
      BY <1>3, <1>4
    <2>2. PICK n \in S : pos[n] = i
      BY <1>1, <2>1
    <2>3. n \in first
      BY <1>2, <2>1, <2>2
    <2> QED BY <2>2, <2>3
  <1>9. IsFiniteSet(0 .. (size - 1)) /\ Cardinality(0 .. (size - 1)) = size
    <2> DEFINE last == size - 1
    <2>1. last \in Int /\ (0 > last <=> size = 0)
      BY <1>3
    <2> HIDE DEF last
    <2>2. /\ IsFiniteSet(0 .. last)
          /\ Cardinality(0 .. last) = IF 0 > last THEN 0 ELSE last - 0 + 1
      BY <2>1, FS_Interval
    <2>3. (IF 0 > last THEN 0 ELSE last - 0 + 1) = size
      BY <1>3, <2>1 DEF last
    <2> QED BY <2>2, <2>3 DEF last
  <1>10. Cardinality(first) = size
    <2>1. place \in Surjection(first, 0 .. (size - 1))
      BY <1>6, <1>8 DEF Surjection
    <2> HIDE DEF place
    <2> QED BY <1>7, <1>9, <2>1, FS_Injection
  <1>11. ASSUME Cardinality(S) <= count PROVE first = S
    <2>1. \A n \in S : pos[n] < count
      <3> SUFFICES ASSUME NEW n \in S PROVE pos[n] < count OBVIOUS
      <3>1. pos[n] \in 0 .. top
        BY <1>1
      <3> QED BY <1>3, <1>11, <3>1
    <2> QED BY <1>2, <2>1
  <1> QED BY <1>2, <1>10, <1>11 DEF first, size

LEMMA First ==
    ASSUME NEW rank \in Ranks, NEW S \in SUBSET Nodes, S # {}
    PROVE  \E n \in S : Before(rank, S, n) = {}
  <1>1. Cardinality(S) \in Nat /\ Cardinality(S) # 0
    BY NodesFinite, FS_EmptySet
  <1>2. 0 \in 0 .. (Cardinality(S) - 1)
    BY <1>1
  <1>3. PICK n \in S : Cardinality(Before(rank, S, n)) = 0
    BY <1>2, Positions
  <1>4. IsFiniteSet(Before(rank, S, n))
    BY NodesFinite DEF Before
  <1> QED BY <1>3, <1>4, FS_EmptySet

(* Fewer are before a node when the set loses some of them.                *)
LEMMA FewerBefore ==
    ASSUME NEW rank, NEW S \in SUBSET Nodes, NEW T \in SUBSET Nodes,
           NEW n, NEW m, Before(rank, T, n) \subseteq Before(rank, S, m)
    PROVE  Cardinality(Before(rank, T, n)) <= Cardinality(Before(rank, S, m))
  <1>1. IsFiniteSet(Before(rank, S, m))
    BY NodesFinite DEF Before
  <1> QED BY <1>1, FS_Subset

LEMMA RacksCounted ==
    ASSUME NEW S \in SUBSET Nodes
    PROVE  /\ IsFiniteSet(Racks(S)) /\ Cardinality(Racks(S)) \in Nat
           /\ Cardinality(Racks(S)) <= Cardinality(S)
           /\ (\A m, n \in S : Rack[m] = Rack[n] => m = n) =>
                  Cardinality(Racks(S)) = Cardinality(S)
  <1> DEFINE rackOf == [n \in S |-> Rack[n]]
  <1>1. IsFiniteSet(S)
    BY NodesFinite
  <1>2. rackOf \in [S -> Racks(S)]
    BY DEF Racks
  <1>3. \A r \in Racks(S) : \E n \in S : rackOf[n] = r
    BY DEF Racks
  <1>4. (\A m, n \in S : Rack[m] = Rack[n] => m = n) =>
            \A m, n \in S : rackOf[m] = rackOf[n] => m = n
    OBVIOUS
  <1> HIDE DEF rackOf
  <1>5. rackOf \in Surjection(S, Racks(S))
    BY <1>2, <1>3 DEF Surjection
  <1>6. /\ IsFiniteSet(Racks(S)) /\ Cardinality(Racks(S)) <= Cardinality(S)
        /\ Cardinality(Racks(S)) = Cardinality(S)
               <=> rackOf \in Injection(S, Racks(S))
    BY <1>1, <1>5, FS_Surjection
  <1>7. (\A m, n \in S : Rack[m] = Rack[n] => m = n) =>
            rackOf \in Injection(S, Racks(S))
    BY <1>2, <1>4, Fun_IsInj
  <1> QED BY <1>6, <1>7, FS_CardinalityType

-----------------------------------------------------------------------------
(* Every rack has one leader.                                              *)
LEMMA LeadersOfRacks ==
    ASSUME NEW rank \in Ranks, NEW S \in SUBSET Nodes
    PROVE  /\ Leaders(rank, S) \subseteq S
           /\ \A m, n \in Leaders(rank, S) : Rack[m] = Rack[n] => m = n
           /\ Racks(Leaders(rank, S)) = Racks(S)
  <1>1. Leaders(rank, S) \subseteq S
    BY DEF Leaders
  <1>2. ASSUME NEW m \in Leaders(rank, S), NEW n \in Leaders(rank, S),
               Rack[m] = Rack[n], m # n
        PROVE  FALSE
    <2>1. rank[m] < rank[n] \/ rank[n] < rank[m]
      BY <1>1, <1>2, Ranked
    <2> QED BY <1>2, <2>1 DEF Leaders, Before
  <1>3. ASSUME NEW n \in S
        PROVE  \E m \in Leaders(rank, S) : Rack[m] = Rack[n]
    <2> DEFINE same == {m \in S : Rack[m] = Rack[n]}
    <2>1. same \in SUBSET Nodes /\ n \in same
      OBVIOUS
    <2>2. PICK m \in same : Before(rank, same, m) = {}
      BY <2>1, First
    <2>3. m \in Leaders(rank, S)
      BY <2>2 DEF Leaders, Before
    <2> QED BY <2>3
  <1> QED BY <1>1, <1>2, <1>3 DEF Racks

LEMMA ChosenLeaders ==
    ASSUME NEW rank \in Ranks, NEW S \in SUBSET Nodes
    PROVE  /\ Chosen(rank, S) \subseteq Leaders(rank, S)
           /\ Cardinality(Chosen(rank, S)) =
                  Lesser(N, Cardinality(Leaders(rank, S)))
           /\ Cardinality(Leaders(rank, S)) <= N => Chosen(rank, S) = Leaders(rank, S)
           /\ Cardinality(Chosen(rank, S)) \in Nat
           /\ Cardinality(Leaders(rank, S)) \in Nat
           /\ Cardinality(Chosen(rank, S)) <= N
           /\ Cardinality(Chosen(rank, S)) < N => Chosen(rank, S) = Leaders(rank, S)
  <1>1. Leaders(rank, S) \in SUBSET Nodes
    BY LeadersOfRacks
  <1>2. /\ Chosen(rank, S) \subseteq Leaders(rank, S)
        /\ Cardinality(Chosen(rank, S)) = Lesser(N, Cardinality(Leaders(rank, S)))
        /\ Cardinality(Leaders(rank, S)) <= N => Chosen(rank, S) = Leaders(rank, S)
    BY <1>1, FirstOfCount, HashRingAssumption DEF Chosen
  <1>3. Cardinality(Leaders(rank, S)) \in Nat
    BY <1>1, NodesFinite
  <1> QED BY <1>2, <1>3, HashRingAssumption DEF Lesser

(* compute_placement takes nodes that are eligible, N of them, or all that *)
(* there are.                                                              *)
THEOREM PlacedCount ==
    ASSUME NEW rank \in Ranks, NEW S \in SUBSET Nodes
    PROVE  /\ Placed(rank, S) \subseteq S
           /\ Cardinality(Placed(rank, S)) = Lesser(N, Cardinality(S))
  <1> DEFINE chosen == Chosen(rank, S)
             slots  == N - Cardinality(chosen)
             others == FirstOf(rank, S \ chosen, slots)
  <1>1. /\ chosen \in SUBSET S /\ Cardinality(chosen) \in Nat
        /\ Cardinality(chosen) <= N
    BY ChosenLeaders, LeadersOfRacks
  <1>2. slots \in Nat
    BY <1>1, HashRingAssumption
  <1>3. S \ chosen \in SUBSET Nodes
    OBVIOUS
  <1> HIDE DEF chosen, slots
  <1>4. /\ others \subseteq S \ chosen
        /\ Cardinality(others) = Lesser(slots, Cardinality(S \ chosen))
    BY <1>2, <1>3, FirstOfCount
  <1>5. /\ IsFiniteSet(S) /\ Cardinality(S) \in Nat
        /\ IsFiniteSet(chosen)
        /\ IsFiniteSet(others) /\ Cardinality(others) \in Nat
    BY <1>1, <1>4, NodesFinite
  <1>6. Cardinality(S \ chosen) = Cardinality(S) - Cardinality(chosen)
    <2>1. S \cap chosen = chosen
      BY <1>1
    <2> QED BY <1>5, <2>1, FS_Difference
  <1>7. Cardinality(chosen \cup others) =
            Cardinality(chosen) + Cardinality(others)
    <2>1. chosen \cap others = {}
      BY <1>4
    <2>2. Cardinality(chosen \cap others) = 0
      BY <2>1, FS_EmptySet
    <2> HIDE DEF others
    <2>3. Cardinality(chosen \cup others) =
              Cardinality(chosen) + Cardinality(others)
                - Cardinality(chosen \cap others)
      BY <1>5, FS_Union
    <2> QED BY <1>1, <1>5, <2>2, <2>3
  <1>8. slots = N - Cardinality(chosen)
    BY DEF slots
  <1>9. Cardinality(chosen) <= Cardinality(S)
    BY <1>1, <1>5, FS_Subset
  <1>10. Cardinality(chosen \cup others) = Lesser(N, Cardinality(S))
    BY <1>1, <1>4, <1>5, <1>6, <1>7, <1>8, <1>9, HashRingAssumption DEF Lesser
  <1>11. Placed(rank, S) = chosen \cup others
    BY <1>8, PlacedDef DEF chosen
  <1> QED BY <1>1, <1>4, <1>10, <1>11

(* They are on N racks, or on as many as the eligible nodes are.           *)
THEOREM PlacedOnRacks ==
    ASSUME NEW rank \in Ranks, NEW S \in SUBSET Nodes
    PROVE  Cardinality(Racks(Placed(rank, S))) =
               Lesser(N, Cardinality(Racks(S)))
  <1> DEFINE placed == Placed(rank, S)
  <1>1. /\ placed \in SUBSET Nodes /\ placed \subseteq S
        /\ Cardinality(placed) <= N
        /\ Cardinality(placed) \in Nat
    <2>1. placed \subseteq S /\ Cardinality(placed) = Lesser(N, Cardinality(S))
      BY PlacedCount
    <2>2. Cardinality(S) \in Nat
      BY NodesFinite
    <2> QED BY <2>1, <2>2, HashRingAssumption DEF Lesser
  <1>2. Chosen(rank, S) \subseteq placed
    BY PlacedDef
  <1> HIDE DEF placed
  <1>3. Cardinality(Racks(Chosen(rank, S))) = Lesser(N, Cardinality(Racks(S)))
    <2>1. /\ Leaders(rank, S) \in SUBSET Nodes /\ Chosen(rank, S) \in SUBSET Nodes
          /\ Chosen(rank, S) \subseteq Leaders(rank, S)
          /\ \A m, n \in Leaders(rank, S) : Rack[m] = Rack[n] => m = n
      BY LeadersOfRacks, ChosenLeaders
    <2>2. /\ Cardinality(Racks(Chosen(rank, S))) = Cardinality(Chosen(rank, S))
          /\ Cardinality(Racks(Leaders(rank, S))) = Cardinality(Leaders(rank, S))
      BY <2>1, RacksCounted
    <2> QED BY <2>2, LeadersOfRacks, ChosenLeaders
  <1>4. /\ Racks(Chosen(rank, S)) \subseteq Racks(placed)
        /\ Racks(placed) \subseteq Racks(S)
    BY <1>1, <1>2 DEF Racks
  <1>5. /\ IsFiniteSet(Racks(placed)) /\ Cardinality(Racks(placed)) \in Nat
        /\ Cardinality(Racks(placed)) <= Cardinality(placed)
        /\ IsFiniteSet(Racks(S)) /\ Cardinality(Racks(S)) \in Nat
    BY <1>1, RacksCounted
  <1>6. /\ Cardinality(Racks(Chosen(rank, S))) <= Cardinality(Racks(placed))
        /\ Cardinality(Racks(placed)) <= Cardinality(Racks(S))
    BY <1>4, <1>5, FS_Subset
  <1> QED
    BY <1>1, <1>3, <1>5, <1>6, HashRingAssumption DEF Lesser, placed

-----------------------------------------------------------------------------
LEMMA Replaced ==
    ASSUME NEW A, NEW B, IsFiniteSet(B), NEW n,
           \/ A \subseteq B
           \/ n \in B /\ \E m : A \subseteq (B \ {n}) \cup {m}
    PROVE  Cardinality(A) <= Cardinality(B)
  <1>1. CASE A \subseteq B
    BY <1>1, FS_Subset
  <1>2. ASSUME n \in B, NEW m, A \subseteq (B \ {n}) \cup {m}
        PROVE  Cardinality(A) <= Cardinality(B)
    <2> DEFINE C == (B \ {n}) \cup {m}
    <2>1. /\ IsFiniteSet(B \ {n})
          /\ Cardinality(B \ {n}) = Cardinality(B) - 1
      BY <1>2, FS_RemoveElement
    <2>2. Cardinality(B) \in Nat /\ Cardinality(B \ {n}) \in Nat
      BY <2>1, FS_CardinalityType
    <2>3. /\ IsFiniteSet(C) /\ Cardinality(C) \in Nat
          /\ \/ Cardinality(C) = Cardinality(B \ {n})
             \/ Cardinality(C) = Cardinality(B \ {n}) + 1
      BY <2>1, FS_AddElement, FS_CardinalityType
    <2>4. A \in SUBSET C
      BY <1>2
    <2> HIDE DEF C
    <2>5. Cardinality(A) <= Cardinality(C) /\ IsFiniteSet(A)
      BY <2>3, <2>4, FS_Subset
    <2>6. Cardinality(A) \in Nat
      BY <2>5, FS_CardinalityType
    <2> QED BY <2>1, <2>2, <2>3, <2>5, <2>6
  <1> QED BY <1>1, <1>2

(* When n leaves, its rack has a new leader if n was one and the rack has  *)
(* another node, and the other racks keep theirs.                          *)
LEMMA LeaderReplaced ==
    ASSUME NEW rank \in Ranks, NEW S \in SUBSET Nodes, NEW n \in S
    PROVE  LET L == Leaders(rank, S)  M == Leaders(rank, S \ {n})
           IN  /\ L \ {n} \subseteq M
               /\ \A m \in M \ L : n \in L /\ n \in Before(rank, S, m)
               /\ \A l, m \in M \ L : l = m
  <1> DEFINE T == S \ {n}
             L == Leaders(rank, S)
             M == Leaders(rank, T)
  <1>1. T \in SUBSET Nodes
    OBVIOUS
  <1>2. L \ {n} \subseteq M
    BY DEF Leaders, Before
  <1>3. ASSUME NEW m \in M \ L
        PROVE  /\ n \in Before(rank, S, m) /\ Rack[m] = Rack[n]
               /\ n \in L
    <2>1. n \in Before(rank, S, m) /\ Rack[m] = Rack[n]
      BY DEF Leaders, Before
    <2>2. ASSUME NEW p \in Before(rank, S, n), Rack[p] = Rack[n]
          PROVE  FALSE
      <3>1. /\ rank[p] < rank[n]
            /\ rank[n] < rank[m]
            /\ p \in S /\ m \in S
        BY <2>1, <2>2 DEF Before, Leaders
      <3>2. /\ rank[p] \in Nat /\ rank[n] \in Nat
            /\ rank[m] \in Nat
        BY <3>1, Ranked
      <3>3. rank[p] < rank[m] /\ p # n
        BY <3>1, <3>2
      <3>4. p \in Before(rank, T, m)
        BY <3>1, <3>3 DEF Before
      <3> QED BY <2>1, <2>2, <3>4 DEF Leaders
    <2>3. n \in L
      BY <2>2 DEF Leaders
    <2> QED BY <2>1, <2>3
  <1>4. ASSUME NEW l \in M \ L, NEW m \in M \ L PROVE l = m
    <2>1. Rack[l] = Rack[m]
      BY <1>3
    <2>2. \A x, y \in M : Rack[x] = Rack[y] => x = y
      BY <1>1, LeadersOfRacks
    <2> QED BY <2>1, <2>2
  <1> QED BY <1>2, <1>3, <1>4

(* No more leaders are there than before, and no more before any of them.  *)
LEMMA LeadersFewer ==
    ASSUME NEW rank \in Ranks, NEW S \in SUBSET Nodes, NEW n \in S
    PROVE  LET L == Leaders(rank, S)  M == Leaders(rank, S \ {n})
           IN  /\ Cardinality(M) <= Cardinality(L)
               /\ \A x \in Nodes : Cardinality(Before(rank, M, x))
                                      <= Cardinality(Before(rank, L, x))
  <1> DEFINE L == Leaders(rank, S)
             M == Leaders(rank, S \ {n})
  <1>1. /\ L \ {n} \subseteq M
        /\ \A m \in M \ L : n \in L /\ n \in Before(rank, S, m)
        /\ \A l, m \in M \ L : l = m
    BY LeaderReplaced
  <1>2. L \in SUBSET Nodes /\ M \in SUBSET Nodes /\ n \notin M /\ L \subseteq S
    BY LeadersOfRacks DEF Leaders
  <1> HIDE DEF L, M
  <1>3. Cardinality(M) <= Cardinality(L)
    <2>1. \/ M \subseteq L
          \/ n \in L /\ \E m : M \subseteq (L \ {n}) \cup {m}
      BY <1>1, <1>2
    <2>2. IsFiniteSet(L)
      BY <1>2, NodesFinite
    <2> QED BY <2>1, <2>2, Replaced
  <1>4. ASSUME NEW x \in Nodes
        PROVE  Cardinality(Before(rank, M, x)) <= Cardinality(Before(rank, L, x))
    <2> DEFINE A == Before(rank, M, x)
               B == Before(rank, L, x)
    <2>1. ASSUME NEW m \in A \ L PROVE n \in B
      <3>1. m \in M \ L /\ m \in Nodes /\ rank[m] < rank[x]
        BY <1>2 DEF Before
      <3>2. n \in L /\ rank[n] < rank[m]
        BY <1>1, <3>1 DEF Before
      <3>3. /\ rank[n] \in Nat /\ rank[m] \in Nat
            /\ rank[x] \in Nat
        BY <3>1, Ranked
      <3>4. rank[n] < rank[x]
        BY <3>1, <3>2, <3>3
      <3> QED BY <3>2, <3>4 DEF Before
    <2>2. A \cap L \subseteq B \ {n} /\ A \subseteq M
      BY <1>2 DEF Before
    <2> HIDE DEF A, B
    <2>3. \/ A \subseteq B
          \/ n \in B /\ \E m : A \subseteq (B \ {n}) \cup {m}
      <3>1. CASE A \subseteq L
        BY <2>2, <3>1
      <3>2. ASSUME NEW m \in A \ L
            PROVE  n \in B /\ A \subseteq (B \ {n}) \cup {m}
        <4>1. \A l \in A \ L : l = m
          BY <1>1, <2>2, <3>2
        <4> QED BY <2>1, <2>2, <4>1
      <3> QED BY <3>1, <3>2
    <2>4. IsFiniteSet(B)
      BY <1>2, NodesFinite DEF B, Before
    <2>5. Cardinality(A) <= Cardinality(B)
      BY <2>3, <2>4, Replaced
    <2> QED BY <2>5 DEF A, B
  <1> QED BY <1>3, <1>4 DEF L, M

(* A node that leaves the eligible ones displaces no other: whoever holds  *)
(* a replica is still where the policy would place one.                    *)
THEOREM PlacementStable ==
    ASSUME NEW rank \in Ranks, NEW S \in SUBSET Nodes, NEW n \in S
    PROVE  Placed(rank, S) \ {n} \subseteq Placed(rank, S \ {n})
  <1> DEFINE T == S \ {n}
             L == Leaders(rank, S)
             M == Leaders(rank, T)
             C == Chosen(rank, S)
             D == Chosen(rank, T)
  <1>1. T \in SUBSET Nodes /\ L \subseteq S /\ M \subseteq T /\ C \subseteq L
    BY LeadersOfRacks, ChosenLeaders
  <1>2. /\ L \ {n} \subseteq M
        /\ Cardinality(M) <= Cardinality(L)
        /\ \A x \in Nodes : Cardinality(Before(rank, M, x))
                               <= Cardinality(Before(rank, L, x))
    BY LeaderReplaced, LeadersFewer
  <1>3. /\ Cardinality(C) \in Nat /\ Cardinality(C) <= N
        /\ Cardinality(C) < N => C = L
    BY ChosenLeaders
  <1>4. /\ Cardinality(L) \in Nat /\ Cardinality(M) \in Nat
        /\ Cardinality(M) <= N => D = M
    BY <1>1, ChosenLeaders
  <1>5. /\ Placed(rank, S) = C \cup FirstOf(rank, S \ C, N - Cardinality(C))
        /\ Placed(rank, T) = D \cup FirstOf(rank, T \ D, N - Cardinality(D))
    BY PlacedDef
  <1>6. C = {x \in L : Cardinality(Before(rank, L, x)) < N}
    BY DEF Chosen, FirstOf
  <1>7. D = {x \in M : Cardinality(Before(rank, M, x)) < N}
    BY DEF Chosen, FirstOf
  <1>8. \A A \in SUBSET Nodes : \A x : Cardinality(Before(rank, A, x)) \in Nat
    BY NodesFinite DEF Before
  <1> HIDE DEF T, L, M, C, D
  <1>9. ASSUME NEW x \in C, x # n PROVE x \in D
    <2>1. x \in M /\ x \in Nodes /\ L \in SUBSET Nodes /\ M \in SUBSET Nodes
      BY <1>1, <1>2, <1>9 DEF T
    <2>2. /\ Cardinality(Before(rank, L, x)) < N
          /\ Cardinality(Before(rank, M, x)) <= Cardinality(Before(rank, L, x))
          /\ Cardinality(Before(rank, L, x)) \in Nat
          /\ Cardinality(Before(rank, M, x)) \in Nat
      BY <1>2, <1>6, <1>8, <2>1
    <2> QED BY <1>7, <2>1, <2>2, HashRingAssumption
  <1>10. ASSUME NEW x \in FirstOf(rank, S \ C, N - Cardinality(C)), x # n,
                x \notin D
         PROVE  x \in FirstOf(rank, T \ D, N - Cardinality(D))
    <2>1. /\ x \in S \ C
          /\ Cardinality(Before(rank, S \ C, x)) < N - Cardinality(C)
          /\ Cardinality(Before(rank, S \ C, x)) \in Nat
      BY <1>1, <1>8 DEF FirstOf
    <2>2. C = L /\ Cardinality(L) < N
      BY <1>3, <2>1, HashRingAssumption
    <2>3. D = M
      BY <1>2, <1>4, <2>2, HashRingAssumption
    <2>4. T \ D \subseteq S \ C /\ x \in T \ D
      BY <1>2, <1>10, <2>1, <2>2, <2>3 DEF T
    <2>5. Cardinality(Before(rank, T \ D, x)) <= Cardinality(Before(rank, S \ C, x))
      <3>1. Before(rank, T \ D, x) \subseteq Before(rank, S \ C, x)
        BY <2>4 DEF Before
      <3> QED BY <1>1, <3>1, FewerBefore
    <2>6. Cardinality(Before(rank, T \ D, x)) \in Nat
      BY <1>1, <1>8
    <2>7. Cardinality(Before(rank, T \ D, x)) < N - Cardinality(D)
      BY <1>2, <1>4, <2>1, <2>2, <2>3, <2>5, <2>6, HashRingAssumption
    <2> QED BY <2>4, <2>7 DEF FirstOf
  <1> QED BY <1>5, <1>9, <1>10 DEF T
-----------------------------------------------------------------------------
(* Induction, for what is a member of a set at 0 and from each number to   *)
(* the next.                                                               *)
LEMMA LeastNatural ==
    ASSUME NEW T \in SUBSET Nat, T # {}
    PROVE  \E x \in T : \A y \in T : x <= y
  <1> DEFINE less == {p \in Nat \X Nat : p[1] < p[2]}
  <1>1. IsWellFoundedOn(less, Nat)
    BY NatLessThanWellFounded DEF OpToRel
  <1>2. \A x, y \in Nat : <<y, x>> \in less <=> y < x
    OBVIOUS
  <1> HIDE DEF less
  <1>3. PICK x \in T : \A y \in T : ~ (<<y, x>> \in less)
    BY <1>1, WFMin
  <1>4. ASSUME NEW y \in T PROVE x <= y
    <2>1. x \in Nat /\ y \in Nat
      OBVIOUS
    <2>2. <<y, x>> \notin less
      BY <1>3
    <2>3. <<y, x>> \in less <=> y < x
      BY <1>2, <2>1
    <2> QED BY <2>1, <2>2, <2>3
  <1> QED BY <1>4

LEMMA StepByStep ==
    ASSUME NEW n \in Nat, NEW S, 0 \in S,
           \A i \in 1 .. n : i - 1 \in S => i \in S
    PROVE  \A i \in 0 .. n : i \in S
  <1> DEFINE T == {i \in 0 .. n : i \notin S}
  <1> SUFFICES ASSUME T # {} PROVE FALSE
    OBVIOUS
  <1>1. T \in SUBSET Nat
    OBVIOUS
  <1> HIDE DEF T
  <1>2. PICK x \in T : \A y \in T : x <= y
    BY <1>1, LeastNatural
  <1>3. x \in 1 .. n /\ x - 1 \in 0 .. n /\ x - 1 \notin T
    BY <1>1, <1>2 DEF T
  <1> QED BY <1>2, <1>3 DEF T

(* A loop of n steps on values of X, the step i being the function F[i],   *)
(* and its values from the initial one to that after the last step.        *)
Loops(n, X) == [1 .. n -> [X -> X]]

Traces(n, X) == [0 .. n -> X]

TraceOf(g, n, x0, F) == g[0] = x0 /\ \A i \in 1 .. n : g[i] = F[i][g[i - 1]]

(* Every loop has such values: the recursive definition of one is sound.   *)
LEMMA LoopRuns ==
    ASSUME NEW n \in Nat, NEW X, NEW x0 \in X, NEW F \in Loops(n, X)
    PROVE  \E g \in Traces(n, X) : TraceOf(g, n, x0, F)
  <1> DEFINE Runs(m, g) == /\ g \in [0 .. m -> X] /\ g[0] = x0
                           /\ \A i \in 1 .. m : g[i] = F[i][g[i - 1]]
             S == {m \in 0 .. n : \E g : Runs(m, g)}
  <1>1. 0 \in S
    <2> DEFINE g == [i \in 0 .. 0 |-> x0]
    <2>1. Runs(0, g)
      OBVIOUS
    <2> HIDE DEF g
    <2> QED BY <2>1
  <1>2. ASSUME NEW m \in 1 .. n, m - 1 \in S PROVE m \in S
    <2>1. PICK g : Runs(m - 1, g)
      BY <1>2
    <2> DEFINE h == [i \in 0 .. m |-> IF i = m THEN F[m][g[m - 1]] ELSE g[i]]
    <2>2. m \in Nat /\ m - 1 \in Nat /\ m - 1 \in 0 .. (m - 1)
      OBVIOUS
    <2>3. g[m - 1] \in X
      BY <2>1, <2>2
    <2>4. h \in [0 .. m -> X]
      BY <2>1, <2>2, <2>3 DEF Loops
    <2>5. ASSUME NEW i \in 1 .. m
          PROVE  h[i] = F[i][h[i - 1]]
      <3>1. i - 1 # m /\ i - 1 \in 0 .. m
        BY <2>2
      <3>2. CASE i = m
        BY <3>1, <3>2
      <3>3. CASE i # m
        <4>1. i \in 1 .. (m - 1)
          BY <2>2, <3>3
        <4>2. g[i] = F[i][g[i - 1]]
          BY <2>1, <4>1
        <4> QED BY <3>1, <3>3, <4>2
      <3> QED BY <3>2, <3>3
    <2>6. h[0] = x0
      BY <2>1, <2>2
    <2> HIDE DEF h
    <2>7. Runs(m, h)
      BY <2>4, <2>5, <2>6
    <2> QED BY <2>7
  <1> HIDE DEF S
  <1>3. \A m \in 0 .. n : m \in S
    BY <1>1, <1>2, StepByStep
  <1>4. n \in S
    BY <1>3
  <1> QED BY <1>4 DEF S, Traces, TraceOf

-----------------------------------------------------------------------------
(* Sorted sequences.                                                       *)
Ascends(s) == \A i, j \in DOMAIN s : i <= j => s[i] <= s[j]

Climbs(s) == \A i, j \in DOMAIN s : i < j => s[i] < s[j]

LEMMA TokensAreNaturals == Space \in Nat /\ \A t \in Tokens : t \in Nat /\ t < Space
  BY HashRingAssumption DEF Tokens

(* A set of positions that goes down to 1 is an interval.                  *)
LEMMA DownToOne ==
    ASSUME NEW n \in Nat, NEW A \in SUBSET (1 .. n),
           \A i, j \in 1 .. n : i <= j /\ j \in A => i \in A
    PROVE  /\ A = 1 .. Cardinality(A)
           /\ Cardinality(A) \in 0 .. n
  <1> DEFINE T == {i \in 1 .. (n + 1) : i \notin A}
  <1>1. T \in SUBSET Nat /\ n + 1 \in T
    OBVIOUS
  <1> HIDE DEF T
  <1>2. PICK x \in T : \A y \in T : x <= y
    BY <1>1, LeastNatural
  <1>3. x \in 1 .. (n + 1) /\ x \notin A
    BY DEF T
  <1>4. ASSUME NEW i \in 1 .. n PROVE i \in A <=> i < x
    <2>1. i < x => i \notin T
      BY <1>2, <1>3
    <2>2. i < x => i \in A
      BY <2>1 DEF T
    <2>3. x <= i => x \in 1 .. n
      BY <1>3
    <2> QED BY <1>3, <2>2, <2>3
  <1> DEFINE m == x - 1
  <1>5. m \in 0 .. n
    BY <1>3
  <1>6. A = 1 .. m
    <2>1. ASSUME NEW i \in A PROVE i \in 1 .. m
      BY <1>3, <1>4
    <2>2. ASSUME NEW i \in 1 .. m PROVE i \in A
      <3>1. i \in 1 .. n /\ i < x
        BY <1>3
      <3> QED BY <1>4, <3>1
    <2> QED BY <2>1, <2>2
  <1> HIDE DEF m
  <1>7. Cardinality(1 .. m) = m
    BY <1>5, FS_Interval
  <1> QED BY <1>5, <1>6, <1>7

LEMMA BisectTyped ==
    ASSUME NEW s \in Seq(Tokens), NEW t \in Tokens
    PROVE  Bisect(s, t) \in 0 .. Len(s)
  <1> DEFINE A == {i \in DOMAIN s : s[i] <= t}
             n == Len(s)
  <1>1. n \in Nat /\ A \in SUBSET (1 .. n)
    OBVIOUS
  <1> HIDE DEF A, n
  <1>2. IsFiniteSet(1 .. n) /\ Cardinality(1 .. n) = n
    BY <1>1, FS_Interval
  <1>3. /\ Cardinality(A) <= n /\ IsFiniteSet(A)
    BY <1>1, <1>2, FS_Subset
  <1>4. Cardinality(A) \in Nat
    BY <1>3, FS_CardinalityType
  <1> QED BY <1>1, <1>3, <1>4 DEF A, n, Bisect

(* bisect_right splits a sorted sequence.                                  *)
LEMMA BisectSplits ==
    ASSUME NEW s \in Seq(Tokens), NEW t \in Tokens, Ascends(s)
    PROVE  \A i \in 1 .. Len(s) : s[i] <= t <=> i <= Bisect(s, t)
  <1> DEFINE A == {i \in DOMAIN s : s[i] <= t}
  <1>1. /\ Len(s) \in Nat /\ A \in SUBSET (1 .. Len(s))
        /\ \A i \in 1 .. Len(s) : s[i] \in Nat
        /\ t \in Nat
    BY TokensAreNaturals
  <1>2. \A i, j \in 1 .. Len(s) : i <= j /\ j \in A => i \in A
    <2> SUFFICES ASSUME NEW i \in 1 .. Len(s), NEW j \in 1 .. Len(s),
                        i <= j, j \in A
                 PROVE  i \in A
      OBVIOUS
    <2>1. s[i] <= s[j] /\ s[j] <= t
      BY DEF Ascends
    <2> QED BY <1>1, <2>1
  <1>3. \A i \in 1 .. Len(s) : i \in A <=> s[i] <= t
    BY <1>1
  <1>4. Bisect(s, t) = Cardinality(A)
    BY DEF Bisect
  <1> HIDE DEF A
  <1>5. A = 1 .. Bisect(s, t) /\ Bisect(s, t) \in 0 .. Len(s)
    BY <1>1, <1>2, <1>4, DownToOne
  <1> QED BY <1>3, <1>5

LEMMA InsertTyped ==
    ASSUME NEW s \in Seq(Tokens), NEW t \in Tokens
    PROVE  LET p == Bisect(s, t)
           IN  /\ Insert(s, t) \in Seq(Tokens)
               /\ Len(Insert(s, t)) = Len(s) + 1
               /\ \A i \in 1 .. (Len(s) + 1) :
                      Insert(s, t)[i] = IF i <= p THEN s[i]
                                        ELSE IF i = p + 1 THEN t ELSE s[i - 1]
  <1> DEFINE p == Bisect(s, t)
             a == SubSeq(s, 1, p)
             b == SubSeq(s, p + 1, Len(s))
  <1>1. p \in 0 .. Len(s) /\ Len(s) \in Nat
    BY BisectTyped
  <1> HIDE DEF p
  <1>2. /\ a \in Seq(Tokens) /\ Len(a) = p
        /\ \A i \in 1 .. p : a[i] = s[i]
    BY <1>1
  <1>3. /\ b \in Seq(Tokens) /\ Len(b) = Len(s) - p
        /\ \A i \in 1 .. (Len(s) - p) : b[i] = s[p + i]
    BY <1>1
  <1>4. Insert(s, t) = a \o <<t>> \o b
    BY DEF Insert, p
  <1> HIDE DEF a, b
  <1> DEFINE c == a \o <<t>>
  <1>5. /\ c \in Seq(Tokens) /\ Len(c) = p + 1
        /\ \A i \in 1 .. p : c[i] = a[i]
        /\ c[p + 1] = t
    BY <1>1, <1>2
  <1>6. Insert(s, t) = c \o b
    BY <1>4
  <1> HIDE DEF c
  <1>7. /\ Insert(s, t) \in Seq(Tokens)
        /\ Len(Insert(s, t)) = Len(s) + 1
    BY <1>1, <1>5, <1>3, <1>6
  <1>8. ASSUME NEW i \in 1 .. (Len(s) + 1)
        PROVE  Insert(s, t)[i] = IF i <= p THEN s[i]
                                 ELSE IF i = p + 1 THEN t ELSE s[i - 1]
    <2>1. CASE i <= p
      BY <1>1, <1>2, <1>3, <1>5, <1>6, <2>1
    <2>2. CASE i = p + 1
      BY <1>1, <1>3, <1>5, <1>6, <2>2
    <2>3. CASE i > p + 1
      <3>1. Insert(s, t)[i] = b[i - p - 1]
        BY <1>1, <1>3, <1>5, <1>6, <2>3
      <3>2. i - p - 1 \in 1 .. (Len(s) - p) /\ p + (i - p - 1) = i - 1
        BY <1>1, <2>3
      <3>3. b[i - p - 1] = s[p + (i - p - 1)]
        BY <1>3, <3>2
      <3> QED BY <1>1, <2>3, <3>1, <3>2, <3>3
    <2> QED BY <1>1, <2>1, <2>2, <2>3
  <1> QED BY <1>7, <1>8 DEF p

LEMMA InsertSorts ==
    ASSUME NEW s \in Seq(Tokens), NEW t \in Tokens, Ascends(s)
    PROVE  /\ Ascends(Insert(s, t))
           /\ ToSet(Insert(s, t)) = ToSet(s) \cup {t}
           /\ Climbs(s) /\ t \notin ToSet(s) => Climbs(Insert(s, t))
  <1> DEFINE p == Bisect(s, t)
             r == Insert(s, t)
             n == Len(s)
  <1>1. /\ n \in Nat /\ p \in 0 .. n
        /\ DOMAIN s = 1 .. n /\ DOMAIN r = 1 .. (n + 1)
        /\ \A i \in 1 .. (n + 1) :
               r[i] = IF i <= p THEN s[i] ELSE IF i = p + 1 THEN t ELSE s[i - 1]
    <2>1. n \in Nat /\ DOMAIN s = 1 .. n
      OBVIOUS
    <2>2. p \in 0 .. n
      BY BisectTyped
    <2>3. /\ r \in Seq(Tokens) /\ Len(r) = n + 1
          /\ \A i \in 1 .. (n + 1) :
                 r[i] = IF i <= p THEN s[i] ELSE IF i = p + 1 THEN t ELSE s[i - 1]
      BY InsertTyped
    <2> HIDE DEF p, r, n
    <2>4. DOMAIN r = 1 .. (n + 1)
      BY <2>3
    <2> QED BY <2>1, <2>2, <2>3, <2>4
  <1>2. \A i \in 1 .. n : s[i] \in Nat
    BY TokensAreNaturals
  <1>3. t \in Nat /\ \A i \in 1 .. n : s[i] <= t <=> i <= p
    BY BisectSplits, TokensAreNaturals
  <1> HIDE DEF p, r, n
  <1>4. ASSUME NEW i \in 1 .. (n + 1), NEW j \in 1 .. (n + 1), i < j
        PROVE  /\ r[i] <= r[j]
               /\ Climbs(s) /\ t \notin ToSet(s) => r[i] < r[j]
    <2>1. ASSUME NEW x \in 1 .. n, NEW y \in 1 .. n, x < y
          PROVE  s[x] <= s[y] /\ (Climbs(s) => s[x] < s[y])
      <3>1. x \in DOMAIN s /\ y \in DOMAIN s /\ x <= y
        BY <1>1, <2>1
      <3> QED BY <2>1, <3>1 DEF Ascends, Climbs
    <2>2. ASSUME NEW x \in 1 .. n
          PROVE  t \notin ToSet(s) => s[x] # t
      BY <1>1 DEF ToSet
    <2>3. CASE j <= p
      <3>1. r[i] = s[i] /\ r[j] = s[j] /\ i \in 1 .. n /\ j \in 1 .. n
        BY <1>1, <1>4, <2>3
      <3> QED BY <1>4, <2>1, <3>1
    <2>4. CASE j = p + 1
      <3>1. r[i] = s[i] /\ r[j] = t /\ i \in 1 .. n /\ i <= p
        BY <1>1, <1>4, <2>4
      <3>2. s[i] <= t /\ s[i] \in Nat /\ (t \notin ToSet(s) => s[i] # t)
        BY <1>2, <1>3, <2>2, <3>1
      <3> QED BY <1>3, <3>1, <3>2
    <2>5. CASE j > p + 1
      <3>1. r[j] = s[j - 1] /\ j - 1 \in 1 .. n /\ s[j - 1] \in Nat
        BY <1>1, <1>2, <2>5
      <3>2. ~ (s[j - 1] <= t)
        BY <1>1, <1>3, <2>5, <3>1
      <3>3. CASE i <= p
        <4>1. r[i] = s[i] /\ i \in 1 .. n /\ i < j - 1
          BY <1>1, <2>5, <3>3
        <4> QED BY <2>1, <3>1, <4>1
      <3>4. CASE i = p + 1
        <4>1. r[i] = t
          BY <1>1, <3>4
        <4> QED BY <1>3, <3>1, <3>2, <4>1
      <3>5. CASE i > p + 1
        <4>1. r[i] = s[i - 1] /\ i - 1 \in 1 .. n /\ i - 1 < j - 1
          BY <1>1, <1>4, <3>5
        <4> QED BY <2>1, <3>1, <4>1
      <3> QED BY <1>1, <3>3, <3>4, <3>5
    <2> QED BY <1>1, <2>3, <2>4, <2>5
  <1>5. ASSUME NEW i \in 1 .. (n + 1) PROVE r[i] \in Nat
    <2>1. i <= p => i \in 1 .. n
      BY <1>1
    <2>2. i > p + 1 => i - 1 \in 1 .. n
      BY <1>1
    <2> QED BY <1>1, <1>2, <1>3, <2>1, <2>2
  <1>6. Ascends(r)
    <2> SUFFICES ASSUME NEW i \in 1 .. (n + 1), NEW j \in 1 .. (n + 1), i <= j
                 PROVE  r[i] <= r[j]
      BY <1>1 DEF Ascends
    <2> QED BY <1>4, <1>5
  <1>7. Climbs(s) /\ t \notin ToSet(s) => Climbs(r)
    BY <1>1, <1>4 DEF Climbs
  <1>8. ASSUME NEW x PROVE x \in ToSet(r) <=> x \in ToSet(s) \cup {t}
    <2>1. ASSUME NEW i \in 1 .. (n + 1) PROVE r[i] \in ToSet(s) \cup {t}
      <3>1. i <= p => i \in 1 .. n
        BY <1>1
      <3>2. i > p + 1 => i - 1 \in 1 .. n
        BY <1>1
      <3> QED BY <1>1, <3>1, <3>2 DEF ToSet
    <2>2. ASSUME NEW i \in 1 .. n PROVE \E j \in 1 .. (n + 1) : r[j] = s[i]
      <3>1. CASE i <= p
        <4>1. i \in 1 .. (n + 1) /\ r[i] = s[i]
          BY <1>1, <3>1
        <4> QED BY <4>1
      <3>2. CASE i > p
        <4>1. i + 1 \in 1 .. (n + 1) /\ i + 1 - 1 = i
          BY <1>1
        <4>2. r[i + 1] = s[i]
          BY <1>1, <3>2, <4>1
        <4> QED BY <4>1, <4>2
      <3> QED BY <1>1, <3>1, <3>2
    <2>3. p + 1 \in 1 .. (n + 1) /\ r[p + 1] = t
      BY <1>1
    <2>4. /\ ToSet(r) = {r[i] : i \in 1 .. (n + 1)}
          /\ ToSet(s) = {s[i] : i \in 1 .. n}
      BY <1>1 DEF ToSet
    <2> QED BY <2>1, <2>2, <2>3, <2>4
  <1> QED BY <1>6, <1>7, <1>8 DEF r

(* The loop of add_node.                                                   *)
LEMMA InsertLoop ==
    ASSUME hash \in [VirtualNodes -> Tokens], ring \in Seq(Tokens),
           NEW n \in Nodes
    PROVE  /\ Count(n) \in Nat /\ Count(n) # 0
           /\ \A i \in 1 .. Count(n) : hash[<<n, i>>] \in Tokens
           /\ \E g : /\ g[0] = ring
                     /\ \A i \in 1 .. Count(n) :
                            g[i] = Insert(g[i - 1], hash[<<n, i>>])
                     /\ RingWith(n) = g[Count(n)]
  <1> DEFINE c == Count(n)
             X == Seq(Tokens)
             F == [i \in 1 .. c |-> [s \in X |-> Insert(s, hash[<<n, i>>])]]
             Is(f) == f = [i \in 0 .. c |-> IF i = 0 THEN ring
                               ELSE Insert(f[i - 1], hash[<<n, i>>])]
             f == CHOOSE f : Is(f)
  <1>1. c \in Nat /\ c # 0
    BY HashRingAssumption DEF Count
  <1>2. ASSUME NEW i \in 1 .. c PROVE hash[<<n, i>>] \in Tokens
    <2>1. <<n, i>> \in VirtualNodes
      BY DEF VirtualNodes
    <2> QED BY <2>1
  <1>3. RingWith(n) = f[c]
    BY DEF RingWith
  <1> HIDE DEF c, X
  <1>4. ASSUME NEW i \in 1 .. c, NEW s \in X
        PROVE  F[i][s] = Insert(s, hash[<<n, i>>]) /\ F[i][s] \in X
    BY <1>2, InsertTyped DEF X
  <1>5. F \in Loops(c, X)
    BY <1>2, InsertTyped DEF Loops, X
  <1> HIDE DEF F
  <1>6. ring \in X
    BY DEF X
  <1>7. PICK g \in Traces(c, X) : TraceOf(g, c, ring, F)
    BY <1>1, <1>5, <1>6, LoopRuns
  <1>8. Is(g)
    <2>1. ASSUME NEW i \in 1 .. c PROVE g[i] = Insert(g[i - 1], hash[<<n, i>>])
      <3>1. i - 1 \in 0 .. c
        BY <1>1
      <3>2. g[i - 1] \in X
        BY <1>7, <3>1 DEF Traces
      <3> QED BY <1>4, <1>7, <3>2 DEF TraceOf
    <2> QED BY <1>1, <1>7, <2>1 DEF Traces, TraceOf
  <1>9. Is(f)
    BY <1>8, Zenon
  <1> HIDE DEF f
  <1>10. f[0] = ring
    BY <1>1, <1>9
  <1>11. ASSUME NEW i \in 1 .. c PROVE f[i] = Insert(f[i - 1], hash[<<n, i>>])
    <2>1. i \in 0 .. c /\ i # 0
      BY <1>1
    <2> QED BY <1>9, <2>1
  <1> QED BY <1>1, <1>2, <1>3, <1>10, <1>11 DEF c

(* The ring after a node has been added.                                   *)
LEMMA RingAfterInserts ==
    ASSUME hash \in [VirtualNodes -> Tokens], ring \in Seq(Tokens),
           Ascends(ring), NEW n \in Nodes
    PROVE  /\ RingWith(n) \in Seq(Tokens) /\ Ascends(RingWith(n))
           /\ ToSet(RingWith(n)) = ToSet(ring) \cup TokensOf(n)
           /\ Distinct /\ Climbs(ring) /\ ToSet(ring) \cap TokensOf(n) = {} =>
                  Climbs(RingWith(n))
  <1> DEFINE c == Count(n)
             Upto(i) == {hash[<<n, j>>] : j \in 1 .. i}
  <1>1. /\ c \in Nat
        /\ \A i \in 1 .. c : hash[<<n, i>>] \in Tokens
    BY InsertLoop
  <1>2. PICK g : /\ g[0] = ring
                 /\ \A i \in 1 .. c : g[i] = Insert(g[i - 1], hash[<<n, i>>])
                 /\ RingWith(n) = g[c]
    BY InsertLoop
  <1>3. TokensOf(n) = Upto(c)
    BY DEF TokensOf
  <1> DEFINE new == Distinct /\ Climbs(ring) /\ ToSet(ring) \cap TokensOf(n) = {}
             S == {i \in 0 .. c : /\ g[i] \in Seq(Tokens) /\ Ascends(g[i])
                                  /\ ToSet(g[i]) = ToSet(ring) \cup Upto(i)
                                  /\ new => Climbs(g[i])}
  <1> HIDE DEF c
  <1>4. 0 \in S
    <2>1. Upto(0) = {}
      OBVIOUS
    <2> HIDE DEF Upto
    <2>2. 0 \in 0 .. c /\ ToSet(ring) = ToSet(ring) \cup Upto(0)
      BY <1>1, <2>1
    <2> QED BY <1>2, <2>2
  <1>5. ASSUME NEW i \in 1 .. c, i - 1 \in S PROVE i \in S
    <2> DEFINE t == hash[<<n, i>>]
               s == g[i - 1]
    <2>1. /\ s \in Seq(Tokens) /\ Ascends(s) /\ t \in Tokens
          /\ ToSet(s) = ToSet(ring) \cup Upto(i - 1)
          /\ new => Climbs(s)
          /\ g[i] = Insert(s, t)
      BY <1>1, <1>2, <1>5
    <2>2. Upto(i) = Upto(i - 1) \cup {t}
      <3>1. \A j : j \in 1 .. i <=> j \in 1 .. (i - 1) \/ j = i
        BY <1>1
      <3> QED BY <3>1
    <2>3. ASSUME new PROVE t \notin ToSet(s)
      <3>1. t \in TokensOf(n)
        BY <1>1, <1>3
      <3>2. ASSUME NEW j \in 1 .. (i - 1) PROVE hash[<<n, j>>] # t
        <4>1. j \in 1 .. c /\ j # i
          BY <1>1
        <4>2. <<n, j>> \in VirtualNodes /\ <<n, i>> \in VirtualNodes
          BY <4>1 DEF VirtualNodes, c
        <4>3. hash[<<n, j>>] = t => <<n, j>> = <<n, i>>
          BY <2>3, <4>2 DEF Distinct
        <4> QED BY <4>1, <4>3
      <3> QED BY <2>1, <2>3, <3>1, <3>2
    <2> HIDE DEF t, s, new, Upto
    <2>4. /\ Insert(s, t) \in Seq(Tokens) /\ Ascends(Insert(s, t))
          /\ ToSet(Insert(s, t)) = ToSet(s) \cup {t}
          /\ new => Climbs(Insert(s, t))
      BY <2>1, <2>3, InsertTyped, InsertSorts
    <2>5. i \in 0 .. c
      BY <1>1
    <2>6. ToSet(g[i]) = ToSet(ring) \cup Upto(i)
      BY <2>1, <2>2, <2>4
    <2> QED BY <2>1, <2>4, <2>5, <2>6
  <1> HIDE DEF S
  <1>6. \A i \in 0 .. c : i \in S
    BY <1>1, <1>4, <1>5, StepByStep
  <1>7. c \in S
    BY <1>1, <1>6
  <1> QED BY <1>2, <1>3, <1>7 DEF S

-----------------------------------------------------------------------------
(* What remove_node works on.                                              *)
Removals == [owner : [Tokens -> Nodes \cup {NoNode}], kept : Seq(Tokens),
             raised : BOOLEAN]

LEMMA RemovesToken ==
    ASSUME NEW n \in Nodes, NEW s \in Removals, NEW t \in Tokens
    PROVE  LET r == RemoveToken(n, s, t)
           IN  /\ r \in Removals
               /\ s.raised \/ s.owner[t] = NoNode => r.raised
               /\ ~ s.raised /\ s.owner[t] = n =>
                      /\ r.owner = [s.owner EXCEPT ![t] = NoNode]
                      /\ r.kept = s.kept /\ ~ r.raised
               /\ ~ s.raised /\ s.owner[t] \notin {n, NoNode} =>
                      /\ r.owner = s.owner /\ ~ r.raised
                      /\ r.kept = Append(s.kept, t)
  <1> DEFINE r == RemoveToken(n, s, t)
  <1>1. /\ s.owner \in [Tokens -> Nodes \cup {NoNode}] /\ s.kept \in Seq(Tokens)
        /\ s.raised \in BOOLEAN
        /\ s = [owner |-> s.owner, kept |-> s.kept, raised |-> s.raised]
        /\ n # NoNode
    BY HashRingAssumption DEF Removals
  <1>2. CASE s.raised \/ s.owner[t] = NoNode
    <2>1. r = [owner |-> s.owner, kept |-> s.kept, raised |-> TRUE]
      BY <1>1, <1>2 DEF RemoveToken
    <2> QED BY <1>1, <1>2, <2>1 DEF Removals
  <1>3. CASE ~ s.raised /\ s.owner[t] = n
    <2>1. r = [owner |-> [s.owner EXCEPT ![t] = NoNode], kept |-> s.kept,
               raised |-> FALSE]
      BY <1>1, <1>3 DEF RemoveToken
    <2> QED BY <1>1, <1>3, <2>1 DEF Removals
  <1>4. CASE ~ s.raised /\ s.owner[t] \notin {n, NoNode}
    <2>1. r = [owner |-> s.owner, kept |-> Append(s.kept, t), raised |-> FALSE]
      BY <1>1, <1>4 DEF RemoveToken
    <2> QED BY <1>1, <1>4, <2>1 DEF Removals
  <1> QED BY <1>2, <1>3, <1>4

LEMMA RemovalLoop ==
    ASSUME owner \in [Tokens -> Nodes \cup {NoNode}], ring \in Seq(Tokens),
           NEW n \in Nodes
    PROVE  \E g : /\ g[0] = [owner |-> owner, kept |-> <<>>, raised |-> FALSE]
                  /\ \A i \in 1 .. Len(ring) :
                         g[i] = RemoveToken(n, g[i - 1], ring[i])
                  /\ Removal(n) = g[Len(ring)]
  <1> DEFINE c == Len(ring)
             x0 == [owner |-> owner, kept |-> <<>>, raised |-> FALSE]
             F == [i \in 1 .. c |->
                       [s \in Removals |-> RemoveToken(n, s, ring[i])]]
             Is(f) == f = [i \in 0 .. c |-> IF i = 0 THEN x0
                               ELSE RemoveToken(n, f[i - 1], ring[i])]
             f == CHOOSE f : Is(f)
  <1>1. c \in Nat /\ \A i \in 1 .. c : ring[i] \in Tokens
    OBVIOUS
  <1>2. x0 \in Removals
    BY DEF Removals
  <1>3. Removal(n) = f[c]
    BY DEF Removal
  <1> HIDE DEF c, x0
  <1>4. ASSUME NEW i \in 1 .. c, NEW s \in Removals
        PROVE  /\ RemoveToken(n, s, ring[i]) \in Removals
               /\ F[i][s] = RemoveToken(n, s, ring[i])
    BY <1>1, RemovesToken
  <1>5. F \in Loops(c, Removals)
    BY <1>4 DEF Loops
  <1> HIDE DEF F
  <1>6. PICK g \in Traces(c, Removals) : TraceOf(g, c, x0, F)
    BY <1>1, <1>2, <1>5, LoopRuns
  <1>7. Is(g)
    <2>1. ASSUME NEW i \in 1 .. c
          PROVE  g[i] = RemoveToken(n, g[i - 1], ring[i])
      <3>1. i - 1 \in 0 .. c
        BY <1>1
      <3>2. g[i - 1] \in Removals
        BY <1>6, <3>1 DEF Traces
      <3> QED BY <1>4, <1>6, <3>2 DEF TraceOf
    <2> QED BY <1>1, <1>6, <2>1 DEF Traces, TraceOf
  <1>8. Is(f)
    BY <1>7, Zenon
  <1> HIDE DEF f
  <1>9. f[0] = x0
    BY <1>1, <1>8
  <1>10. ASSUME NEW i \in 1 .. c PROVE f[i] = RemoveToken(n, f[i - 1], ring[i])
    <2>1. i \in 0 .. c /\ i # 0
      BY <1>1
    <2> QED BY <1>8, <2>1
  <1> QED BY <1>3, <1>9, <1>10 DEF c, x0

(* A token at the end of a sorted sequence.                                *)
LEMMA AppendSorts ==
    ASSUME NEW s \in Seq(Tokens), NEW t \in Tokens
    PROVE  /\ Append(s, t) \in Seq(Tokens)
           /\ ToSet(Append(s, t)) = ToSet(s) \cup {t}
           /\ Ascends(s) /\ (\A x \in ToSet(s) : x <= t) =>
                  Ascends(Append(s, t))
           /\ Climbs(s) /\ (\A x \in ToSet(s) : x < t) => Climbs(Append(s, t))
  <1> DEFINE n == Len(s)
             r == Append(s, t)
  <1>1. /\ n \in Nat /\ DOMAIN s = 1 .. n /\ DOMAIN r = 1 .. (n + 1)
        /\ r \in Seq(Tokens)
        /\ \A i \in 1 .. n : r[i] = s[i]
        /\ r[n + 1] = t
    OBVIOUS
  <1>2. t \in Nat /\ \A i \in 1 .. n : s[i] \in Nat
    BY TokensAreNaturals
  <1> HIDE DEF n, r
  <1>3. /\ ToSet(r) = {r[i] : i \in 1 .. (n + 1)}
        /\ ToSet(s) = {s[i] : i \in 1 .. n}
    BY <1>1 DEF ToSet
  <1>4. ToSet(r) = ToSet(s) \cup {t}
    <2>1. \A i : i \in 1 .. (n + 1) <=> i \in 1 .. n \/ i = n + 1
      BY <1>1
    <2> QED BY <1>1, <1>3, <2>1
  <1>5. ASSUME Ascends(s), \A x \in ToSet(s) : x <= t PROVE Ascends(r)
    <2> SUFFICES ASSUME NEW i \in 1 .. (n + 1), NEW j \in 1 .. (n + 1), i <= j
                 PROVE  r[i] <= r[j]
      BY <1>1 DEF Ascends
    <2>1. CASE j <= n
      <3>1. i \in DOMAIN s /\ j \in DOMAIN s /\ r[i] = s[i] /\ r[j] = s[j]
        BY <1>1, <2>1
      <3> QED BY <1>5, <3>1 DEF Ascends
    <2>2. CASE i <= n /\ j = n + 1
      <3>1. i \in 1 .. n /\ r[i] = s[i] /\ s[i] \in ToSet(s)
        BY <1>1, <1>3, <2>2
      <3> QED BY <1>1, <1>5, <2>2, <3>1
    <2>3. CASE i = n + 1 /\ j = n + 1
      BY <1>1, <1>2, <2>3
    <2> QED BY <1>1, <2>1, <2>2, <2>3
  <1>6. ASSUME Climbs(s), \A x \in ToSet(s) : x < t PROVE Climbs(r)
    <2> SUFFICES ASSUME NEW i \in 1 .. (n + 1), NEW j \in 1 .. (n + 1), i < j
                 PROVE  r[i] < r[j]
      BY <1>1 DEF Climbs
    <2>1. CASE j <= n
      <3>1. i \in DOMAIN s /\ j \in DOMAIN s /\ r[i] = s[i] /\ r[j] = s[j]
        BY <1>1, <2>1
      <3> QED BY <1>6, <3>1 DEF Climbs
    <2>2. CASE j = n + 1
      <3>1. i \in 1 .. n /\ r[i] = s[i] /\ s[i] \in ToSet(s)
        BY <1>1, <1>3, <2>2
      <3> QED BY <1>1, <1>6, <2>2, <3>1
    <2> QED BY <1>1, <2>1, <2>2
  <1> QED BY <1>1, <1>4, <1>5, <1>6 DEF r

(* The ring after a node has been removed.                                 *)
LEMMA RingAfterRemoval ==
    ASSUME owner \in [Tokens -> Nodes \cup {NoNode}], ring \in Seq(Tokens),
           Ascends(ring), NEW n \in Nodes
    PROVE  LET r == Removal(n)
           IN  /\ r \in Removals
               /\ ~ r.raised =>
                      /\ Ascends(r.kept) /\ (Climbs(ring) => Climbs(r.kept))
                      /\ ToSet(r.kept) = {t \in ToSet(ring) : owner[t] # n}
                      /\ \A t \in Tokens : owner[t] # n => r.owner[t] = owner[t]
               /\ Climbs(ring) /\ (\A t \in ToSet(ring) : owner[t] # NoNode) =>
                      ~ r.raised
  <1> DEFINE c == Len(ring)
             Done(i) == {ring[j] : j \in 1 .. i}
             clean == Climbs(ring) /\ \A t \in ToSet(ring) : owner[t] # NoNode
  <1>1. /\ c \in Nat /\ DOMAIN ring = 1 .. c
        /\ \A i \in 1 .. c : ring[i] \in Tokens
        /\ n # NoNode
    BY HashRingAssumption
  <1>2. PICK g : /\ g[0] = [owner |-> owner, kept |-> <<>>, raised |-> FALSE]
                 /\ \A i \in 1 .. c : g[i] = RemoveToken(n, g[i - 1], ring[i])
                 /\ Removal(n) = g[c]
    BY RemovalLoop
  <1>3. Done(c) = ToSet(ring)
    BY <1>1 DEF ToSet
  <1> HIDE DEF c
  <1> DEFINE S == {i \in 0 .. c :
                     /\ g[i] \in Removals
                     /\ ~ g[i].raised =>
                          /\ Ascends(g[i].kept)
                          /\ Climbs(ring) => Climbs(g[i].kept)
                          /\ ToSet(g[i].kept) = {t \in Done(i) : owner[t] # n}
                          /\ \A t \in Tokens :
                                g[i].owner[t] = IF t \in Done(i) /\ owner[t] = n
                                                THEN NoNode ELSE owner[t]
                     /\ clean => ~ g[i].raised}
  <1>4. 0 \in S
    <2>1. Done(0) = {} /\ 0 \in 0 .. c
      BY <1>1
    <2> HIDE DEF Done, clean
    <2>2. /\ g[0] \in Removals /\ ~ g[0].raised
          /\ g[0].kept = <<>> /\ g[0].owner = owner
      BY <1>2 DEF Removals
    <2>3. Ascends(<<>>) /\ Climbs(<<>>) /\ ToSet(<<>>) = {}
      BY DEF Ascends, Climbs, ToSet
    <2> QED BY <2>1, <2>2, <2>3
  <1>5. ASSUME NEW i \in 1 .. c, i - 1 \in S PROVE i \in S
    <2> DEFINE t == ring[i]
               s == g[i - 1]
               r == g[i]
    <2>1. t \in Tokens /\ i \in 0 .. c
      BY <1>1
    <2>2. Done(i) = Done(i - 1) \cup {t}
      <3>1. \A j : j \in 1 .. i <=> j \in 1 .. (i - 1) \/ j = i
        BY <1>1
      <3> QED BY <3>1
    <2>3. \A x \in Done(i - 1) : x <= t /\ (Climbs(ring) => x < t)
      <3> SUFFICES ASSUME NEW j \in 1 .. (i - 1)
                   PROVE  ring[j] <= t /\ (Climbs(ring) => ring[j] < t)
        OBVIOUS
      <3>1. j \in DOMAIN ring /\ i \in DOMAIN ring /\ j <= i /\ j < i
        BY <1>1
      <3> QED BY <3>1 DEF Ascends, Climbs
    <2>4. clean => owner[t] # NoNode /\ t \notin Done(i - 1)
      <3>1. t \in ToSet(ring)
        BY <1>1 DEF ToSet
      <3>2. Climbs(ring) /\ t \in Done(i - 1) => t < t
        BY <2>3
      <3>3. t \in Nat
        BY <2>1, TokensAreNaturals
      <3> QED BY <3>1, <3>2, <3>3
    <2>5. /\ s \in Removals
          /\ ~ s.raised =>
               /\ Ascends(s.kept)
               /\ Climbs(ring) => Climbs(s.kept)
               /\ ToSet(s.kept) = {x \in Done(i - 1) : owner[x] # n}
               /\ \A x \in Tokens :
                     s.owner[x] = IF x \in Done(i - 1) /\ owner[x] = n
                                  THEN NoNode ELSE owner[x]
          /\ clean => ~ s.raised
      BY <1>5
    <2>6. r = RemoveToken(n, s, t)
      BY <1>2
    <2> HIDE DEF Done, clean, t, s
    <2> HIDE DEF r
    <2>7. /\ r \in Removals
          /\ s.raised \/ s.owner[t] = NoNode => r.raised
          /\ ~ s.raised /\ s.owner[t] = n =>
                 /\ r.owner = [s.owner EXCEPT ![t] = NoNode]
                 /\ r.kept = s.kept /\ ~ r.raised
          /\ ~ s.raised /\ s.owner[t] \notin {n, NoNode} =>
                 /\ r.owner = s.owner /\ ~ r.raised
                 /\ r.kept = Append(s.kept, t)
      <3>1. s \in Removals
        BY <2>5
      <3> QED BY <2>1, <2>6, <3>1, RemovesToken
    <2>8. CASE s.raised \/ s.owner[t] = NoNode
      <3>1. r.raised
        BY <2>7, <2>8
      <3>2. ~ clean
        BY <2>1, <2>4, <2>5, <2>8
      <3> QED BY <2>1, <2>7, <3>1, <3>2 DEF r
    <2>9. CASE ~ s.raised /\ s.owner[t] = n
      <3>1. /\ r.owner = [s.owner EXCEPT ![t] = NoNode]
            /\ r.kept = s.kept /\ ~ r.raised
        BY <2>7, <2>9
      <3>2. owner[t] = n
        BY <1>1, <2>1, <2>5, <2>9
      <3>3. ToSet(r.kept) = {x \in Done(i) : owner[x] # n}
        BY <2>2, <2>5, <2>9, <3>1, <3>2
      <3>4. \A x \in Tokens : r.owner[x] = IF x \in Done(i) /\ owner[x] = n
                                           THEN NoNode ELSE owner[x]
        <4> SUFFICES ASSUME NEW x \in Tokens
                     PROVE  r.owner[x] = IF x \in Done(i) /\ owner[x] = n
                                         THEN NoNode ELSE owner[x]
          OBVIOUS
        <4>1. r.owner[x] = IF x = t THEN NoNode ELSE s.owner[x]
          BY <2>5, <3>1 DEF Removals
        <4> QED BY <2>2, <2>5, <2>9, <3>2, <4>1
      <3> QED BY <2>1, <2>5, <2>7, <2>9, <3>1, <3>3, <3>4 DEF r
    <2>10. CASE ~ s.raised /\ s.owner[t] \notin {n, NoNode}
      <3>1. /\ r.owner = s.owner /\ ~ r.raised
            /\ r.kept = Append(s.kept, t)
        BY <2>7, <2>10
      <3>2. owner[t] # n
        BY <2>1, <2>5, <2>10
      <3>3. s.kept \in Seq(Tokens)
        BY <2>5 DEF Removals
      <3>4. \A x \in ToSet(s.kept) : x <= t /\ (Climbs(ring) => x < t)
        BY <2>3, <2>5, <2>10
      <3>5. /\ ToSet(r.kept) = ToSet(s.kept) \cup {t}
            /\ Ascends(r.kept) /\ (Climbs(ring) => Climbs(r.kept))
        BY <2>1, <2>5, <2>10, <3>1, <3>3, <3>4, AppendSorts
      <3>6. ToSet(r.kept) = {x \in Done(i) : owner[x] # n}
        BY <2>2, <2>5, <2>10, <3>2, <3>5
      <3>7. \A x \in Tokens : r.owner[x] = IF x \in Done(i) /\ owner[x] = n
                                           THEN NoNode ELSE owner[x]
        BY <2>2, <2>5, <2>10, <3>1, <3>2
      <3> QED BY <2>1, <2>7, <3>1, <3>5, <3>6, <3>7 DEF r
    <2> QED BY <2>8, <2>9, <2>10
  <1> HIDE DEF S
  <1>6. \A i \in 0 .. c : i \in S
    BY <1>1, <1>4, <1>5, StepByStep
  <1>7. c \in S
    BY <1>1, <1>6
  <1> QED BY <1>2, <1>3, <1>7 DEF S

-----------------------------------------------------------------------------
LEMMA TokensTyped ==
    ASSUME hash \in [VirtualNodes -> Tokens], NEW n \in Nodes
    PROVE  TokensOf(n) \subseteq Tokens /\ TokensOf(n) # {}
  <1> DEFINE c == Count(n)
  <1>1. c \in Nat /\ c # 0
    BY HashRingAssumption DEF Count
  <1>2. \A i \in 1 .. c : <<n, i>> \in VirtualNodes
    BY DEF VirtualNodes
  <1>3. TokensOf(n) = {hash[<<n, i>>] : i \in 1 .. c}
    BY DEF TokensOf
  <1> HIDE DEF c
  <1>4. 1 \in 1 .. c
    BY <1>1
  <1> QED BY <1>2, <1>3, <1>4

LEMMA DistinctTokens ==
    ASSUME Distinct, NEW m \in Nodes, NEW n \in Nodes, m # n
    PROVE  TokensOf(m) \cap TokensOf(n) = {}
  <1> SUFFICES ASSUME NEW i \in 1 .. Count(m), NEW j \in 1 .. Count(n),
                      hash[<<m, i>>] = hash[<<n, j>>]
               PROVE  FALSE
    BY DEF TokensOf
  <1>1. <<m, i>> \in VirtualNodes /\ <<n, j>> \in VirtualNodes
    BY DEF VirtualNodes
  <1> QED BY <1>1 DEF Distinct

LEMMA InitRing == RingInit => RingInv
  <1> SUFFICES ASSUME RingInit PROVE RingInv OBVIOUS
  <1>1. /\ ring = <<>> /\ members = {} /\ stumbled = FALSE
        /\ hash \in [VirtualNodes -> Tokens]
        /\ owner \in [Tokens -> Nodes \cup {NoNode}]
    BY DEF RingInit
  <1>2. ring \in Seq(Tokens) /\ Ascends(ring) /\ Climbs(ring) /\ ToSet(ring) = {}
    BY <1>1 DEF Ascends, Climbs, ToSet
  <1> QED BY <1>1, <1>2
    DEF RingInv, RingTypeOK, EntriesAreMembers, RingIsOfMembers, Ascends, Climbs

LEMMA RegisterRing ==
    ASSUME RingInv, NEW n \in Nodes, Register(n)
    PROVE  RingInv'
  <1>1. /\ n \notin members /\ members' = members \cup {n}
        /\ ring' = RingWith(n) /\ owner' = OwnerWith(n)
        /\ hash' = hash /\ stumbled' = stumbled
    BY DEF Register
  <1>2. /\ hash \in [VirtualNodes -> Tokens] /\ members \subseteq Nodes
        /\ ring \in Seq(Tokens) /\ Ascends(ring)
        /\ owner \in [Tokens -> Nodes \cup {NoNode}] /\ stumbled \in BOOLEAN
        /\ ~ stumbled => \A t \in ToSet(ring) : owner[t] \in members
        /\ Distinct =>
              /\ ~ stumbled /\ Climbs(ring)
              /\ \A t \in ToSet(ring) : t \in TokensOf(owner[t])
              /\ \A m \in members :
                     \A t \in TokensOf(m) : owner[t] = m /\ t \in ToSet(ring)
    BY DEF RingInv, RingTypeOK, EntriesAreMembers, RingIsOfMembers, Ascends,
           Climbs
  <1>3. /\ ring' \in Seq(Tokens) /\ Ascends(ring)'
        /\ ToSet(ring)' = ToSet(ring) \cup TokensOf(n)
        /\ Distinct /\ Climbs(ring) /\ ToSet(ring) \cap TokensOf(n) = {} =>
               Climbs(ring)'
    BY <1>1, <1>2, RingAfterInserts DEF Ascends, Climbs, ToSet
  <1>4. /\ owner' \in [Tokens -> Nodes \cup {NoNode}]
        /\ \A t \in Tokens :
               owner'[t] = IF t \in TokensOf(n) THEN n ELSE owner[t]
    BY <1>1, <1>2 DEF OwnerWith
  <1>5. /\ TokensOf(n) \subseteq Tokens
        /\ \A t \in ToSet(ring) : t \in Tokens
    BY <1>2, TokensTyped DEF ToSet
  <1>6. /\ Distinct' = Distinct
        /\ \A m : TokensOf(m)' = TokensOf(m)
    BY <1>1 DEF Distinct, TokensOf
  <1>7. ~ stumbled' => \A t \in ToSet(ring)' : owner'[t] \in members'
    BY <1>1, <1>2, <1>3, <1>4, <1>5
  <1>8. ASSUME Distinct
        PROVE  /\ ~ stumbled' /\ Climbs(ring)'
               /\ \A t \in ToSet(ring)' : t \in TokensOf(owner'[t])
               /\ \A m \in members' :
                      \A t \in TokensOf(m) : owner'[t] = m /\ t \in ToSet(ring)'
    <2>1. \A t \in ToSet(ring) : t \notin TokensOf(n)
      <3> SUFFICES ASSUME NEW t \in ToSet(ring), t \in TokensOf(n)
                   PROVE  FALSE
        OBVIOUS
      <3>1. owner[t] \in members /\ t \in TokensOf(owner[t])
        BY <1>2, <1>8
      <3>2. owner[t] \in Nodes /\ owner[t] # n
        BY <1>1, <1>2, <3>1
      <3> QED BY <1>8, <3>1, <3>2, DistinctTokens
    <2>2. \A m \in members : \A t \in TokensOf(m) :
              owner[t] = m /\ t \in ToSet(ring)
      BY <1>2, <1>8
    <2>3. Climbs(ring)' /\ ~ stumbled'
      BY <1>1, <1>2, <1>3, <1>8, <2>1
    <2>4. \A t \in ToSet(ring)' : t \in TokensOf(owner'[t])
      BY <1>2, <1>3, <1>4, <1>5, <1>8
    <2>5. \A m \in members' :
              \A t \in TokensOf(m) : owner'[t] = m /\ t \in ToSet(ring)'
      BY <1>1, <1>3, <1>4, <1>5, <2>1, <2>2
    <2> QED BY <2>3, <2>4, <2>5
  <1>9. members' \subseteq Nodes
    BY <1>1, <1>2
  <1> QED
    <2>1. hash' \in [VirtualNodes -> Tokens] /\ stumbled' \in BOOLEAN
      BY <1>1, <1>2
    <2>2. Distinct' =>
              /\ ~ stumbled' /\ Climbs(ring)'
              /\ \A t \in ToSet(ring)' : t \in TokensOf(owner[t])'
              /\ \A m \in members' :
                     \A t \in TokensOf(m)' : owner'[t] = m /\ t \in ToSet(ring)'
      BY <1>6, <1>8
    <2> QED BY <1>3, <1>4, <1>7, <1>9, <2>1, <2>2
      DEF RingInv, RingTypeOK, EntriesAreMembers, RingIsOfMembers, Ascends,
          Climbs

LEMMA DeregisterRing ==
    ASSUME RingInv, NEW n \in Nodes, Deregister(n)
    PROVE  RingInv'
  <1> DEFINE r == Removal(n)
  <1>1. /\ members' = members \ {n} /\ owner' = r.owner
        /\ ring' = IF r.raised THEN ring ELSE r.kept
        /\ stumbled' = (stumbled \/ r.raised)
        /\ hash' = hash
    BY DEF Deregister
  <1>2. /\ hash \in [VirtualNodes -> Tokens] /\ members \subseteq Nodes
        /\ ring \in Seq(Tokens) /\ Ascends(ring)
        /\ owner \in [Tokens -> Nodes \cup {NoNode}] /\ stumbled \in BOOLEAN
        /\ ~ stumbled => \A t \in ToSet(ring) : owner[t] \in members
        /\ Distinct =>
              /\ ~ stumbled /\ Climbs(ring)
              /\ \A t \in ToSet(ring) : t \in TokensOf(owner[t])
              /\ \A m \in members :
                     \A t \in TokensOf(m) : owner[t] = m /\ t \in ToSet(ring)
    BY DEF RingInv, RingTypeOK, EntriesAreMembers, RingIsOfMembers, Ascends,
           Climbs
  <1>3. /\ r \in Removals
        /\ ~ r.raised =>
               /\ Ascends(r.kept) /\ (Climbs(ring) => Climbs(r.kept))
               /\ ToSet(r.kept) = {t \in ToSet(ring) : owner[t] # n}
               /\ \A t \in Tokens : owner[t] # n => r.owner[t] = owner[t]
        /\ Climbs(ring) /\ (\A t \in ToSet(ring) : owner[t] # NoNode) =>
               ~ r.raised
    BY <1>2, RingAfterRemoval
  <1> HIDE DEF r
  <1>4. /\ r.owner \in [Tokens -> Nodes \cup {NoNode}] /\ r.kept \in Seq(Tokens)
        /\ r.raised \in BOOLEAN
    BY <1>3 DEF Removals
  <1>5. /\ \A m \in Nodes : TokensOf(m) \subseteq Tokens
        /\ \A t \in ToSet(ring) : t \in Tokens
    BY <1>2, TokensTyped DEF ToSet
  <1>6. /\ Distinct' = Distinct
        /\ \A m : TokensOf(m)' = TokensOf(m)
    BY <1>1 DEF Distinct, TokensOf
  <1>7. RingTypeOK'
    <2>1. ring' \in Seq(Tokens) /\ Ascends(ring)'
      BY <1>1, <1>2, <1>3, <1>4 DEF Ascends
    <2>2. /\ hash' \in [VirtualNodes -> Tokens] /\ members' \subseteq Nodes
          /\ owner' \in [Tokens -> Nodes \cup {NoNode}] /\ stumbled' \in BOOLEAN
      BY <1>1, <1>2, <1>4
    <2> QED BY <2>1, <2>2 DEF RingTypeOK, Ascends
  <1>8. ASSUME ~ r.raised
        PROVE  /\ ToSet(ring)' = {t \in ToSet(ring) : owner[t] # n}
               /\ \A t \in ToSet(ring)' : owner'[t] = owner[t]
               /\ Climbs(ring) => Climbs(ring)'
    <2>1. ring' = r.kept
      BY <1>1, <1>8
    <2>2. ToSet(ring)' = {t \in ToSet(ring) : owner[t] # n}
      BY <1>3, <1>8, <2>1 DEF ToSet
    <2>3. Climbs(ring) => Climbs(ring)'
      BY <1>3, <1>8, <2>1 DEF Climbs
    <2> QED BY <1>1, <1>3, <1>5, <1>8, <2>2, <2>3
  <1>9. EntriesAreMembers'
    <2> SUFFICES ASSUME ~ stumbled'
                 PROVE  \A t \in ToSet(ring)' : owner'[t] \in members'
      BY DEF EntriesAreMembers
    <2>1. ~ stumbled /\ ~ r.raised
      BY <1>1
    <2> QED BY <1>1, <1>2, <1>8, <2>1
  <1>10. RingIsOfMembers'
    <2> SUFFICES ASSUME Distinct
                 PROVE  /\ ~ stumbled' /\ Climbs(ring)'
                        /\ \A t \in ToSet(ring)' : t \in TokensOf(owner'[t])
                        /\ \A m \in members' : \A t \in TokensOf(m) :
                               owner'[t] = m /\ t \in ToSet(ring)'
      BY <1>6 DEF RingIsOfMembers, Climbs
    <2>1. /\ ~ stumbled /\ Climbs(ring)
          /\ \A t \in ToSet(ring) : owner[t] \in members
      BY <1>2
    <2>2. ~ r.raised
      <3>1. \A t \in ToSet(ring) : owner[t] # NoNode
        BY <1>2, <2>1, HashRingAssumption
      <3> QED BY <1>3, <2>1, <3>1
    <2>3. \A m \in members' : \A t \in TokensOf(m) :
              owner'[t] = m /\ t \in ToSet(ring)'
      <3> SUFFICES ASSUME NEW m \in members', NEW t \in TokensOf(m)
                   PROVE  owner'[t] = m /\ t \in ToSet(ring)'
        OBVIOUS
      <3>1. m \in members /\ m # n
        BY <1>1
      <3>2. owner[t] = m /\ t \in ToSet(ring)
        BY <1>2, <3>1
      <3> QED BY <1>8, <2>2, <3>1, <3>2
    <2> QED BY <1>1, <1>2, <1>8, <2>1, <2>2, <2>3
  <1> QED BY <1>7, <1>9, <1>10 DEF RingInv

(* The ring and its entries stay as RingInv says, whatever nodes join and  *)
(* leave.                                                                  *)
THEOREM RingInvariance == RingSpec => []RingInv
  <1>1. RingInit => RingInv
    BY InitRing
  <1>2. RingInv /\ [RingNext]_ringVars => RingInv'
    <2> SUFFICES ASSUME RingInv, [RingNext]_ringVars PROVE RingInv' OBVIOUS
    <2>1. CASE RingNext
      BY <2>1, RegisterRing, DeregisterRing DEF RingNext
    <2>2. CASE UNCHANGED ringVars
      <3>1. /\ hash' = hash /\ members' = members /\ ring' = ring
            /\ owner' = owner /\ stumbled' = stumbled
        BY <2>2 DEF ringVars
      <3>2. RingTypeOK' /\ EntriesAreMembers'
        BY <3>1 DEF RingInv, RingTypeOK, EntriesAreMembers, ToSet
      <3>3. RingIsOfMembers'
        BY <3>1 DEF RingInv, RingIsOfMembers, Distinct, TokensOf, ToSet
      <3> QED BY <3>2, <3>3 DEF RingInv
    <2> QED BY <2>1, <2>2
  <1> QED BY <1>1, <1>2, PTL DEF RingSpec

-----------------------------------------------------------------------------
(* Lookups.                                                                *)
Entries == Nodes \cup {NoNode}

NoRepeats(s) == \A i, j \in DOMAIN s : s[i] = s[j] => i = j

InOrder(rank, s) == \A i, j \in DOMAIN s : i < j => rank[s[i]] < rank[s[j]]

LEMMA NothingYet ==
    /\ <<>> \in Seq(Entries) /\ Len(<<>>) = 0
    /\ NoRepeats(<<>>) /\ ToSet(<<>>) = {}
    /\ \A rank : InOrder(rank, <<>>)
  BY DEF NoRepeats, ToSet, InOrder

LEMMA AppendNode ==
    ASSUME NEW s \in Seq(Entries), NEW x \in Entries
    PROVE  /\ Append(s, x) \in Seq(Entries)
           /\ Len(Append(s, x)) = Len(s) + 1
           /\ ToSet(Append(s, x)) = ToSet(s) \cup {x}
           /\ NoRepeats(s) /\ x \notin ToSet(s) => NoRepeats(Append(s, x))
           /\ \A rank : InOrder(rank, s) /\ (\A y \in ToSet(s) : rank[y] < rank[x])
                            => InOrder(rank, Append(s, x))
  <1> DEFINE n == Len(s)
             r == Append(s, x)
  <1>1. /\ n \in Nat /\ DOMAIN s = 1 .. n /\ DOMAIN r = 1 .. (n + 1)
        /\ r \in Seq(Entries) /\ Len(r) = n + 1
        /\ \A i \in 1 .. n : r[i] = s[i]
        /\ r[n + 1] = x
    OBVIOUS
  <1> HIDE DEF n, r
  <1>2. /\ ToSet(r) = {r[i] : i \in 1 .. (n + 1)}
        /\ ToSet(s) = {s[i] : i \in 1 .. n}
    BY <1>1 DEF ToSet
  <1>3. \A i : i \in 1 .. (n + 1) <=> i \in 1 .. n \/ i = n + 1
    BY <1>1
  <1>4. ToSet(r) = ToSet(s) \cup {x}
    BY <1>1, <1>2, <1>3
  <1>5. ASSUME NoRepeats(s), x \notin ToSet(s) PROVE NoRepeats(r)
    <2> SUFFICES ASSUME NEW i \in 1 .. (n + 1), NEW j \in 1 .. (n + 1),
                        r[i] = r[j]
                 PROVE  i = j
      BY <1>1 DEF NoRepeats
    <2>1. \A k \in 1 .. n : r[k] # x
      BY <1>1, <1>2, <1>5
    <2> QED BY <1>1, <1>3, <1>5, <2>1 DEF NoRepeats
  <1>6. ASSUME NEW rank, InOrder(rank, s), \A y \in ToSet(s) : rank[y] < rank[x]
        PROVE  InOrder(rank, r)
    <2> SUFFICES ASSUME NEW i \in 1 .. (n + 1), NEW j \in 1 .. (n + 1), i < j
                 PROVE  rank[r[i]] < rank[r[j]]
      BY <1>1 DEF InOrder
    <2>1. i \in 1 .. n /\ r[i] = s[i] /\ s[i] \in ToSet(s)
      BY <1>1, <1>2
    <2>2. CASE j = n + 1
      BY <1>1, <1>6, <2>1, <2>2
    <2>3. CASE j \in 1 .. n
      <3>1. r[j] = s[j] /\ i \in DOMAIN s /\ j \in DOMAIN s
        BY <1>1, <2>1, <2>3
      <3> QED BY <1>6, <2>1, <3>1 DEF InOrder
    <2> QED BY <1>3, <2>2, <2>3
  <1> QED BY <1>1, <1>4, <1>5, <1>6 DEF n, r

LEMMA NoRepeatsCount ==
    ASSUME NEW s \in Seq(Entries), NoRepeats(s)
    PROVE  IsFiniteSet(ToSet(s)) /\ Cardinality(ToSet(s)) = Len(s)
  <1> DEFINE n == Len(s)
  <1>1. n \in Nat /\ DOMAIN s = 1 .. n /\ s \in [1 .. n -> ToSet(s)]
    BY DEF ToSet
  <1>2. \A x \in ToSet(s) : \E i \in 1 .. n : s[i] = x
    BY <1>1 DEF ToSet
  <1>3. \A i, j \in 1 .. n : s[i] = s[j] => i = j
    BY <1>1 DEF NoRepeats
  <1> HIDE DEF n
  <1>4. s \in Injection(1 .. n, ToSet(s)) /\ s \in Surjection(1 .. n, ToSet(s))
    <2>1. s \in Injection(1 .. n, ToSet(s))
      BY <1>1, <1>3, Fun_IsInj
    <2>2. s \in Surjection(1 .. n, ToSet(s))
      BY <1>1, <1>2 DEF Surjection
    <2> QED BY <2>1, <2>2
  <1>5. IsFiniteSet(1 .. n) /\ Cardinality(1 .. n) = n
    BY <1>1, FS_Interval
  <1>6. /\ IsFiniteSet(ToSet(s))
        /\ Cardinality(ToSet(s)) = Cardinality(1 .. n)
    BY <1>4, <1>5, FS_Surjection
  <1> QED BY <1>5, <1>6 DEF n

(* The walk starts behind h and comes round to every token.                *)
LEMMA ModTwice ==
    ASSUME NEW b \in Nat \ {0}, NEW a \in 0 .. (2 * b - 1)
    PROVE  a % b = IF a < b THEN a ELSE a - b
  BY SMT

LEMMA ClockwiseWalk ==
    ASSUME ring \in Seq(Tokens), NEW h \in Tokens
    PROVE  LET p == Bisect(ring, h)  c == Len(ring)
           IN  /\ c \in Nat /\ p \in 0 .. c
               /\ \A i \in 1 .. c :
                      /\ i <= c - p => /\ p + i \in 1 .. c
                                       /\ Clockwise(h)[i] = ring[p + i]
                      /\ i > c - p => /\ p + i - c \in 1 .. p
                                      /\ Clockwise(h)[i] = ring[p + i - c]
  <1> DEFINE p == Bisect(ring, h)
             c == Len(ring)
  <1>1. c \in Nat /\ p \in 0 .. c
    BY BisectTyped
  <1>2. \A i \in 1 .. c : Clockwise(h)[i] = ring[((p + i - 1) % c) + 1]
    BY DEF Clockwise
  <1> HIDE DEF p, c
  <1>3. ASSUME NEW i \in 1 .. c
        PROVE  /\ i <= c - p => /\ p + i \in 1 .. c
                                /\ Clockwise(h)[i] = ring[p + i]
               /\ i > c - p => /\ p + i - c \in 1 .. p
                               /\ Clockwise(h)[i] = ring[p + i - c]
    <2> DEFINE a == p + i - 1
    <2>1. c \in Nat \ {0} /\ a \in 0 .. (2 * c - 1)
      BY <1>1
    <2> HIDE DEF a
    <2>2. a % c = IF a < c THEN a ELSE a - c
      BY <2>1, ModTwice
    <2>3. Clockwise(h)[i] = ring[(a % c) + 1]
      BY <1>2 DEF a
    <2>4. CASE i <= c - p
      <3>1. a < c /\ a + 1 = p + i /\ p + i \in 1 .. c
        BY <1>1, <2>4 DEF a
      <3> QED BY <1>1, <2>2, <2>3, <2>4, <3>1
    <2>5. CASE i > c - p
      <3>1. ~ (a < c) /\ (a - c) + 1 = p + i - c /\ p + i - c \in 1 .. p
        BY <1>1, <2>5 DEF a
      <3> QED BY <1>1, <2>2, <2>3, <2>5, <3>1
    <2> QED BY <1>1, <2>4, <2>5
  <1> QED BY <1>1, <1>3 DEF p, c

LEMMA ClockwiseMeetsAll ==
    ASSUME ring \in Seq(Tokens), NEW h \in Tokens
    PROVE  /\ \A i \in 1 .. Len(ring) :
                  Clockwise(h)[i] \in ToSet(ring) /\ Clockwise(h)[i] \in Tokens
           /\ \A t \in ToSet(ring) :
                  \E i \in 1 .. Len(ring) : Clockwise(h)[i] = t
  <1> DEFINE p == Bisect(ring, h)
             c == Len(ring)
  <1>1. /\ c \in Nat /\ p \in 0 .. c
        /\ \A i \in 1 .. c :
               /\ i <= c - p => /\ p + i \in 1 .. c
                                /\ Clockwise(h)[i] = ring[p + i]
               /\ i > c - p => /\ p + i - c \in 1 .. p
                               /\ Clockwise(h)[i] = ring[p + i - c]
    BY ClockwiseWalk
  <1>2. /\ \A i \in 1 .. c : ring[i] \in Tokens
        /\ ToSet(ring) = {ring[i] : i \in 1 .. c}
    BY DEF ToSet
  <1> HIDE DEF p, c
  <1>3. ASSUME NEW i \in 1 .. c PROVE \E j \in 1 .. c : Clockwise(h)[i] = ring[j]
    <2>1. CASE i <= c - p
      BY <1>1, <2>1
    <2>2. CASE i > c - p
      <3>1. p + i - c \in 1 .. c /\ Clockwise(h)[i] = ring[p + i - c]
        BY <1>1, <2>2
      <3> QED BY <3>1
    <2> QED BY <1>1, <2>1, <2>2
  <1>4. ASSUME NEW j \in 1 .. c PROVE \E i \in 1 .. c : Clockwise(h)[i] = ring[j]
    <2>1. CASE j > p
      <3>1. j - p \in 1 .. c /\ j - p <= c - p /\ p + (j - p) = j
        BY <1>1, <2>1
      <3>2. Clockwise(h)[j - p] = ring[p + (j - p)]
        BY <1>1, <3>1
      <3> QED BY <3>1, <3>2
    <2>2. CASE j <= p
      <3> DEFINE i == j + c - p
      <3>1. i \in 1 .. c /\ i > c - p /\ p + i - c = j
        BY <1>1, <2>2
      <3> HIDE DEF i
      <3>2. Clockwise(h)[i] = ring[p + i - c]
        BY <1>1, <3>1
      <3> QED BY <3>1, <3>2
    <2> QED BY <1>1, <2>1, <2>2
  <1> QED BY <1>2, <1>3, <1>4 DEF c

LEMMA GetNodesLoop ==
    ASSUME owner \in [Tokens -> Entries], ring \in Seq(Tokens),
           NEW h \in Tokens, NEW count, NEW excluded
    PROVE  \E g : /\ g[0] = <<>>
                  /\ \A i \in 1 .. Len(ring) :
                         g[i] = Take(owner[Clockwise(h)[i]], g[i - 1],
                                     count, excluded)
                  /\ GetNodes(h, count, excluded) = g[Len(ring)]
  <1> DEFINE c == Len(ring)
             X == Seq(Entries)
             x0 == <<>>
             node == [i \in 1 .. c |-> owner[Clockwise(h)[i]]]
             F == [i \in 1 .. c |->
                       [s \in X |-> Take(node[i], s, count, excluded)]]
             Is(f) == f = [i \in 0 .. c |-> IF i = 0 THEN <<>>
                               ELSE Take(owner[Clockwise(h)[i]], f[i - 1],
                                         count, excluded)]
             f == CHOOSE f : Is(f)
  <1>1. c \in Nat /\ \A i \in 1 .. c : node[i] \in Entries
    BY ClockwiseMeetsAll
  <1>2. x0 \in X
    OBVIOUS
  <1>3. GetNodes(h, count, excluded) = f[c]
    BY DEF GetNodes
  <1>4. \A i \in 1 .. c : node[i] = owner[Clockwise(h)[i]]
    OBVIOUS
  <1> HIDE DEF c, node, X, x0
  <1>5. ASSUME NEW i \in 1 .. c, NEW s \in X
        PROVE  /\ Take(node[i], s, count, excluded) \in X
               /\ F[i][s] = Take(node[i], s, count, excluded)
    <2>1. Append(s, node[i]) \in X
      BY <1>1, AppendNode DEF X
    <2> QED BY <2>1 DEF Take
  <1>6. F \in Loops(c, X)
    BY <1>5 DEF Loops
  <1> HIDE DEF F
  <1>7. PICK g \in Traces(c, X) : TraceOf(g, c, x0, F)
    BY <1>1, <1>2, <1>6, LoopRuns
  <1>8. Is(g)
    <2>1. ASSUME NEW i \in 1 .. c
          PROVE  g[i] = Take(owner[Clockwise(h)[i]], g[i - 1], count, excluded)
      <3>1. i - 1 \in 0 .. c
        BY <1>1
      <3>2. g[i - 1] \in X
        BY <1>7, <3>1 DEF Traces
      <3> QED BY <1>4, <1>5, <1>7, <3>2 DEF TraceOf
    <2> QED BY <1>1, <1>7, <2>1 DEF Traces, TraceOf, x0
  <1>9. Is(f)
    BY <1>8, Zenon
  <1> HIDE DEF f
  <1>10. f[0] = <<>>
    BY <1>1, <1>9
  <1>11. ASSUME NEW i \in 1 .. c
         PROVE  f[i] = Take(owner[Clockwise(h)[i]], f[i - 1], count, excluded)
    <2>1. i \in 0 .. c /\ i # 0
      BY <1>1
    <2> QED BY <1>9, <2>1
  <1> QED BY <1>3, <1>10, <1>11 DEF c

(* What a lookup names as long as no removal has raised.                   *)
LEMMA LookupFinds ==
    ASSUME RingInv, ~ stumbled, NEW h \in Tokens, NEW count \in Nat,
           NEW excluded \in SUBSET members
    PROVE  LET found == GetNodes(h, count, excluded)
           IN  /\ found \in Seq(Entries) /\ NoRepeats(found)
               /\ ToSet(found) \subseteq members \ excluded
               /\ count # 0 => Len(found) <= count
  <1> DEFINE c == Len(ring)
             node == [i \in 1 .. c |-> owner[Clockwise(h)[i]]]
  <1>1. /\ ring \in Seq(Tokens) /\ owner \in [Tokens -> Entries]
        /\ \A t \in ToSet(ring) : owner[t] \in members
        /\ members \subseteq Nodes
    BY DEF RingInv, RingTypeOK, EntriesAreMembers, Entries
  <1>2. c \in Nat /\ \A i \in 1 .. c : node[i] \in members
    BY <1>1, ClockwiseMeetsAll
  <1>3. \E g : /\ g[0] = <<>>
               /\ \A i \in 1 .. c :
                      g[i] = Take(node[i], g[i - 1], count, excluded)
               /\ GetNodes(h, count, excluded) = g[c]
    BY <1>1, GetNodesLoop
  <1>4. PICK g : /\ g[0] = <<>>
                 /\ \A i \in 1 .. c :
                        g[i] = Take(node[i], g[i - 1], count, excluded)
                 /\ GetNodes(h, count, excluded) = g[c]
    BY <1>3
  <1> HIDE DEF c, node
  <1> DEFINE S == {i \in 0 .. c :
                     /\ g[i] \in Seq(Entries) /\ NoRepeats(g[i])
                     /\ ToSet(g[i]) \subseteq members \ excluded
                     /\ count # 0 => Len(g[i]) <= count}
  <1>5. 0 \in S
    <2>1. /\ <<>> \in Seq(Entries) /\ Len(<<>>) = 0
          /\ NoRepeats(<<>>) /\ ToSet(<<>>) = {}
      BY NothingYet
    <2>2. 0 \in 0 .. c
      BY <1>2
    <2>3. /\ g[0] \in Seq(Entries) /\ NoRepeats(g[0])
          /\ ToSet(g[0]) = {} /\ Len(g[0]) = 0
      BY <1>4, <2>1
    <2>4. 0 <= count
      OBVIOUS
    <2> QED BY <2>2, <2>3, <2>4
  <1>6. ASSUME NEW i \in 1 .. c, i - 1 \in S PROVE i \in S
    <2> DEFINE s == g[i - 1]
               x == node[i]
    <2>1. /\ s \in Seq(Entries) /\ NoRepeats(s)
          /\ ToSet(s) \subseteq members \ excluded
          /\ count # 0 => Len(s) <= count
          /\ x \in members /\ x \in Entries
      BY <1>1, <1>2, <1>6 DEF Entries
    <2>2. g[i] = Take(x, s, count, excluded) /\ i \in 0 .. c
      BY <1>2, <1>4
    <2> HIDE DEF s, x
    <2>3. CASE g[i] = s
      BY <2>1, <2>2, <2>3
    <2>4. CASE g[i] # s
      <3>1. /\ g[i] = Append(s, x) /\ x \notin excluded /\ x \notin ToSet(s)
            /\ s = <<>> \/ ~ (Len(s) >= count)
        BY <2>2, <2>4 DEF Take
      <3>2. /\ g[i] \in Seq(Entries) /\ NoRepeats(g[i])
            /\ Len(g[i]) = Len(s) + 1
            /\ ToSet(g[i]) = ToSet(s) \cup {x}
        BY <2>1, <3>1, AppendNode
      <3>3. count # 0 => Len(g[i]) <= count
        <4>1. Len(s) \in Nat /\ (s = <<>> => Len(s) = 0)
          BY <2>1
        <4> QED BY <3>1, <3>2, <4>1
      <3> QED BY <2>1, <2>2, <3>1, <3>2, <3>3
    <2> QED BY <2>3, <2>4
  <1> HIDE DEF S
  <1>7. \A i \in 0 .. c : i \in S
    BY <1>2, <1>5, <1>6, StepByStep
  <1>8. c \in S
    BY <1>2, <1>7
  <1> QED BY <1>4, <1>8 DEF S

(* Whatever tokens collide, lookups name members, none of them twice and   *)
(* none that is excluded, until a removal raises.                          *)
THEOREM LookupsRight == RingSpec => []LookupsNameMembers
  <1>1. RingInv => LookupsNameMembers
    <2> SUFFICES ASSUME RingInv, ~ stumbled, NEW h \in Tokens,
                        NEW count \in 1 .. Cardinality(Nodes),
                        NEW excluded \in SUBSET members
                 PROVE  LET found == GetNodes(h, count, excluded)
                        IN  /\ ToSet(found) \subseteq members \ excluded
                            /\ Cardinality(ToSet(found)) = Len(found)
                            /\ Len(found) <= count
      BY DEF LookupsNameMembers
    <2>1. Cardinality(Nodes) \in Nat
      BY NodesFinite
    <2>2. count \in Nat /\ count # 0
      BY <2>1
    <2> QED BY <2>2, LookupFinds, NoRepeatsCount
  <1> QED BY <1>1, RingInvariance, PTL

-----------------------------------------------------------------------------
(* The order in which a walk meets the tokens, and with them the nodes.    *)
Gap(h, t) == (t + Space - h - 1) % Space

LEMMA GapIs ==
    ASSUME NEW h \in Tokens, NEW t \in Tokens
    PROVE  /\ Gap(h, t) = IF t > h THEN t - h - 1 ELSE t + Space - h - 1
           /\ Gap(h, t) \in Nat
  <1> DEFINE a == t + Space - h - 1
  <1>1. /\ Space \in Nat \ {0} /\ h \in 0 .. (Space - 1) /\ t \in 0 .. (Space - 1)
    BY HashRingAssumption DEF Tokens
  <1>2. a \in 0 .. (2 * Space - 1) /\ (a < Space <=> ~ (t > h))
    BY <1>1
  <1>3. Gap(h, t) = a % Space
    BY DEF Gap
  <1> HIDE DEF a
  <1>4. Gap(h, t) = IF a < Space THEN a ELSE a - Space
    BY <1>1, <1>2, <1>3, ModTwice
  <1>5. CASE t > h
    <2>1. a - Space = t - h - 1 /\ t - h - 1 \in Nat
      BY <1>1, <1>5 DEF a
    <2> QED BY <1>2, <1>4, <1>5, <2>1
  <1>6. CASE ~ (t > h)
    <2>1. a = t + Space - h - 1 /\ a \in Nat
      BY <1>2 DEF a
    <2> QED BY <1>2, <1>4, <1>6, <2>1
  <1> QED BY <1>5, <1>6

LEMMA GapsDiffer ==
    ASSUME NEW h \in Tokens, NEW t \in Tokens, NEW u \in Tokens,
           Gap(h, t) = Gap(h, u)
    PROVE  t = u
  <1> DEFINE x == Gap(h, t)
  <1>1. /\ Space \in Nat /\ h \in Nat /\ t \in Nat /\ u \in Nat
        /\ h < Space /\ t < Space /\ u < Space
    BY TokensAreNaturals
  <1>2. /\ x \in Nat
        /\ x = IF t > h THEN t - h - 1 ELSE t + Space - h - 1
        /\ x = IF u > h THEN u - h - 1 ELSE u + Space - h - 1
    BY GapIs
  <1> HIDE DEF x
  <1> QED BY <1>1, <1>2

LEMMA MinIsLeast ==
    ASSUME NEW T \in SUBSET Nat, T # {}
    PROVE  Min(T) \in T /\ \A y \in T : Min(T) <= y
  <1>1. \E x \in T : \A y \in T : x <= y
    BY LeastNatural
  <1> QED BY <1>1 DEF Min

LEMMA MinOfTwo ==
    ASSUME NEW a \in Nat, NEW b \in Nat
    PROVE  Min({a, b}) = Lesser(a, b)
  <1> DEFINE T == {a, b}
  <1>1. T \in SUBSET Nat /\ T # {} /\ a \in T /\ b \in T
    OBVIOUS
  <1>2. \A x \in T : x = a \/ x = b
    OBVIOUS
  <1> HIDE DEF T
  <1>3. Min(T) \in T /\ Min(T) <= a /\ Min(T) <= b
    BY <1>1, MinIsLeast
  <1>4. Min(T) = Lesser(a, b)
    BY <1>2, <1>3 DEF Lesser
  <1> QED BY <1>4 DEF T

(* The distance of a node is that of one of its tokens, the nearest.       *)
LEMMA NearestToken ==
    ASSUME hash \in [VirtualNodes -> Tokens], NEW h \in Tokens, NEW n \in Nodes
    PROVE  /\ Distance(h, n) \in Nat
           /\ \E t \in TokensOf(n) : t \in Tokens /\ Distance(h, n) = Gap(h, t)
           /\ \A t \in TokensOf(n) : Distance(h, n) <= Gap(h, t)
  <1> DEFINE T == {Gap(h, t) : t \in TokensOf(n)}
  <1>1. TokensOf(n) \subseteq Tokens
    BY TokensTyped
  <1>2. TokensOf(n) # {}
    BY TokensTyped
  <1>3. T \in SUBSET Nat /\ T # {}
    BY <1>1, <1>2, GapIs
  <1>4. Distance(h, n) = Min(T)
    BY DEF Distance, Gap
  <1>5. \A x \in T : \E t \in TokensOf(n) : x = Gap(h, t)
    OBVIOUS
  <1>6. \A t \in TokensOf(n) : Gap(h, t) \in T
    OBVIOUS
  <1> HIDE DEF T
  <1>7. Min(T) \in T /\ \A x \in T : Min(T) <= x
    BY <1>3, MinIsLeast
  <1> QED BY <1>1, <1>3, <1>4, <1>5, <1>6, <1>7

RankFrom(h) == [n \in Nodes |-> Distance(h, n)]

LEMMA DistanceRanks ==
    ASSUME hash \in [VirtualNodes -> Tokens], Distinct, NEW h \in Tokens
    PROVE  RankFrom(h) \in Ranks
  <1>1. \A n \in Nodes : RankFrom(h)[n] = Distance(h, n) /\ Distance(h, n) \in Nat
    BY NearestToken DEF RankFrom
  <1>2. RankFrom(h) \in [Nodes -> Nat]
    BY <1>1 DEF RankFrom
  <1>3. ASSUME NEW m \in Nodes, NEW n \in Nodes,
               RankFrom(h)[m] = RankFrom(h)[n], m # n
        PROVE  FALSE
    <2>1. PICK t \in TokensOf(m) : t \in Tokens /\ Distance(h, m) = Gap(h, t)
      BY NearestToken
    <2>2. PICK u \in TokensOf(n) : u \in Tokens /\ Distance(h, n) = Gap(h, u)
      BY NearestToken
    <2>3. t = u
      BY <1>1, <1>3, <2>1, <2>2, GapsDiffer
    <2> QED BY <1>3, <2>3, DistinctTokens
  <1> QED BY <1>2, <1>3 DEF Ranks

(* No token is met before one that is nearer.                              *)
LEMMA ClockwiseClimbs ==
    ASSUME ring \in Seq(Tokens), Climbs(ring), NEW h \in Tokens,
           NEW i \in 1 .. Len(ring), NEW j \in 1 .. Len(ring), i < j
    PROVE  Gap(h, Clockwise(h)[i]) < Gap(h, Clockwise(h)[j])
  <1> DEFINE p == Bisect(ring, h)
             c == Len(ring)
             t == Clockwise(h)[i]
             u == Clockwise(h)[j]
  <1>1. /\ c \in Nat /\ p \in 0 .. c
        /\ \A k \in 1 .. c :
               /\ k <= c - p => /\ p + k \in 1 .. c
                                /\ Clockwise(h)[k] = ring[p + k]
               /\ k > c - p => /\ p + k - c \in 1 .. p
                               /\ Clockwise(h)[k] = ring[p + k - c]
    BY ClockwiseWalk
  <1>2. DOMAIN ring = 1 .. c /\ \A k \in 1 .. c : ring[k] \in Tokens
    OBVIOUS
  <1>3. Ascends(ring)
    <2> SUFFICES ASSUME NEW x \in 1 .. c, NEW y \in 1 .. c, x <= y
                 PROVE  ring[x] <= ring[y]
      BY <1>2 DEF Ascends
    <2>1. ring[x] \in Nat /\ ring[y] \in Nat
      BY <1>2, TokensAreNaturals
    <2>2. x < y => ring[x] < ring[y]
      BY <1>2 DEF Climbs
    <2> QED BY <2>1, <2>2
  <1>4. \A k \in 1 .. c : ring[k] <= h <=> k <= p
    BY <1>3, BisectSplits
  <1>5. t \in Tokens /\ u \in Tokens
    BY ClockwiseMeetsAll
  <1> HIDE DEF p, c
  <1>6. \A x, y \in 1 .. c : x < y => ring[x] < ring[y]
    BY <1>2 DEF Climbs
  <1>7. i \in 1 .. c /\ j \in 1 .. c
    BY DEF c
  <1>8. /\ i <= c - p => p + i \in 1 .. c /\ t = ring[p + i]
        /\ i > c - p => p + i - c \in 1 .. p /\ t = ring[p + i - c]
        /\ j <= c - p => p + j \in 1 .. c /\ u = ring[p + j]
        /\ j > c - p => p + j - c \in 1 .. p /\ u = ring[p + j - c]
    BY <1>1, <1>7
  <1> HIDE DEF t, u
  <1> SUFFICES Gap(h, t) < Gap(h, u)
    BY DEF t, u
  <1>9. /\ Space \in Nat /\ h \in Nat /\ t \in Nat /\ u \in Nat
        /\ h < Space /\ t < Space /\ u < Space
    BY <1>5, TokensAreNaturals
  <1>10. /\ Gap(h, t) = IF t > h THEN t - h - 1 ELSE t + Space - h - 1
         /\ Gap(h, u) = IF u > h THEN u - h - 1 ELSE u + Space - h - 1
    BY <1>5, GapIs
  <1>11. CASE j <= c - p
    <2>1. i <= c - p /\ p + i < p + j /\ p + i > p /\ p + j > p
      BY <1>1, <1>7, <1>11
    <2>2. t < u /\ ~ (t <= h) /\ ~ (u <= h)
      BY <1>1, <1>4, <1>6, <1>8, <1>11, <2>1
    <2> QED BY <1>9, <1>10, <2>2
  <1>12. CASE i <= c - p /\ j > c - p
    <2>1. p + i > p /\ p + j - c <= p /\ p + j - c \in 1 .. c
      BY <1>1, <1>7, <1>8, <1>12
    <2>2. ~ (t <= h) /\ u <= h
      BY <1>1, <1>4, <1>7, <1>8, <1>12, <2>1
    <2> QED BY <1>9, <1>10, <2>2
  <1>13. CASE i > c - p
    <2>1. /\ j > c - p /\ p + i - c < p + j - c
          /\ p + i - c \in 1 .. p /\ p + j - c \in 1 .. p
          /\ p + i - c \in 1 .. c /\ p + j - c \in 1 .. c
      BY <1>1, <1>7, <1>8, <1>13
    <2>2. t < u /\ t <= h /\ u <= h
      BY <1>1, <1>4, <1>6, <1>8, <1>13, <2>1
    <2> QED BY <1>9, <1>10, <2>2
  <1> QED BY <1>1, <1>7, <1>11, <1>12, <1>13

-----------------------------------------------------------------------------
(* The owners of the tokens that a walk meets: the first token of a node   *)
(* that it meets is the nearest one.                                       *)
LEMMA WalkMeetsNodes ==
    ASSUME RingInv, Distinct, NEW h \in Tokens
    PROVE  LET c == Len(ring)
               node == [i \in 1 .. c |-> owner[Clockwise(h)[i]]]
               w == [i \in 1 .. c |-> Gap(h, Clockwise(h)[i])]
           IN  /\ c \in Nat /\ \A i \in 1 .. c : node[i] \in members
               /\ \A i \in 1 .. c : w[i] \in Nat
               /\ \A i, j \in 1 .. c : i < j => w[i] < w[j]
               /\ \A i \in 1 .. c : RankFrom(h)[node[i]] <= w[i]
               /\ \A n \in members : \E k \in 1 .. c :
                      node[k] = n /\ RankFrom(h)[n] = w[k]
  <1> DEFINE c == Len(ring)
             node == [i \in 1 .. c |-> owner[Clockwise(h)[i]]]
             w == [i \in 1 .. c |-> Gap(h, Clockwise(h)[i])]
  <1>1. /\ ring \in Seq(Tokens) /\ Climbs(ring) /\ members \subseteq Nodes
        /\ hash \in [VirtualNodes -> Tokens]
        /\ \A t \in ToSet(ring) : owner[t] \in members
        /\ \A t \in ToSet(ring) : t \in TokensOf(owner[t])
        /\ \A n \in members :
               \A t \in TokensOf(n) : owner[t] = n /\ t \in ToSet(ring)
    BY DEF RingInv, RingTypeOK, EntriesAreMembers, RingIsOfMembers, Climbs
  <1>2. /\ \A i \in 1 .. c : /\ Clockwise(h)[i] \in ToSet(ring)
                             /\ Clockwise(h)[i] \in Tokens
        /\ \A t \in ToSet(ring) : \E i \in 1 .. c : Clockwise(h)[i] = t
    BY <1>1, ClockwiseMeetsAll
  <1>3. c \in Nat
    BY <1>1
  <1>4. \A i \in 1 .. c : /\ node[i] = owner[Clockwise(h)[i]]
                          /\ w[i] = Gap(h, Clockwise(h)[i])
    OBVIOUS
  <1>5. \A i, j \in 1 .. c : i < j => w[i] < w[j]
    BY <1>1, ClockwiseClimbs
  <1> HIDE DEF c, node, w
  <1>6. \A i \in 1 .. c : node[i] \in members /\ w[i] \in Nat
    BY <1>1, <1>2, <1>4, GapIs
  <1>7. ASSUME NEW i \in 1 .. c PROVE RankFrom(h)[node[i]] <= w[i]
    <2>1. node[i] \in Nodes /\ Clockwise(h)[i] \in TokensOf(node[i])
      BY <1>1, <1>2, <1>4, <1>6
    <2>2. Distance(h, node[i]) <= Gap(h, Clockwise(h)[i])
      BY <1>1, <2>1, NearestToken
    <2> QED BY <1>4, <2>1, <2>2 DEF RankFrom
  <1>8. ASSUME NEW n \in members
        PROVE  \E k \in 1 .. c : node[k] = n /\ RankFrom(h)[n] = w[k]
    <2>1. n \in Nodes
      BY <1>1
    <2>2. PICK t \in TokensOf(n) : Distance(h, n) = Gap(h, t)
      BY <1>1, <2>1, NearestToken
    <2>3. owner[t] = n /\ t \in ToSet(ring)
      BY <1>1
    <2>4. PICK k \in 1 .. c : Clockwise(h)[k] = t
      BY <1>2, <2>3
    <2> QED BY <1>4, <2>1, <2>2, <2>3, <2>4 DEF RankFrom
  <1> QED BY <1>3, <1>5, <1>6, <1>7, <1>8 DEF c, node, w

(* A lookup for as many nodes as there are members names those that are    *)
(* eligible, in the order of their distances.                              *)
LEMMA LookupComplete ==
    ASSUME RingInv, Distinct, NEW h \in Tokens, NEW excluded \in SUBSET members
    PROVE  LET found == GetNodes(h, Cardinality(members), excluded)
           IN  /\ found \in Seq(Entries)
               /\ ToSet(found) = members \ excluded
               /\ InOrder(RankFrom(h), found)
  <1> DEFINE c == Len(ring)
             node == [i \in 1 .. c |-> owner[Clockwise(h)[i]]]
             w == [i \in 1 .. c |-> Gap(h, Clockwise(h)[i])]
             rank == RankFrom(h)
             count == Cardinality(members)
  <1>1. /\ ring \in Seq(Tokens) /\ owner \in [Tokens -> Entries]
        /\ members \in SUBSET Nodes
    BY DEF RingInv, RingTypeOK, Entries
  <1>2. /\ c \in Nat /\ \A i \in 1 .. c : node[i] \in members
        /\ \A i \in 1 .. c : w[i] \in Nat
        /\ \A i, j \in 1 .. c : i < j => w[i] < w[j]
        /\ \A i \in 1 .. c : rank[node[i]] <= w[i]
        /\ \A n \in members : \E k \in 1 .. c : node[k] = n /\ rank[n] = w[k]
    BY WalkMeetsNodes
  <1>3. \E g : /\ g[0] = <<>>
               /\ \A i \in 1 .. c :
                      g[i] = Take(node[i], g[i - 1], count, excluded)
               /\ GetNodes(h, count, excluded) = g[c]
    BY <1>1, GetNodesLoop
  <1>4. rank \in Ranks
    BY DistanceRanks DEF RingInv, RingTypeOK
  <1>5. IsFiniteSet(members) /\ count \in Nat
    BY <1>1, NodesFinite
  <1> HIDE DEF c, node, w, rank, count
  <1>6. PICK g : /\ g[0] = <<>>
                 /\ \A i \in 1 .. c :
                        g[i] = Take(node[i], g[i - 1], count, excluded)
                 /\ GetNodes(h, count, excluded) = g[c]
    BY <1>3
  <1>7. \A n \in members : n \in Nodes /\ n # NoNode /\ rank[n] \in Nat
    BY <1>1, <1>4, Ranked, HashRingAssumption
  <1> DEFINE Met(i) == {node[j] : j \in 1 .. i}
             S == {i \in 0 .. c :
                     /\ g[i] \in Seq(Entries) /\ NoRepeats(g[i])
                     /\ ToSet(g[i]) = Met(i) \ excluded
                     /\ InOrder(rank, g[i])}
  <1>8. 0 \in S
    <2>1. /\ g[0] \in Seq(Entries) /\ NoRepeats(g[0])
          /\ ToSet(g[0]) = {} /\ InOrder(rank, g[0])
      BY <1>6, NothingYet
    <2>2. 0 \in 0 .. c /\ Met(0) = {}
      BY <1>2
    <2> HIDE DEF Met
    <2> QED BY <2>1, <2>2
  <1>9. ASSUME NEW i \in 1 .. c, i - 1 \in S PROVE i \in S
    <2> DEFINE s == g[i - 1]
               x == node[i]
               past == Met(i - 1)
    <2>1. /\ s \in Seq(Entries) /\ NoRepeats(s)
          /\ ToSet(s) = past \ excluded /\ InOrder(rank, s)
      BY <1>9
    <2>2. g[i] = Take(x, s, count, excluded) /\ i \in 0 .. c
      BY <1>2, <1>6
    <2>3. x \in members /\ x \in Entries /\ past \subseteq members
      BY <1>2, <1>7 DEF Entries
    <2>4. Met(i) = past \cup {x}
      <3>1. \A j : j \in 1 .. i <=> j \in 1 .. (i - 1) \/ j = i
        BY <1>2
      <3> QED BY <3>1
    <2>5. ASSUME x \notin past PROVE rank[x] = w[i]
      <3>1. PICK k \in 1 .. c : node[k] = x /\ rank[x] = w[k]
        BY <1>2, <2>3
      <3>2. ~ (k < i)
        <4> SUFFICES ASSUME k < i PROVE FALSE OBVIOUS
        <4>1. k \in 1 .. (i - 1)
          BY <1>2
        <4> QED BY <2>5, <3>1, <4>1
      <3>3. k = i \/ w[i] < w[k]
        BY <1>2, <3>2
      <3>4. rank[x] <= w[i] /\ w[i] \in Nat /\ w[k] \in Nat
        BY <1>2
      <3> QED BY <3>1, <3>3, <3>4
    <2>6. ASSUME NEW y \in past PROVE rank[y] < w[i]
      <3>1. PICK j \in 1 .. (i - 1) : y = node[j]
        OBVIOUS
      <3>2. j \in 1 .. c /\ j < i
        BY <1>2
      <3>3. rank[y] <= w[j] /\ w[j] < w[i] /\ y \in members
        BY <1>2, <3>1, <3>2
      <3>4. rank[y] \in Nat /\ w[j] \in Nat /\ w[i] \in Nat
        BY <1>2, <1>7, <3>2, <3>3
      <3> QED BY <3>3, <3>4
    <2> HIDE DEF s, x, past, Met
    <2>7. CASE x \in excluded \cup ToSet(s)
      <3>1. g[i] = s
        BY <2>2, <2>7 DEF Take
      <3>2. Met(i) \ excluded = past \ excluded
        BY <2>1, <2>4, <2>7
      <3> QED BY <2>1, <2>2, <3>1, <3>2
    <2>8. CASE x \notin excluded \cup ToSet(s)
      <3>1. x \notin past
        BY <2>1, <2>8
      <3>2. s = <<>> \/ ~ (Len(s) >= count \/ Last(s) = NoNode)
        <4> SUFFICES ASSUME s # <<>>
                     PROVE  ~ (Len(s) >= count) /\ Last(s) # NoNode
          OBVIOUS
        <4>1. Last(s) \in ToSet(s)
          <5>1. Len(s) \in 1 .. Len(s) /\ DOMAIN s = 1 .. Len(s)
            BY <2>1
          <5> QED BY <5>1 DEF Last, ToSet
        <4>2. ToSet(s) \subseteq members
          BY <2>1, <2>3
        <4>3. Last(s) # NoNode
          BY <1>7, <4>1, <4>2
        <4>4. Cardinality(ToSet(s)) = Len(s)
          BY <2>1, NoRepeatsCount
        <4>5. ToSet(s) # members
          BY <2>3, <2>8
        <4>6. Cardinality(ToSet(s)) <= count /\ Cardinality(ToSet(s)) # count
          BY <1>5, <4>2, <4>5, FS_Subset DEF count
        <4>7. Len(s) \in Nat
          BY <2>1
        <4> QED BY <1>5, <4>3, <4>4, <4>6, <4>7
      <3>3. g[i] = Append(s, x)
        BY <2>2, <2>8, <3>2 DEF Take
      <3>4. \A y \in ToSet(s) : rank[y] < rank[x]
        BY <2>1, <2>5, <2>6, <3>1
      <3>5. /\ g[i] \in Seq(Entries) /\ NoRepeats(g[i])
            /\ ToSet(g[i]) = ToSet(s) \cup {x}
            /\ InOrder(rank, g[i])
        BY <2>1, <2>3, <2>8, <3>3, <3>4, AppendNode
      <3>6. ToSet(g[i]) = Met(i) \ excluded
        BY <2>1, <2>4, <2>8, <3>5
      <3> QED BY <2>2, <3>5, <3>6
    <2> QED BY <2>7, <2>8
  <1> HIDE DEF S
  <1>10. \A i \in 0 .. c : i \in S
    BY <1>2, <1>8, <1>9, StepByStep
  <1>11. c \in S
    BY <1>2, <1>10
  <1>12. Met(c) = members
    BY <1>2
  <1> HIDE DEF Met
  <1>13. /\ g[c] \in Seq(Entries) /\ ToSet(g[c]) = Met(c) \ excluded
         /\ InOrder(rank, g[c])
    BY <1>11 DEF S
  <1> QED BY <1>6, <1>12, <1>13 DEF rank, count

-----------------------------------------------------------------------------
(* Sorting the nodes found.                                                *)
Piles == [chosen : Seq(Entries), leftovers : Seq(Entries)]

LEMMA SortedLoop ==
    ASSUME NEW s \in Seq(Entries)
    PROVE  \E g : /\ g[0] = [chosen |-> <<>>, leftovers |-> <<>>]
                  /\ \A i \in 1 .. Len(s) :
                         g[i - 1] \in Piles /\ g[i] = SortNode(s[i], g[i - 1])
                  /\ Sorted(s) = g[Len(s)] /\ g[Len(s)] \in Piles
  <1> DEFINE c == Len(s)
             X == Piles
             x0 == [chosen |-> <<>>, leftovers |-> <<>>]
             F == [i \in 1 .. c |-> [p \in X |-> SortNode(s[i], p)]]
             Is(f) == f = [i \in 0 .. c |-> IF i = 0 THEN x0
                               ELSE SortNode(s[i], f[i - 1])]
             f == CHOOSE f : Is(f)
  <1>1. c \in Nat /\ \A i \in 1 .. c : s[i] \in Entries
    OBVIOUS
  <1>2. x0 \in X
    BY DEF Piles
  <1>3. Sorted(s) = f[c]
    BY DEF Sorted
  <1> HIDE DEF c, x0
  <1>4. ASSUME NEW i \in 1 .. c, NEW p \in X
        PROVE  SortNode(s[i], p) \in X /\ F[i][p] = SortNode(s[i], p)
    <2>1. /\ Append(p.chosen, s[i]) \in Seq(Entries)
          /\ Append(p.leftovers, s[i]) \in Seq(Entries)
      BY <1>1, AppendNode DEF Piles
    <2>2. SortNode(s[i], p) \in X
      BY <2>1 DEF SortNode, Piles
    <2> QED BY <2>2
  <1>5. F \in Loops(c, X)
    BY <1>4 DEF Loops
  <1> HIDE DEF F, X
  <1>6. PICK g \in Traces(c, X) : TraceOf(g, c, x0, F)
    BY <1>1, <1>2, <1>5, LoopRuns
  <1>7. ASSUME NEW i \in 1 .. c
        PROVE  g[i - 1] \in X /\ g[i] = SortNode(s[i], g[i - 1])
    <2>1. i - 1 \in 0 .. c
      BY <1>1
    <2>2. g[i - 1] \in X
      BY <1>6, <2>1 DEF Traces
    <2> QED BY <1>4, <1>6, <2>2 DEF TraceOf
  <1>8. Is(g)
    BY <1>1, <1>6, <1>7 DEF Traces, TraceOf
  <1>9. Is(f)
    BY <1>8, Zenon
  <1> HIDE DEF f
  <1>10. f = g
    <2> DEFINE T == {i \in 0 .. c : f[i] = g[i]}
    <2>1. f[0] = x0 /\ g[0] = x0 /\ 0 \in 0 .. c
      BY <1>1, <1>6, <1>9 DEF TraceOf
    <2>2. ASSUME NEW i \in 1 .. c, i - 1 \in T PROVE i \in T
      <3>1. i \in 0 .. c /\ i # 0
        BY <1>1
      <3>2. f[i] = SortNode(s[i], f[i - 1])
        BY <1>9, <3>1
      <3> QED BY <1>7, <2>2, <3>1, <3>2
    <2>3. 0 \in T
      BY <2>1
    <2> HIDE DEF T
    <2>4. \A i \in 0 .. c : i \in T
      BY <1>1, <2>2, <2>3, StepByStep
    <2>5. \A i \in 0 .. c : f[i] = g[i]
      BY <2>4 DEF T
    <2>6. /\ f = [i \in 0 .. c |-> f[i]]
          /\ g = [i \in 0 .. c |-> g[i]]
      BY <1>6, <1>9 DEF Traces
    <2> QED BY <2>5, <2>6
  <1>11. c \in 0 .. c
    BY <1>1
  <1>12. g[c] \in X
    BY <1>6, <1>11 DEF Traces
  <1> QED BY <1>3, <1>6, <1>7, <1>10, <1>12 DEF c, x0, X, TraceOf

(* What is in order begins with the first of what it holds.                *)
LEMMA InOrderOnce ==
    ASSUME NEW rank \in Ranks, NEW s \in Seq(Entries), InOrder(rank, s),
           ToSet(s) \subseteq Nodes
    PROVE  NoRepeats(s)
  <1> SUFFICES ASSUME NEW i \in DOMAIN s, NEW j \in DOMAIN s, s[i] = s[j],
                      i # j
               PROVE  FALSE
    BY DEF NoRepeats
  <1>1. DOMAIN s = 1 .. Len(s) /\ Len(s) \in Nat
    OBVIOUS
  <1>2. i < j \/ j < i
    BY <1>1
  <1>3. rank[s[i]] < rank[s[j]] \/ rank[s[j]] < rank[s[i]]
    BY <1>2 DEF InOrder
  <1>4. s[i] \in Nodes
    BY DEF ToSet
  <1>5. rank[s[i]] \in Nat
    BY <1>4, Ranked
  <1> QED BY <1>3, <1>5

LEMMA FirstAre ==
    ASSUME NEW rank \in Ranks, NEW L \in SUBSET Nodes, NEW A \in SUBSET L,
           NEW count \in Nat, Cardinality(A) = count,
           \A x \in A, y \in L : rank[y] < rank[x] => y \in A
    PROVE  FirstOf(rank, L, count) = A
  <1>1. /\ IsFiniteSet(A) /\ IsFiniteSet(L)
        /\ Cardinality(A) \in Nat /\ Cardinality(L) \in Nat
    BY NodesFinite
  <1>2. ASSUME NEW x \in A PROVE x \in FirstOf(rank, L, count)
    <2> DEFINE B == Before(rank, L, x)
    <2>1. B \subseteq A /\ x \notin B
      BY Ranked DEF Before
    <2> HIDE DEF B
    <2>2. /\ Cardinality(B) <= Cardinality(A) /\ Cardinality(B) # Cardinality(A)
          /\ IsFiniteSet(B)
      BY <1>1, <2>1, FS_Subset
    <2>3. Cardinality(B) \in Nat
      BY <2>2, FS_CardinalityType
    <2>4. Cardinality(B) < count
      BY <2>2, <2>3
    <2> QED BY <2>4 DEF B, FirstOf
  <1>3. /\ FirstOf(rank, L, count) \subseteq L
        /\ Cardinality(FirstOf(rank, L, count)) = Lesser(count, Cardinality(L))
    BY FirstOfCount
  <1>4. Cardinality(A) <= Cardinality(L)
    BY <1>1, FS_Subset
  <1>5. Lesser(count, Cardinality(L)) = count
    BY <1>4 DEF Lesser
  <1>6. IsFiniteSet(FirstOf(rank, L, count))
    BY <1>1, <1>3, FS_Subset
  <1>7. A \subseteq FirstOf(rank, L, count)
    BY <1>2
  <1> QED BY <1>3, <1>5, <1>6, <1>7, FS_Subset

(* The loop puts the first leaders on one pile, and the other nodes, in    *)
(* order, on the other.                                                    *)
LEMMA SortedPiles ==
    ASSUME NEW rank \in Ranks, NEW s \in Seq(Entries), ToSet(s) \subseteq Nodes,
           InOrder(rank, s)
    PROVE  LET r == Sorted(s)  C == Chosen(rank, ToSet(s))
           IN  /\ r \in Piles
               /\ ToSet(r.chosen) = C /\ Len(r.chosen) = Cardinality(C)
               /\ ToSet(r.leftovers) = ToSet(s) \ C
               /\ InOrder(rank, r.leftovers)
               /\ Len(r.chosen) + Len(r.leftovers) = Len(s)
  <1> DEFINE c == Len(s)
             all == ToSet(s)
             L == Leaders(rank, all)
  <1>1. /\ c \in Nat /\ \A i \in 1 .. c : s[i] \in all /\ s[i] \in Entries
        /\ all = {s[j] : j \in 1 .. c}
        /\ \A i, j \in 1 .. c : i < j => rank[s[i]] < rank[s[j]]
    BY DEF ToSet, InOrder
  <1>2. /\ L \subseteq all
        /\ \A m, n \in L : Rack[m] = Rack[n] => m = n
        /\ all \in SUBSET Nodes
    BY LeadersOfRacks
  <1>3. PICK g : /\ g[0] = [chosen |-> <<>>, leftovers |-> <<>>]
                 /\ \A i \in 1 .. c : /\ g[i - 1] \in Piles
                                      /\ g[i] = SortNode(s[i], g[i - 1])
                 /\ Sorted(s) = g[c] /\ g[c] \in Piles
    BY SortedLoop
  <1>4. \A n \in all : rank[n] \in Nat
    BY <1>2, Ranked
  <1>5. \A n \in L : \A m \in all : rank[m] < rank[n] => Rack[m] # Rack[n]
    BY DEF Leaders, Before
  <1>6. \A n \in all : (\A m \in all : rank[m] < rank[n] => Rack[m] # Rack[n])
                           => n \in L
    BY DEF Leaders, Before
  <1>7. N \in Nat \ {0}
    BY HashRingAssumption
  <1> HIDE DEF c, all, L
  <1> DEFINE Met(i) == {s[j] : j \in 1 .. i}
             Right(i, C, R) ==
                 /\ C \cup R = Met(i) /\ C \cap R = {} /\ C \subseteq L
                 /\ \A x \in C, y \in L : rank[y] < rank[x] => y \in C
             Full(p, C, R) ==
                 Len(p.chosen) < N =>
                     \A m \in R : \E l \in C : Rack[l] = Rack[m]
             S == {i \in 0 .. c :
                     /\ g[i] \in Piles
                     /\ Right(i, ToSet(g[i].chosen), ToSet(g[i].leftovers))
                     /\ Full(g[i], ToSet(g[i].chosen), ToSet(g[i].leftovers))
                     /\ InOrder(rank, g[i].chosen)
                     /\ InOrder(rank, g[i].leftovers)
                     /\ Len(g[i].chosen) <= N
                     /\ Len(g[i].chosen) + Len(g[i].leftovers) = i}
  <1>8. 0 \in S
    <2>1. /\ <<>> \in Seq(Entries) /\ Len(<<>>) = 0 /\ ToSet(<<>>) = {}
          /\ InOrder(rank, <<>>)
      BY NothingYet
    <2>2. g[0] \in Piles /\ g[0].chosen = <<>> /\ g[0].leftovers = <<>>
      BY <1>3, <2>1 DEF Piles
    <2>3. 0 \in 0 .. c /\ Met(0) = {}
      BY <1>1
    <2> HIDE DEF Met
    <2>4. /\ Right(0, ToSet(g[0].chosen), ToSet(g[0].leftovers))
          /\ Full(g[0], ToSet(g[0].chosen), ToSet(g[0].leftovers))
      BY <2>1, <2>2, <2>3
    <2>5. /\ Len(g[0].chosen) <= N
          /\ Len(g[0].chosen) + Len(g[0].leftovers) = 0
      BY <1>7, <2>1, <2>2
    <2> HIDE DEF Right, Full
    <2> QED BY <2>1, <2>2, <2>3, <2>4, <2>5
  <1>9. ASSUME NEW i \in 1 .. c, i - 1 \in S PROVE i \in S
    <2> DEFINE p == g[i - 1]
               n == s[i]
               past == Met(i - 1)
               C == ToSet(p.chosen)
               R == ToSet(p.leftovers)
    <2>1. /\ p \in Piles /\ Right(i - 1, C, R) /\ Full(p, C, R)
          /\ InOrder(rank, p.chosen) /\ InOrder(rank, p.leftovers)
          /\ Len(p.chosen) <= N
          /\ Len(p.chosen) + Len(p.leftovers) = i - 1
      BY <1>9
    <2>2. g[i] = SortNode(n, p) /\ i \in 0 .. c /\ n \in all /\ n \in Entries
      BY <1>1, <1>3
    <2>3. Met(i) = past \cup {n}
      <3>1. \A j : j \in 1 .. i <=> j \in 1 .. (i - 1) \/ j = i
        BY <1>1
      <3> QED BY <3>1
    <2>4. /\ past \subseteq all
          /\ \A m \in past : rank[m] < rank[n]
          /\ \A m \in all : rank[m] < rank[n] => m \in past
      <3>1. ASSUME NEW j \in 1 .. (i - 1)
            PROVE  s[j] \in all /\ rank[s[j]] < rank[n]
        BY <1>1
      <3>2. ASSUME NEW j \in 1 .. c, rank[s[j]] < rank[n]
            PROVE  j \in 1 .. (i - 1)
        <4>1. ~ (i < j) /\ i # j
          <5>1. i < j => rank[n] < rank[s[j]]
            BY <1>1
          <5>2. rank[n] \in Nat /\ rank[s[j]] \in Nat
            BY <1>1, <1>4
          <5> QED BY <3>2, <5>1, <5>2
        <4> QED BY <1>1, <4>1
      <3>3. \A m \in all : \E j \in 1 .. c : m = s[j]
        BY <1>1
      <3>4. \A m \in past : \E j \in 1 .. (i - 1) : m = s[j]
        OBVIOUS
      <3>5. \A j \in 1 .. (i - 1) : s[j] \in past
        OBVIOUS
      <3> HIDE DEF past
      <3> QED BY <3>1, <3>2, <3>3, <3>4, <3>5
    <2>5. /\ p.chosen \in Seq(Entries) /\ p.leftovers \in Seq(Entries)
          /\ Len(p.chosen) \in Nat /\ Len(p.leftovers) \in Nat
      BY <2>1 DEF Piles
    <2>6. /\ C \cup R = past /\ C \cap R = {} /\ C \subseteq L
          /\ \A x \in C, y \in L : rank[y] < rank[x] => y \in C
      BY <2>1
    <2>7. Len(p.chosen) < N => \A m \in R : \E l \in C : Rack[l] = Rack[m]
      BY <2>1
    <2> HIDE DEF p, n, past, Met
    <2>8. n \notin past
      BY <1>4, <2>2, <2>4
    <2>9. CASE Rack[n] \notin {Rack[m] : m \in C} /\ Len(p.chosen) < N
      <3>1. g[i] = [p EXCEPT !.chosen = Append(@, n)]
        BY <2>2, <2>9 DEF SortNode
      <3>2. /\ g[i] \in Piles /\ g[i].chosen = Append(p.chosen, n)
            /\ g[i].leftovers = p.leftovers
        <4>1. Append(p.chosen, n) \in Seq(Entries)
          BY <2>2, <2>5, AppendNode
        <4> QED BY <2>1, <3>1, <4>1 DEF Piles
      <3>3. /\ ToSet(g[i].chosen) = C \cup {n}
            /\ Len(g[i].chosen) = Len(p.chosen) + 1
            /\ InOrder(rank, g[i].chosen)
        <4>1. \A y \in C : rank[y] < rank[n]
          BY <2>4, <2>6
        <4> QED BY <2>1, <2>2, <2>5, <3>2, <4>1, AppendNode
      <3>4. ToSet(g[i].leftovers) = R
        BY <3>2
      <3> HIDE DEF C, R
      <3>5. n \in L
        <4>1. ASSUME NEW m \in all, rank[m] < rank[n], Rack[m] = Rack[n]
              PROVE  FALSE
          <5>1. m \in past
            BY <2>4, <4>1
          <5>2. m \notin C
            BY <2>9, <4>1
          <5>3. PICK l \in C : Rack[l] = Rack[m]
            BY <2>6, <2>7, <2>9, <5>1, <5>2
          <5> QED BY <2>9, <4>1, <5>3
        <4> QED BY <1>6, <2>2, <4>1
      <3>6. ASSUME NEW y \in L, rank[y] < rank[n] PROVE y \in C
        <4>1. y \in past
          BY <1>2, <2>4, <3>6
        <4>2. ASSUME y \in R PROVE FALSE
          <5>1. PICK l \in C : Rack[l] = Rack[y]
            BY <2>7, <2>9, <4>2
          <5>2. l = y
            BY <1>2, <2>6, <5>1
          <5> QED BY <2>6, <4>2, <5>1, <5>2
        <4> QED BY <2>6, <4>1, <4>2
      <3>7. Right(i, C \cup {n}, R)
        <4>1. (C \cup {n}) \cup R = Met(i) /\ (C \cup {n}) \cap R = {}
          BY <2>3, <2>6, <2>8
        <4>2. C \cup {n} \subseteq L
          BY <2>6, <3>5
        <4>3. \A x \in C \cup {n}, y \in L : rank[y] < rank[x] => y \in C \cup {n}
          BY <2>6, <3>6
        <4> QED BY <4>1, <4>2, <4>3
      <3>8. Full(g[i], C \cup {n}, R)
        BY <2>7, <2>9
      <3> HIDE DEF Right, Full
      <3>9. /\ Len(g[i].chosen) <= N
            /\ Len(g[i].chosen) + Len(g[i].leftovers) = i
        <4> DEFINE x == Len(p.chosen)
                   y == Len(p.leftovers)
        <4>1. /\ x \in Nat /\ y \in Nat /\ x + y = i - 1
              /\ x < N
          BY <2>1, <2>5, <2>9
        <4>2. i \in Nat
          BY <1>1
        <4>3. Len(g[i].chosen) = x + 1 /\ Len(g[i].leftovers) = y
          BY <3>2, <3>3
        <4> HIDE DEF x, y
        <4> QED BY <1>7, <4>1, <4>2, <4>3
      <3> QED BY <2>1, <2>2, <3>2, <3>3, <3>4, <3>7, <3>8, <3>9
    <2>10. CASE ~ (Rack[n] \notin {Rack[m] : m \in C} /\ Len(p.chosen) < N)
      <3>1. g[i] = [p EXCEPT !.leftovers = Append(@, n)]
        BY <2>2, <2>10 DEF SortNode
      <3>2. /\ g[i] \in Piles /\ g[i].leftovers = Append(p.leftovers, n)
            /\ g[i].chosen = p.chosen
        <4>1. Append(p.leftovers, n) \in Seq(Entries)
          BY <2>2, <2>5, AppendNode
        <4> QED BY <2>1, <3>1, <4>1 DEF Piles
      <3>3. /\ ToSet(g[i].leftovers) = R \cup {n}
            /\ Len(g[i].leftovers) = Len(p.leftovers) + 1
            /\ InOrder(rank, g[i].leftovers)
        <4>1. \A y \in R : rank[y] < rank[n]
          BY <2>4, <2>6
        <4> QED BY <2>1, <2>2, <2>5, <3>2, <4>1, AppendNode
      <3>4. ToSet(g[i].chosen) = C
        BY <3>2
      <3> HIDE DEF C, R
      <3>5. Right(i, C, R \cup {n})
        BY <2>3, <2>6, <2>8
      <3>6. Full(g[i], C, R \cup {n})
        BY <2>7, <2>10, <3>2
      <3> HIDE DEF Right, Full
      <3>7. /\ Len(g[i].chosen) <= N
            /\ Len(g[i].chosen) + Len(g[i].leftovers) = i
        <4> DEFINE x == Len(p.chosen)
                   y == Len(p.leftovers)
        <4>1. /\ x \in Nat /\ y \in Nat /\ x + y = i - 1
              /\ x <= N
          BY <2>1, <2>5
        <4>2. i \in Nat
          BY <1>1
        <4>3. Len(g[i].chosen) = x /\ Len(g[i].leftovers) = y + 1
          BY <3>2, <3>3
        <4> HIDE DEF x, y
        <4> QED BY <1>7, <4>1, <4>2, <4>3
      <3> QED BY <2>1, <2>2, <3>2, <3>3, <3>4, <3>5, <3>6, <3>7
    <2> QED BY <2>9, <2>10
  <1> HIDE DEF S
  <1>10. \A i \in 0 .. c : i \in S
    BY <1>1, <1>8, <1>9, StepByStep
  <1>11. c \in S
    BY <1>1, <1>10
  <1> DEFINE r == g[c]
             C == ToSet(r.chosen)
             R == ToSet(r.leftovers)
  <1>12. /\ r \in Piles /\ Right(c, C, R) /\ Full(r, C, R)
         /\ InOrder(rank, r.chosen) /\ InOrder(rank, r.leftovers)
         /\ Len(r.chosen) <= N
         /\ Len(r.chosen) + Len(r.leftovers) = c
    BY <1>11 DEF S
  <1>13. Met(c) = all
    BY <1>1
  <1> HIDE DEF Met
  <1>14. /\ C \cup R = all /\ C \cap R = {} /\ C \subseteq L
         /\ \A x \in C, y \in L : rank[y] < rank[x] => y \in C
         /\ Len(r.chosen) < N => \A m \in R : \E l \in C : Rack[l] = Rack[m]
    BY <1>12, <1>13
  <1>15. r.chosen \in Seq(Entries) /\ Len(r.chosen) \in Nat
    BY <1>12 DEF Piles
  <1>16. Cardinality(C) = Len(r.chosen)
    <2>1. C \subseteq Nodes
      BY <1>2, <1>14
    <2>2. NoRepeats(r.chosen)
      BY <1>12, <1>15, <2>1, InOrderOnce
    <2> QED BY <1>15, <2>2, NoRepeatsCount
  <1> HIDE DEF r, C, R
  <1>17. L \in SUBSET Nodes
    BY <1>2
  <1>18. C = Chosen(rank, all)
    <2>1. CASE Len(r.chosen) = N
      <3>1. FirstOf(rank, L, N) = C
        BY <1>7, <1>14, <1>16, <1>17, <2>1, FirstAre
      <3> QED BY <3>1 DEF Chosen, L
    <2>2. CASE Len(r.chosen) < N
      <3>1. ASSUME NEW y \in L PROVE y \in C
        <4> SUFFICES ASSUME y \in R PROVE FALSE
          BY <1>2, <1>14
        <4>1. PICK l \in C : Rack[l] = Rack[y]
          BY <1>14, <2>2
        <4>2. l = y
          BY <1>2, <1>14, <4>1
        <4> QED BY <1>14, <4>1, <4>2
      <3>2. C = L
        BY <1>14, <3>1
      <3>3. Cardinality(L) <= N
        BY <1>12, <1>16, <3>2
      <3>4. Cardinality(Leaders(rank, all)) <= N
        BY <3>3 DEF L
      <3>5. Chosen(rank, all) = L
        BY <1>2, <3>4, ChosenLeaders DEF L
      <3> QED BY <3>2, <3>5
    <2>3. Len(r.chosen) = N \/ Len(r.chosen) < N
      BY <1>7, <1>12, <1>15
    <2> QED BY <2>1, <2>2, <2>3
  <1>19. R = all \ C
    BY <1>14
  <1> QED
    BY <1>3, <1>12, <1>16, <1>18, <1>19 DEF r, C, R, all, c

LEMMA JoinedSets ==
    ASSUME NEW a \in Seq(Entries), NEW b \in Seq(Entries)
    PROVE  ToSet(a \o b) = ToSet(a) \cup ToSet(b)
  <1> DEFINE m == Len(a)
             n == Len(b)
             r == a \o b
  <1>1. /\ m \in Nat /\ n \in Nat
        /\ DOMAIN a = 1 .. m /\ DOMAIN b = 1 .. n /\ DOMAIN r = 1 .. (m + n)
        /\ \A i \in 1 .. m : r[i] = a[i]
        /\ \A i \in 1 .. n : r[m + i] = b[i]
    OBVIOUS
  <1> HIDE DEF m, n, r
  <1>2. /\ ToSet(a) = {a[i] : i \in 1 .. m} /\ ToSet(b) = {b[i] : i \in 1 .. n}
        /\ ToSet(r) = {r[i] : i \in 1 .. (m + n)}
    BY <1>1 DEF ToSet
  <1>3. ASSUME NEW i \in 1 .. (m + n)
        PROVE  r[i] \in ToSet(a) \cup ToSet(b)
    <2>1. CASE i <= m
      <3>1. i \in 1 .. m
        BY <1>1, <2>1
      <3> QED BY <1>1, <1>2, <3>1
    <2>2. CASE i > m
      <3>1. i - m \in 1 .. n /\ m + (i - m) = i
        BY <1>1, <2>2
      <3> QED BY <1>1, <1>2, <3>1
    <2> QED BY <1>1, <2>1, <2>2
  <1>4. ASSUME NEW i \in 1 .. m PROVE a[i] \in ToSet(r)
    <2>1. i \in 1 .. (m + n)
      BY <1>1
    <2> QED BY <1>1, <1>2, <2>1
  <1>5. ASSUME NEW i \in 1 .. n PROVE b[i] \in ToSet(r)
    <2>1. m + i \in 1 .. (m + n)
      BY <1>1
    <2> QED BY <1>1, <1>2, <2>1
  <1> QED BY <1>2, <1>3, <1>4, <1>5 DEF r

(* Filling the slots left over.                                            *)
LEMMA FilledIsPlaced ==
    ASSUME NEW rank \in Ranks, NEW s \in Seq(Entries), ToSet(s) \subseteq Nodes,
           InOrder(rank, s), Len(s) > N
    PROVE  ToSet(Filled(Sorted(s))) = Placed(rank, ToSet(s))
  <1> DEFINE r == Sorted(s)
             all == ToSet(s)
             C == Chosen(rank, all)
             slots == N - Cardinality(C)
             q == SubSeq(r.leftovers, 1, slots)
             A == ToSet(q)
             R == all \ C
  <1>1. /\ r \in Piles
        /\ ToSet(r.chosen) = C /\ Len(r.chosen) = Cardinality(C)
        /\ ToSet(r.leftovers) = R /\ InOrder(rank, r.leftovers)
        /\ Len(r.chosen) + Len(r.leftovers) = Len(s)
    BY SortedPiles
  <1>2. /\ r.chosen \in Seq(Entries) /\ r.leftovers \in Seq(Entries)
        /\ Len(r.leftovers) \in Nat /\ Len(s) \in Nat
    BY <1>1 DEF Piles
  <1>3. all \in SUBSET Nodes /\ Cardinality(C) \in Nat /\ Cardinality(C) <= N
    BY ChosenLeaders
  <1>4. slots \in Nat /\ slots < Len(r.leftovers)
    BY <1>1, <1>2, <1>3, HashRingAssumption
  <1>5. Filled(r) = r.chosen \o q
    BY <1>1 DEF Filled
  <1>6. Placed(rank, all) = C \cup FirstOf(rank, R, slots)
    BY PlacedDef
  <1> HIDE DEF r, C, slots, all
  <1>7. /\ q \in Seq(Entries) /\ Len(q) = slots
        /\ \A i \in 1 .. slots : q[i] = r.leftovers[i]
    BY <1>2, <1>4
  <1>8. ToSet(r.chosen \o q) = ToSet(r.chosen) \cup A
    BY <1>2, <1>7, JoinedSets
  <1> HIDE DEF q
  <1> DEFINE w == r.leftovers
             k == Len(w)
  <1>9. /\ k \in Nat /\ \A i \in 1 .. k : w[i] \in R
        /\ R = {w[i] : i \in 1 .. k}
        /\ \A i, j \in 1 .. k : i < j => rank[w[i]] < rank[w[j]]
    <2>1. DOMAIN w = 1 .. k /\ k \in Nat
      BY <1>2
    <2> QED BY <1>1, <2>1 DEF ToSet, InOrder
  <1>10. A = {w[i] : i \in 1 .. slots}
    <2>1. DOMAIN q = 1 .. slots
      BY <1>4, <1>7
    <2> QED BY <1>7, <2>1 DEF ToSet
  <1>11. R \in SUBSET Nodes /\ \A n \in R : rank[n] \in Nat
    BY <1>3, Ranked
  <1>12. slots < k
    BY <1>4
  <1>13. A \in SUBSET R
    <2>1. \A i \in 1 .. slots : i \in 1 .. k
      BY <1>4, <1>9, <1>12
    <2> QED BY <1>9, <1>10, <2>1
  <1> HIDE DEF w, k, R, A
  <1>14. Cardinality(A) = slots
    <2>1. InOrder(rank, q)
      <3>1. DOMAIN q = 1 .. slots
        BY <1>4, <1>7
      <3>2. ASSUME NEW i \in 1 .. slots, NEW j \in 1 .. slots, i < j
            PROVE  rank[q[i]] < rank[q[j]]
        <4>1. i \in 1 .. k /\ j \in 1 .. k
          BY <1>4, <1>9, <1>12
        <4>2. q[i] = w[i] /\ q[j] = w[j]
          BY <1>7 DEF w
        <4> QED BY <1>9, <3>2, <4>1, <4>2
      <3> QED BY <3>1, <3>2 DEF InOrder
    <2>2. ToSet(q) \subseteq Nodes
      BY <1>11, <1>13 DEF A
    <2>3. NoRepeats(q)
      BY <1>7, <2>1, <2>2, InOrderOnce
    <2> QED BY <1>7, <2>3, NoRepeatsCount DEF A
  <1>15. ASSUME NEW x \in A, NEW y \in R, rank[y] < rank[x] PROVE y \in A
    <2>1. PICK i \in 1 .. slots : x = w[i]
      BY <1>10
    <2>2. PICK j \in 1 .. k : y = w[j]
      BY <1>9
    <2>3. i \in 1 .. k
      BY <1>4, <1>9, <1>12
    <2>4. ~ (i < j) /\ (i # j)
      <3>1. rank[x] \in Nat /\ rank[y] \in Nat
        BY <1>11, <1>13
      <3>2. i < j => rank[x] < rank[y]
        BY <1>9, <2>1, <2>2, <2>3
      <3> QED BY <1>15, <2>1, <2>2, <3>1, <3>2
    <2>5. j \in 1 .. slots
      BY <1>4, <1>9, <2>4
    <2> QED BY <1>10, <2>2, <2>5
  <1>16. FirstOf(rank, R, slots) = A
    BY <1>4, <1>11, <1>13, <1>14, <1>15, FirstAre
  <1> QED BY <1>1, <1>5, <1>6, <1>8, <1>16 DEF r, all, A

(* The loops of a lookup compute what Placed says.                         *)
LEMMA ComputesPlaced ==
    ASSUME RingInv, Distinct, NEW h \in Tokens, NEW excluded \in SUBSET members
    PROVE  /\ RankFrom(h) \in Ranks /\ members \ excluded \in SUBSET Nodes
           /\ ToSet(ComputePlacement(h, excluded)) =
                  Placed(RankFrom(h), members \ excluded)
  <1> DEFINE s == GetNodes(h, Cardinality(members), excluded)
             rank == RankFrom(h)
             S == members \ excluded
  <1>1. /\ s \in Seq(Entries) /\ ToSet(s) = S /\ InOrder(rank, s)
    BY LookupComplete
  <1>2. rank \in Ranks
    BY DistanceRanks DEF RingInv, RingTypeOK
  <1>3. S \in SUBSET Nodes
    BY DEF RingInv, RingTypeOK
  <1>4. ComputePlacement(h, excluded) =
            IF Len(s) <= N THEN s ELSE Filled(Sorted(s))
    BY DEF ComputePlacement
  <1> HIDE DEF s, rank, S
  <1>5. Cardinality(S) = Len(s)
    BY <1>1, <1>2, <1>3, InOrderOnce, NoRepeatsCount
  <1>6. CASE Len(s) <= N
    <2>1. /\ Placed(rank, S) \subseteq S
          /\ Cardinality(Placed(rank, S)) = Lesser(N, Cardinality(S))
      BY <1>2, <1>3, PlacedCount
    <2>2. IsFiniteSet(S) /\ Cardinality(S) \in Nat
      BY <1>3, NodesFinite
    <2>3. Lesser(N, Cardinality(S)) = Cardinality(S)
      BY <1>5, <1>6, <2>2, HashRingAssumption DEF Lesser
    <2>4. Placed(rank, S) = S
      BY <2>1, <2>2, <2>3, FS_Subset
    <2> QED BY <1>1, <1>2, <1>3, <1>4, <1>6, <2>4 DEF rank, S
  <1>7. CASE ~ (Len(s) <= N)
    <2>1. Len(s) > N
      BY <1>1, <1>7, HashRingAssumption
    <2>2. ToSet(Filled(Sorted(s))) = Placed(rank, ToSet(s))
      BY <1>1, <1>2, <1>3, <2>1, FilledIsPlaced
    <2> QED BY <1>1, <1>2, <1>3, <1>4, <1>7, <2>2 DEF rank, S
  <1> QED BY <1>6, <1>7

(* If no tokens collide, the loops compute what Placed says, which is what *)
(* the other modules take for placement.                                   *)
THEOREM PlacementMatches == RingSpec => []PlacementAsDefined
  <1>1. RingInv => PlacementAsDefined
    BY ComputesPlaced DEF PlacementAsDefined, RankFrom
  <1> QED BY <1>1, RingInvariance, PTL

(* There are N replicas on N racks, or as many as the eligible nodes allow.*)
THEOREM Spread == RingSpec => []RacksSpread
  <1>1. RingInv => RacksSpread
    <2> SUFFICES ASSUME RingInv, Distinct, NEW h \in Tokens,
                        NEW excluded \in SUBSET members
                 PROVE  LET eligible == members \ excluded
                            placed   == ToSet(ComputePlacement(h, excluded))
                        IN  /\ Cardinality(placed) = Min({N, Cardinality(eligible)})
                            /\ Cardinality(Racks(placed)) =
                                   Min({N, Cardinality(Racks(eligible))})
      BY DEF RacksSpread, Racks
    <2> DEFINE S == members \ excluded
               rank == RankFrom(h)
    <2>1. /\ rank \in Ranks /\ S \in SUBSET Nodes
          /\ ToSet(ComputePlacement(h, excluded)) = Placed(rank, S)
      BY ComputesPlaced
    <2> HIDE DEF S, rank
    <2>2. /\ Cardinality(Placed(rank, S)) = Lesser(N, Cardinality(S))
          /\ Cardinality(Racks(Placed(rank, S))) = Lesser(N, Cardinality(Racks(S)))
      BY <2>1, PlacedCount, PlacedOnRacks
    <2>3. /\ Cardinality(S) \in Nat /\ Cardinality(Racks(S)) \in Nat
      BY <2>1, NodesFinite, RacksCounted
    <2>4. /\ Lesser(N, Cardinality(S)) = Min({N, Cardinality(S)})
          /\ Lesser(N, Cardinality(Racks(S))) = Min({N, Cardinality(Racks(S))})
      BY <2>3, MinOfTwo, HashRingAssumption
    <2> QED BY <2>1, <2>2, <2>4 DEF S
  <1> QED BY <1>1, RingInvariance, PTL

(* A node that leaves the eligible ones displaces no other.                *)
THEOREM Redistribution == RingSpec => []MinimalRedistribution
  <1>1. RingInv => MinimalRedistribution
    <2> SUFFICES ASSUME RingInv, Distinct, NEW h \in Tokens,
                        NEW excluded \in SUBSET members,
                        NEW n \in members \ excluded
                 PROVE  ToSet(ComputePlacement(h, excluded)) \ {n} \subseteq
                            ToSet(ComputePlacement(h, excluded \cup {n}))
      BY DEF MinimalRedistribution
    <2> DEFINE S == members \ excluded
               rank == RankFrom(h)
    <2>1. /\ rank \in Ranks /\ S \in SUBSET Nodes /\ n \in S
          /\ ToSet(ComputePlacement(h, excluded)) = Placed(rank, S)
      BY ComputesPlaced
    <2>2. excluded \cup {n} \in SUBSET members
      OBVIOUS
    <2>3. members \ (excluded \cup {n}) = S \ {n}
      OBVIOUS
    <2>4. ToSet(ComputePlacement(h, excluded \cup {n})) =
              Placed(rank, members \ (excluded \cup {n}))
      BY <2>2, ComputesPlaced
    <2> HIDE DEF S, rank
    <2>5. Placed(rank, S) \ {n} \subseteq Placed(rank, S \ {n})
      BY <2>1, PlacementStable
    <2> QED BY <2>1, <2>3, <2>4, <2>5
  <1> QED BY <1>1, RingInvariance, PTL
=============================================================================
