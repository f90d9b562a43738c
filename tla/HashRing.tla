------------------------------ MODULE HashRing ------------------------------
(***************************************************************************)
(* ConsistentHashRing (vault/hashing.py), as the cluster manager changes   *)
(* it and as QuorumPolicy.compute_placement (vault/policy.py) reads it.    *)
(*                                                                         *)
(* The hash is any function: it is drawn at the start, and virtual nodes   *)
(* may collide.  A key is only ever its token.  A lookup runs between two  *)
(* awaits and changes nothing, so it is an operator and not an action.     *)
(***************************************************************************)
EXTENDS RackPlacement, SequencesExt

CONSTANTS
    Nodes,    \* storage nodes that are ever registered
    Weight,   \* Weight[n]: the weight in n's configuration
    VNodes,   \* virtual nodes for each unit of weight
    Space,    \* tokens are 0 .. Space - 1
    MaxRing,  \* bound: tokens in the ring, copies of one token counted
    NoNode    \* no entry in token_to_node

ASSUME HashRingAssumption ==
    /\ IsFiniteSet(Nodes) /\ NoNode \notin Nodes
    /\ Weight \in [Nodes -> Nat] /\ DOMAIN Rack = Nodes
    /\ VNodes \in Nat \ {0} /\ Space \in Nat \ {0} /\ N \in Nat \ {0}
    /\ MaxRing \in Nat

Tokens == 0 .. (Space - 1)

(* num_vnodes: a weight of 0 counts as 1.                                  *)
Count(n) == VNodes * (IF Weight[n] = 0 THEN 1 ELSE Weight[n])

VirtualNodes == UNION {{n} \X (1 .. Count(n)) : n \in Nodes}

VARIABLES
    hash,     \* hash[<<n, i>>]: the token of the i-th virtual node of n
    members,  \* nodes
    ring,     \* ring: the sorted tokens
    owner,    \* token_to_node
    stumbled  \* a removal has raised KeyError

ringVars == <<hash, members, ring, owner, stumbled>>

RingTypeOK ==
    /\ hash \in [VirtualNodes -> Tokens]
    /\ members \subseteq Nodes
    /\ ring \in Seq(Tokens)
    /\ \A i, j \in DOMAIN ring : i <= j => ring[i] <= ring[j]
    /\ owner \in [Tokens -> Nodes \cup {NoNode}]
    /\ stumbled \in BOOLEAN

RingInit ==
    /\ hash \in [VirtualNodes -> Tokens]
    /\ members = {}
    /\ ring = <<>>
    /\ owner = [t \in Tokens |-> NoNode]
    /\ stumbled = FALSE

TokensOf(n) == {hash[<<n, i>>] : i \in 1 .. Count(n)}

-----------------------------------------------------------------------------
(* bisect.bisect_right: how many of the sorted tokens are up to t.         *)
Bisect(tokens, t) == Cardinality({i \in DOMAIN tokens : tokens[i] <= t})

(* Mutant: the token is put in front.                                      *)
InsertFirst(tokens, t) == <<t>> \o tokens

(* bisect.insort.                                                          *)
Insert(tokens, t) ==
    LET place == Bisect(tokens, t)
    IN  SubSeq(tokens, 1, place) \o <<t>>
            \o SubSeq(tokens, place + 1, Len(tokens))

(* The loop of add_node.                                                   *)
RingWith(n) ==
    LET inserted[i \in 0 .. Count(n)] ==
            IF i = 0 THEN ring ELSE Insert(inserted[i - 1], hash[<<n, i>>])
    IN  inserted[Count(n)]

OwnerWith(n) == [t \in Tokens |-> IF t \in TokensOf(n) THEN n ELSE owner[t]]

(* register_node and add_node: a token that is in the ring already is put  *)
(* there once more, and changes hands.                                     *)
Register(n) ==
    /\ n \notin members
    /\ Len(ring) + Count(n) <= MaxRing
    /\ members' = members \cup {n}
    /\ ring' = RingWith(n)
    /\ owner' = OwnerWith(n)
    /\ UNCHANGED <<hash, stumbled>>

(* Mutant: the token stays in the ring.                                    *)
KeepToken(n, s, t) ==
    [s EXCEPT !.owner = IF s.owner[t] = n THEN [@ EXCEPT ![t] = NoNode] ELSE @,
              !.kept = Append(@, t)]

(* What remove_node does about one token of the ring: it raises when the   *)
(* token has no entry, which may just have been deleted for a copy of it.  *)
RemoveToken(n, s, t) ==
    IF s.raised \/ s.owner[t] = NoNode
    THEN [s EXCEPT !.raised = TRUE]
    ELSE IF s.owner[t] = n
    THEN [s EXCEPT !.owner = [@ EXCEPT ![t] = NoNode]]
    ELSE [s EXCEPT !.kept = Append(@, t)]

(* The loop of remove_node; kept is its new_ring.                          *)
Removal(n) ==
    LET done[i \in 0 .. Len(ring)] ==
            IF i = 0 THEN [owner |-> owner, kept |-> <<>>, raised |-> FALSE]
            ELSE RemoveToken(n, done[i - 1], ring[i])
    IN  done[Len(ring)]

(* deregister_node and remove_node.  When the loop raises, the node is no  *)
(* member any more, and the ring has not been replaced.                    *)
Deregister(n) ==
    /\ n \in members
    /\ members' = members \ {n}
    /\ owner' = Removal(n).owner
    /\ ring' = IF Removal(n).raised THEN ring ELSE Removal(n).kept
    /\ stumbled' = (stumbled \/ Removal(n).raised)
    /\ UNCHANGED hash

RingNext == \E n \in Nodes : Register(n) \/ Deregister(n)

RingSpec == RingInit /\ [][RingNext]_ringVars

-----------------------------------------------------------------------------
(* The ring's tokens from the first one above h on, and around.            *)
Clockwise(h) ==
    [i \in 1 .. Len(ring) |-> ring[((Bisect(ring, h) + i - 1) % Len(ring)) + 1]]

(* Mutant: the eligible nodes are counted off, and no ring is walked.      *)
GetNodesModulo(h, count, excluded) ==
    LET nodes == SetToSeq(members \ excluded)
    IN  [i \in 1 .. Min({count, Len(nodes)}) |->
           nodes[((h + i) % Len(nodes)) + 1]]

(* What get_nodes does about the node of one token.  NoNode as the last of *)
(* the nodes is the KeyError for a token that has no entry.                *)
Take(node, nodes, count, excluded) ==
    IF \/ nodes # <<>> /\ (Len(nodes) >= count \/ Last(nodes) = NoNode)
       \/ node \in excluded \cup ToSet(nodes)
    THEN nodes
    ELSE Append(nodes, node)

(* get_nodes for a key with token h.                                       *)
GetNodes(h, count, excluded) ==
    LET selected[step \in 0 .. Len(ring)] ==
            IF step = 0 THEN <<>>
            ELSE Take(owner[Clockwise(h)[step]], selected[step - 1],
                      count, excluded)
    IN  selected[Len(ring)]

(* Mutant: the racks that have been seen are forgotten.                    *)
SortNodeAnyway(n, s) ==
    IF Len(s.chosen) < N
    THEN [s EXCEPT !.chosen = Append(@, n)]
    ELSE [s EXCEPT !.leftovers = Append(@, n)]

(* What compute_placement does about one candidate.                        *)
SortNode(n, s) ==
    IF Rack[n] \notin {Rack[m] : m \in ToSet(s.chosen)} /\ Len(s.chosen) < N
    THEN [s EXCEPT !.chosen = Append(@, n)]
    ELSE [s EXCEPT !.leftovers = Append(@, n)]

(* The loop of compute_placement over the candidates.                      *)
Sorted(candidates) ==
    LET sorted[i \in 0 .. Len(candidates)] ==
            IF i = 0 THEN [chosen |-> <<>>, leftovers |-> <<>>]
            ELSE SortNode(candidates[i], sorted[i - 1])
    IN  sorted[Len(candidates)]

(* Mutant: the slots left over are filled from the far end.                *)
FilledFromTheEnd(s) ==
    s.chosen \o SubSeq(Reverse(s.leftovers), 1, N - Len(s.chosen))

Filled(s) == s.chosen \o SubSeq(s.leftovers, 1, N - Len(s.chosen))

ComputePlacement(h, excluded) ==
    LET candidates == GetNodes(h, Cardinality(members), excluded)
    IN  IF Len(candidates) <= N THEN candidates ELSE Filled(Sorted(candidates))

-----------------------------------------------------------------------------
Distinct == \A v, w \in VirtualNodes : hash[v] = hash[w] => v = w

(* Until a removal raises, every token of the ring is a member's.          *)
EntriesAreMembers ==
    ~ stumbled => \A t \in ToSet(ring) : owner[t] \in members

(* If no tokens collide, no removal raises, and the ring has the tokens of *)
(* the members, each of them once.                                         *)
RingIsOfMembers ==
    Distinct =>
        /\ ~ stumbled
        /\ \A i, j \in DOMAIN ring : i < j => ring[i] < ring[j]
        /\ \A t \in ToSet(ring) : t \in TokensOf(owner[t])
        /\ \A n \in members :
               \A t \in TokensOf(n) : owner[t] = n /\ t \in ToSet(ring)

(* The inductive invariant behind all that is said about lookups.          *)
RingInv == RingTypeOK /\ EntriesAreMembers /\ RingIsOfMembers

(* How far clockwise of h the first token of n is.                         *)
Distance(h, n) == Min({(t + Space - h - 1) % Space : t \in TokensOf(n)})

(* Until a removal raises, whatever tokens collide and whatever nodes come *)
(* and go, a lookup raises nothing and names members, none of them twice   *)
(* and none that is excluded.                                              *)
LookupsNameMembers ==
    ~ stumbled =>
        \A h \in Tokens, count \in 1 .. Cardinality(Nodes),
           excluded \in SUBSET members :
            LET found == GetNodes(h, count, excluded)
            IN  /\ ToSet(found) \subseteq members \ excluded
                /\ Cardinality(ToSet(found)) = Len(found)
                /\ Len(found) <= count

(* If no tokens collide, the loops over the ring compute what the other    *)
(* modules take for placement: the first nodes of the racks by their       *)
(* distance from the key, then the nodes passed over.                      *)
PlacementAsDefined ==
    Distinct =>
        \A h \in Tokens, excluded \in SUBSET members :
            ToSet(ComputePlacement(h, excluded)) =
                Placed([n \in Nodes |-> Distance(h, n)], members \ excluded)

(* "Places replicas across distinct failure domains (racks/zones) where    *)
(* possible": there are N replicas and N racks among them, or as many as   *)
(* the eligible nodes allow.                                               *)
RacksSpread ==
    Distinct =>
        \A h \in Tokens, excluded \in SUBSET members :
            LET eligible == members \ excluded
                placed   == ToSet(ComputePlacement(h, excluded))
                Racks(S) == {Rack[n] : n \in S}
            IN  /\ Cardinality(placed) = Min({N, Cardinality(eligible)})
                /\ Cardinality(Racks(placed)) =
                       Min({N, Cardinality(Racks(eligible))})

(* "Minimal redistribution": a node that leaves the eligible ones, for its *)
(* health or from the ring, displaces no other node from the replicas of   *)
(* any key, though racks and the slots left over are assigned anew.  Read  *)
(* the other way, one that joins takes over from others and shuffles none. *)
MinimalRedistribution ==
    Distinct =>
        \A h \in Tokens, excluded \in SUBSET members :
            \A n \in members \ excluded :
                ToSet(ComputePlacement(h, excluded)) \ {n} \subseteq
                    ToSet(ComputePlacement(h, excluded \cup {n}))
=============================================================================
