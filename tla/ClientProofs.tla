---------------------------- MODULE ClientProofs ----------------------------
(***************************************************************************)
(* Proofs about Client, for every number of callers, objects and uploads,  *)
(* and for every listing beside them.                                      *)
(***************************************************************************)
EXTENDS Client, FiniteSetTheorems, FunctionTheorems, SequenceTheorems, TLAPS

-----------------------------------------------------------------------------
(* The inductive invariant behind NoLostUpdate.                            *)

(* A put of a shared object that is under way is conditional on the one    *)
(* state of the object that it is an update of.                            *)
AskedOnWhatItUpdates ==
    \A v \in Versions :
        status[v] = "asked" /\ KeyOf[v] \in Shared =>
            \/ wants[v].ifNoneMatch /\ Count[v] = 1
            \/ /\ wants[v].ifMatch # NoEtag
               /\ Count[v] = wants[v].ifMatch + 1

CountsFromCreation ==
    \A k \in Keys : IF current[k] = NoVersion THEN updates[k] = 0
                                             ELSE KeyOf[current[k]] = k

UpdatesInv ==
    /\ UpdatesTypeOK
    /\ AskedOnWhatItUpdates
    /\ CountsFromCreation
    /\ NoLostUpdate

-----------------------------------------------------------------------------
(* The inductive invariant behind the properties of a listing: up to its   *)
(* marker it has what it must have, and nothing beyond.                    *)
CompleteToMarker ==
    page.pc = "listing" =>
        /\ \A i \in DOMAIN page.listed : page.listed[i] <= page.marker
        /\ \A k \in steady \cap Matching : k <= page.marker => Recorded(k)

ListingInv ==
    /\ page \in Page
    /\ steady \subseteq Existing
    /\ page.pc = "idle" => page.listed = <<>> /\ page.marker = 0
    /\ CompleteToMarker
    /\ ListedInOrder
    /\ ListingComplete

-----------------------------------------------------------------------------
LEMMA HeadersTyped ==
    ASSUME NEW base \in Versioned
    PROVE  Headers(base) \in Store!Cond
  BY DEF Headers, Versioned, Store!Cond, Store!Contents

LEMMA NoConditionTyped == NoCondition \in Store!Cond
  BY DEF NoCondition, Store!Cond

LEMMA InitUpdates == ClientInit => UpdatesInv
  <1> SUFFICES ASSUME ClientInit PROVE UpdatesInv OBVIOUS
  <1>1. UpdatesTypeOK
    BY DEF ClientInit, Store!Init, UpdatesTypeOK, Versioned, Store!Cond
  <1>2. AskedOnWhatItUpdates
    BY DEF ClientInit, Store!Init, AskedOnWhatItUpdates
  <1>3. CountsFromCreation /\ NoLostUpdate
    BY DEF ClientInit, Store!Init, CountsFromCreation, NoLostUpdate, Existing
  <1> QED BY <1>1, <1>2, <1>3 DEF UpdatesInv

(* A request with any condition is no request for a shared object, or one  *)
(* on the state that it updates.                                           *)
LEMMA AskStep ==
    ASSUME UpdatesInv, NEW v \in Versions, NEW cond \in Store!Cond,
           Store!Ask(v, cond) \/ Store!RefuseAtOnce(v, cond),
           KeyOf[v] \in Shared =>
               \/ cond.ifNoneMatch /\ Count[v] = 1
               \/ cond.ifMatch # NoEtag /\ Count[v] = cond.ifMatch + 1,
           holds' \in [Callers -> {{}} \cup {{held} : held \in Held}],
           UNCHANGED updates
    PROVE  UpdatesInv'
  <1> USE DEF UpdatesInv, UpdatesTypeOK
  <1>1. UNCHANGED current
    BY DEF Store!Ask, Store!RefuseAtOnce
  <1>2. UpdatesTypeOK'
    BY <1>1 DEF Store!Ask, Store!RefuseAtOnce
  <1>3. AskedOnWhatItUpdates'
    BY DEF Store!Ask, Store!RefuseAtOnce, AskedOnWhatItUpdates
  <1>4. CountsFromCreation' /\ NoLostUpdate'
    BY <1>1 DEF CountsFromCreation, NoLostUpdate, Existing
  <1> QED BY <1>2, <1>3, <1>4

LEMMA CallerUpdates ==
    ASSUME UpdatesInv, NEW c \in Callers, CallerStep(c)
    PROVE  UpdatesInv'
  <1> USE DEF UpdatesInv, UpdatesTypeOK
  <1>1. ASSUME NEW k \in Keys, CallerGet(c, k) PROVE UpdatesInv'
    <2>1. [key |-> k, base |-> current[k]] \in Held
      BY DEF Held
    <2>2. UpdatesTypeOK'
      BY <1>1, <2>1 DEF CallerGet, regVars
    <2>3. AskedOnWhatItUpdates' /\ CountsFromCreation' /\ NoLostUpdate'
      BY <1>1
      DEF CallerGet, regVars, AskedOnWhatItUpdates, CountsFromCreation,
          NoLostUpdate, Existing
    <2> QED BY <2>2, <2>3
  <1>2. ASSUME NEW v \in Versions, CallerPut(c, v) PROVE UpdatesInv'
    <2>1. PICK held \in holds[c] :
              /\ IsUpdateOf(v, held)
              /\ \/ Store!Ask(v, Headers(held.base))
                 \/ Store!RefuseAtOnce(v, Headers(held.base))
      BY <1>2 DEF CallerPut
    <2>2. held.base \in Versioned
      BY <2>1 DEF Held
    <2> DEFINE cond == Headers(held.base)
    <2>3. CASE held.base = NoVersion
      <3>1. cond.ifNoneMatch /\ Count[v] = 1
        BY <2>1, <2>3 DEF Headers, IsUpdateOf
      <3> QED
        BY <1>2, <2>1, <2>2, <3>1, AskStep, HeadersTyped DEF CallerPut
    <2>4. CASE held.base # NoVersion
      <3>1. Count[held.base] \in Nat
        BY <2>2, <2>4, ClientAssumption DEF Versioned
      <3>2. cond.ifMatch # NoEtag /\ Count[v] = cond.ifMatch + 1
        BY <2>1, <2>4, <3>1, ClientAssumption DEF Headers, IsUpdateOf
      <3> QED
        BY <1>2, <2>1, <2>2, <3>2, AskStep, HeadersTyped DEF CallerPut
    <2> QED BY <2>3, <2>4
  <1> QED BY <1>1, <1>2 DEF CallerStep

(* An upload is installed on the state it is an update of.                 *)
LEMMA InstallUpdates ==
    ASSUME UpdatesInv, NEW v \in Versions, StoreInstall(v)
    PROVE  UpdatesInv'
  <1> USE DEF UpdatesInv, UpdatesTypeOK
  <1> DEFINE k == KeyOf[v]
  <1>1. k \in Keys /\ v # NoVersion
    BY ClientAssumption
  <1>2. /\ status[v] = "asked" /\ Store!Allowed(v)
        /\ status' = [status EXCEPT ![v] = "installed"]
        /\ current' = [current EXCEPT ![k] = v]
        /\ updates' = [updates EXCEPT ![k] = @ + 1]
        /\ UNCHANGED <<wants, holds>>
    BY DEF StoreInstall, Store!Install
  <1>3. UpdatesTypeOK'
    BY <1>1, <1>2 DEF Versioned
  <1>4. AskedOnWhatItUpdates'
    BY <1>2 DEF AskedOnWhatItUpdates
  <1>5. CountsFromCreation'
    BY <1>1, <1>2 DEF CountsFromCreation
  <1>6. ASSUME k \in Shared PROVE Count[v] = updates[k] + 1
    <2>1. CASE wants[v].ifNoneMatch /\ Count[v] = 1
      <3>1. updates[k] = 0
        BY <1>1, <1>2, <2>1 DEF Store!Allowed, CountsFromCreation
      <3> QED BY <2>1, <3>1
    <2>2. CASE wants[v].ifMatch # NoEtag /\ Count[v] = wants[v].ifMatch + 1
      <3>1. current[k] # NoVersion /\ Count[current[k]] = wants[v].ifMatch
        BY <1>2, <2>2 DEF Store!Allowed
      <3>2. Count[current[k]] = updates[k]
        BY <1>1, <1>6, <3>1 DEF NoLostUpdate, Existing
      <3> QED BY <2>2, <3>1, <3>2
    <2> QED BY <1>2, <1>6, <2>1, <2>2 DEF AskedOnWhatItUpdates
  <1>7. NoLostUpdate'
    BY <1>1, <1>2, <1>6 DEF NoLostUpdate, Existing
  <1> QED BY <1>3, <1>4, <1>5, <1>7

LEMMA DeleteUpdates ==
    ASSUME UpdatesInv, NEW v \in Versions, Delete(v)
    PROVE  UpdatesInv'
  <1> USE DEF UpdatesInv, UpdatesTypeOK
  <1>1. KeyOf[v] \in Keys
    BY ClientAssumption
  <1>2. /\ status' = [status EXCEPT ![v] = "removed"]
        /\ current' = [current EXCEPT ![KeyOf[v]] = NoVersion]
        /\ updates' = [updates EXCEPT ![KeyOf[v]] = 0]
        /\ UNCHANGED <<wants, holds>>
    BY DEF Delete, Store!Remove
  <1>3. UpdatesTypeOK'
    BY <1>2 DEF Versioned
  <1>4. AskedOnWhatItUpdates'
    BY <1>2 DEF AskedOnWhatItUpdates
  <1>5. CountsFromCreation' /\ NoLostUpdate'
    BY <1>1, <1>2 DEF CountsFromCreation, NoLostUpdate, Existing
  <1> QED BY <1>3, <1>4, <1>5

LEMMA StoreUpdates ==
    ASSUME UpdatesInv, NEW v \in Versions, StoreStep(v)
    PROVE  UpdatesInv'
  <1>1. CASE Upload(v)
    BY <1>1, AskStep, NoConditionTyped DEF Upload, UpdatesInv, UpdatesTypeOK
  <1>2. CASE StoreRefuse(v)
    BY <1>2
    DEF StoreRefuse, Store!Refuse, UpdatesInv, UpdatesTypeOK,
        AskedOnWhatItUpdates, CountsFromCreation, NoLostUpdate, Existing
  <1> QED BY <1>1, <1>2, InstallUpdates, DeleteUpdates DEF StoreStep

LEMMA UpdatesStep == UpdatesInv /\ [ClientNext]_clientVars => UpdatesInv'
  <1> SUFFICES ASSUME UpdatesInv, [ClientNext]_clientVars PROVE UpdatesInv'
    OBVIOUS
  <1>1. CASE UNCHANGED <<regVars, holds, updates>>
    BY <1>1
    DEF regVars, UpdatesInv, UpdatesTypeOK, AskedOnWhatItUpdates,
        CountsFromCreation, NoLostUpdate, Existing
  <1> QED
    BY <1>1, CallerUpdates, StoreUpdates
    DEF ClientNext, ListStart, ListPage, clientVars

(* No update of a shared object is lost, whatever callers do meanwhile,    *)
(* give up or never hear of.                                               *)
THEOREM UpdatesKept == ClientSpec => []NoLostUpdate
  <1>1. UpdatesInv => NoLostUpdate
    BY DEF UpdatesInv
  <1> QED BY <1>1, InitUpdates, UpdatesStep, PTL DEF ClientSpec

-----------------------------------------------------------------------------
(* The order of a page.  A number of a finite set is ranked by how many of *)
(* the set are up to it, and the ranks are all of 1 .. Cardinality(S).     *)
LEMMA Ranks ==
    ASSUME NEW S \in SUBSET Nat, IsFiniteSet(S)
    PROVE  LET rank == [x \in S |-> Cardinality({y \in S : y <= x})]
           IN  /\ rank \in Bijection(S, 1 .. Cardinality(S))
               /\ \A x, y \in S : x < y => rank[x] < rank[y]
  <1> DEFINE upTo(x) == {y \in S : y <= x}
             rank == [x \in S |-> Cardinality(upTo(x))]
             n == Cardinality(S)
  <1>1. n \in Nat
    BY FS_CardinalityType
  <1>2. ASSUME NEW x \in S
        PROVE  /\ IsFiniteSet(upTo(x)) /\ Cardinality(upTo(x)) \in Nat
               /\ Cardinality(upTo(x)) <= n /\ Cardinality(upTo(x)) # 0
    <2>1. IsFiniteSet(upTo(x)) /\ Cardinality(upTo(x)) <= n
      BY FS_Subset, upTo(x) \in SUBSET S
    <2>2. Cardinality(upTo(x)) \in Nat
      BY <2>1, FS_CardinalityType
    <2>3. x \in upTo(x)
      OBVIOUS
    <2>4. Cardinality(upTo(x)) # 0
      BY <2>1, <2>3, FS_EmptySet
    <2> QED BY <2>1, <2>2, <2>4
  <1>3. ASSUME NEW x \in S, NEW y \in S, x < y
        PROVE  Cardinality(upTo(x)) < Cardinality(upTo(y))
    <2>1. upTo(x) \in SUBSET upTo(y)
      <3> SUFFICES ASSUME NEW z \in S, z <= x PROVE z <= y
        OBVIOUS
      <3>1. x \in Nat /\ y \in Nat /\ z \in Nat
        OBVIOUS
      <3> QED BY <1>3, <3>1
    <2>2. y \in upTo(y) /\ y \notin upTo(x)
      BY <1>3
    <2>3. /\ Cardinality(upTo(x)) <= Cardinality(upTo(y))
          /\ Cardinality(upTo(y)) # Cardinality(upTo(x))
      BY <1>2, <2>1, <2>2, FS_Subset
    <2> QED BY <1>2, <2>3
  <1>4. rank \in [S -> 1 .. n]
    BY <1>1, <1>2
  <1>5. ASSUME NEW x \in S, NEW y \in S, rank[x] = rank[y] PROVE x = y
    <2>1. /\ ~ (Cardinality(upTo(x)) < Cardinality(upTo(y)))
          /\ ~ (Cardinality(upTo(y)) < Cardinality(upTo(x)))
      BY <1>2, <1>5
    <2>2. ~ (x < y) /\ ~ (y < x)
      BY <1>3, <2>1
    <2> QED BY <2>2
  <1>6. rank \in Injection(S, 1 .. n)
    BY <1>4, <1>5, Fun_IsInj
  <1>7. IsFiniteSet(1 .. n) /\ Cardinality(1 .. n) = n
    BY <1>1, FS_Interval
  <1>8. rank \in Surjection(S, 1 .. n)
    BY <1>6, <1>7, FS_Injection
  <1> QED BY <1>3, <1>6, <1>8 DEF Bijection

(* ORDER BY sorts the set, and leaves none of it out.                      *)
LEMMA AscendingSorts ==
    ASSUME NEW S \in SUBSET Nat, IsFiniteSet(S)
    PROVE  LET seq == Ascending(S)  n == Cardinality(S)
           IN  /\ n \in Nat
               /\ seq \in [1 .. n -> S]
               /\ \A i, j \in 1 .. n : i < j => seq[i] < seq[j]
               /\ \A x \in S : \E i \in 1 .. n : seq[i] = x
  <1> DEFINE rank == [x \in S |-> Cardinality({y \in S : y <= x})]
             n == Cardinality(S)
             seq == Ascending(S)
             inv == Inverse(rank, S, 1 .. n)
             Sorted(s) == \A i, j \in 1 .. n : i < j => s[i] < s[j]
  <1>1. n \in Nat
    BY FS_CardinalityType
  <1>2. /\ rank \in Bijection(S, 1 .. n)
        /\ \A x, y \in S : x < y => rank[x] < rank[y]
    BY Ranks
  <1>3. rank \in [S -> 1 .. n]
    BY <1>2, Fun_BijectionProperties
  <1> HIDE DEF rank
  <1>4. inv \in Bijection(1 .. n, S) /\ \A x \in S : inv[rank[x]] = x
    BY <1>2, Fun_BijInverse
  <1>5. /\ inv \in [1 .. n -> S]
        /\ \A x \in S : \E i \in 1 .. n : inv[i] = x
    BY <1>4 DEF Bijection, Injection, Surjection
  <1>6. \A i \in 1 .. n : rank[inv[i]] = i
    <2> SUFFICES ASSUME NEW i \in 1 .. n PROVE rank[inv[i]] = i OBVIOUS
    <2>1. PICK x \in S : rank[x] = i
      BY <1>2 DEF Bijection, Surjection
    <2> QED BY <1>4, <2>1
  <1>7. Sorted(inv)
    <2> HIDE DEF inv, n
    <2> SUFFICES ASSUME NEW i \in 1 .. n, NEW j \in 1 .. n, i < j
                 PROVE  inv[i] < inv[j]
      OBVIOUS
    <2>1. inv[i] \in S /\ inv[j] \in S /\ rank[inv[i]] = i /\ rank[inv[j]] = j
      BY <1>5, <1>6
    <2>2. inv[i] \in Nat /\ inv[j] \in Nat
      BY <2>1
    <2>3. i \in Nat /\ j \in Nat
      BY <1>1
    <2>4. inv[j] < inv[i] => rank[inv[j]] < rank[inv[i]]
      BY <1>2, <2>1
    <2>5. inv[i] # inv[j] /\ ~ (inv[j] < inv[i])
      BY <2>1, <2>3, <2>4
    <2> QED BY <2>2, <2>5
  <1>8. seq \in [1 .. n -> S] /\ Sorted(seq)
    BY <1>5, <1>7 DEF Ascending
  <1> HIDE DEF seq, inv
  <1>9. ASSUME NEW i \in 1 .. n, NEW j \in 1 .. n, seq[i] = seq[j]
        PROVE  i = j
    <2>1. seq[i] \in Nat /\ seq[j] \in Nat
      BY <1>8
    <2>2. ~ (seq[i] < seq[j]) /\ ~ (seq[j] < seq[i])
      BY <1>9, <2>1
    <2>3. ~ (i < j) /\ ~ (j < i)
      BY <1>8, <2>2
    <2> QED BY <1>1, <2>3
  <1>10. seq \in Injection(1 .. n, S)
    BY <1>8, <1>9, Fun_IsInj
  <1>11. Cardinality(1 .. n) = n
    BY <1>1, FS_Interval
  <1>12. seq \in Surjection(1 .. n, S)
    BY <1>10, <1>11, FS_Injection
  <1>13. \A x \in S : \E i \in 1 .. n : seq[i] = x
    BY <1>12 DEF Surjection
  <1> QED BY <1>1, <1>8, <1>13 DEF seq

LEMMA Extremes ==
    ASSUME NEW S \in SUBSET Nat, IsFiniteSet(S), S # {}
    PROVE  /\ \E low \in S : \A x \in S : low <= x
           /\ Max(S) \in S /\ \A x \in S : x <= Max(S)
  <1> DEFINE n == Cardinality(S)  seq == Ascending(S)
  <1>1. /\ n \in Nat
        /\ seq \in [1 .. n -> S]
        /\ \A i, j \in 1 .. n : i < j => seq[i] < seq[j]
        /\ \A x \in S : \E i \in 1 .. n : seq[i] = x
    BY AscendingSorts
  <1>2. n # 0
    BY FS_EmptySet
  <1> HIDE DEF n, seq
  <1>3. ASSUME NEW x \in S PROVE seq[1] <= x /\ x <= seq[n]
    <2>1. PICK i \in 1 .. n : seq[i] = x
      BY <1>1
    <2>2. 1 \in 1 .. n /\ n \in 1 .. n
      BY <1>1, <1>2
    <2>3. seq[1] \in Nat /\ seq[n] \in Nat /\ x \in Nat
      BY <1>1, <2>2
    <2>4. seq[1] <= x
      <3>1. CASE i = 1
        BY <2>1, <2>3, <3>1
      <3>2. CASE 1 < i
        BY <1>1, <2>1, <2>2, <2>3, <3>2
      <3> QED BY <1>1, <3>1, <3>2
    <2>5. x <= seq[n]
      <3>1. CASE i = n
        BY <2>1, <2>3, <3>1
      <3>2. CASE i < n
        BY <1>1, <2>1, <2>2, <2>3, <3>2
      <3> QED BY <1>1, <3>1, <3>2
    <2> QED BY <2>4, <2>5
  <1>4. seq[1] \in S /\ seq[n] \in S
    BY <1>1, <1>2
  <1>5. \A x \in S : seq[n] >= x
    BY <1>3, <1>4
  <1>6. Max(S) \in S /\ \A x \in S : Max(S) >= x
    BY <1>4, <1>5 DEF Max
  <1> QED BY <1>3, <1>4, <1>6

(* What LIMIT takes: all if they are no more, and else the first of them.  *)
LEMMA FirstOfTakes ==
    ASSUME NEW S \in SUBSET Nat, IsFiniteSet(S), NEW n \in Nat \ {0}
    PROVE  LET rows == FirstOf(S, n)
           IN  /\ rows \subseteq S /\ IsFiniteSet(rows)
               /\ Cardinality(S) <= n => rows = S
               /\ S # {} => rows # {}
               /\ \A k \in rows, j \in S : j < k => j \in rows
  <1> DEFINE rows == FirstOf(S, n)
             below(k) == {j \in S : j < k}
  <1>1. rows = {k \in S : Cardinality(below(k)) < n}
    BY DEF FirstOf
  <1>2. rows \subseteq S /\ IsFiniteSet(rows)
    BY <1>1, FS_Subset
  <1>3. ASSUME NEW k \in S
        PROVE  /\ IsFiniteSet(below(k)) /\ Cardinality(below(k)) \in Nat
               /\ Cardinality(below(k)) < Cardinality(S)
    <2>1. below(k) \in SUBSET S /\ k \notin below(k)
      OBVIOUS
    <2>2. /\ IsFiniteSet(below(k)) /\ Cardinality(below(k)) <= Cardinality(S)
          /\ Cardinality(S) # Cardinality(below(k))
      BY <2>1, FS_Subset
    <2>3. Cardinality(below(k)) \in Nat /\ Cardinality(S) \in Nat
      BY <2>2, FS_CardinalityType
    <2> QED BY <2>2, <2>3
  <1>4. Cardinality(S) \in Nat
    BY FS_CardinalityType
  <1>5. Cardinality(S) <= n => rows = S
    <2> SUFFICES ASSUME Cardinality(S) <= n, NEW k \in S
                 PROVE  Cardinality(below(k)) < n
      BY <1>1
    <2> QED BY <1>3, <1>4
  <1>6. ASSUME S # {} PROVE rows # {}
    <2>1. PICK low \in S : \A x \in S : low <= x
      BY <1>6, Extremes
    <2>2. \A x \in S : ~ (x < low)
      <3> SUFFICES ASSUME NEW x \in S PROVE ~ (x < low)
        OBVIOUS
      <3>1. x \in Nat /\ low \in Nat /\ low <= x
        BY <2>1
      <3> QED BY <3>1
    <2>3. Cardinality(below(low)) = 0
      BY <2>2, FS_EmptySet, below(low) = {}
    <2> QED BY <1>1, <2>1, <2>3
  <1>7. ASSUME NEW k \in rows, NEW j \in S, j < k PROVE j \in rows
    <2>1. k \in S /\ Cardinality(below(k)) < n
      BY <1>1
    <2>2. below(j) \in SUBSET below(k)
      <3> SUFFICES ASSUME NEW z \in S, z < j PROVE z < k
        OBVIOUS
      <3>1. j \in Nat /\ k \in Nat /\ z \in Nat
        BY <2>1
      <3> QED BY <1>7, <3>1
    <2>3. Cardinality(below(j)) <= Cardinality(below(k))
      BY <1>3, <2>1, <2>2, FS_Subset
    <2>4. Cardinality(below(j)) < n
      BY <1>3, <2>1, <2>3
    <2> QED BY <1>1, <2>4
  <1> QED BY <1>2, <1>5, <1>6, <1>7

-----------------------------------------------------------------------------
(* The listing.                                                            *)
LEMMA InitListing == ClientInit => ListingInv
  <1> SUFFICES ASSUME ClientInit PROVE ListingInv OBVIOUS
  <1>1. page \in Page
    BY EmptySeq DEF ClientInit, Page
  <1>2. DOMAIN page.listed = {}
    BY DEF ClientInit
  <1> QED
    BY <1>1, <1>2
    DEF ClientInit, ListingInv, CompleteToMarker, ListedInOrder, ListingComplete

(* Whatever is done to the objects, keys leave steady as they cease to     *)
(* exist, and the listing is not disturbed.                                *)
LEMMA ListingBeside ==
    ASSUME ListingInv, UNCHANGED page, steady' \subseteq steady,
           steady' \subseteq Existing'
    PROVE  ListingInv'
  BY DEF ListingInv, CompleteToMarker, ListedInOrder, ListingComplete, Recorded

LEMMA StoreListing ==
    ASSUME UpdatesInv, ListingInv, NEW v \in Versions, StoreStep(v)
    PROVE  ListingInv'
  <1> USE DEF UpdatesInv, UpdatesTypeOK
  <1>1. v # NoVersion /\ KeyOf[v] \in Keys
    BY ClientAssumption
  <1>2. steady \subseteq Existing
    BY DEF ListingInv
  <1>3. UNCHANGED page
    BY DEF StoreStep, Upload, StoreInstall, StoreRefuse, Delete, pageVars
  <1>4. CASE Upload(v) \/ StoreRefuse(v)
    <2>1. UNCHANGED <<current, steady>>
      BY <1>4
      DEF Upload, StoreRefuse, pageVars, Store!Ask, Store!RefuseAtOnce,
          Store!Refuse
    <2> QED BY <1>2, <1>3, <2>1, ListingBeside DEF Existing
  <1>5. CASE StoreInstall(v)
    <2>1. current' = [current EXCEPT ![KeyOf[v]] = v] /\ UNCHANGED steady
      BY <1>5 DEF StoreInstall, Store!Install
    <2> QED BY <1>1, <1>2, <1>3, <2>1, ListingBeside DEF Existing
  <1>6. CASE Delete(v)
    <2>1. /\ current' = [current EXCEPT ![KeyOf[v]] = NoVersion]
          /\ steady' = steady \ {KeyOf[v]}
      BY <1>6 DEF Delete, Store!Remove
    <2> QED BY <1>1, <1>2, <1>3, <2>1, ListingBeside DEF Existing
  <1> QED BY <1>4, <1>5, <1>6 DEF StoreStep

LEMMA CallerListing ==
    ASSUME ListingInv, NEW c \in Callers, CallerStep(c)
    PROVE  ListingInv'
  <1>1. UNCHANGED <<current, pageVars>>
    BY DEF CallerStep, CallerGet, CallerPut, Store!Ask, Store!RefuseAtOnce,
           regVars
  <1> QED
    BY <1>1, ListingBeside DEF ListingInv, Existing, pageVars

LEMMA StartListing ==
    ASSUME ListingInv, ListStart
    PROVE  ListingInv'
  <1>1. /\ page.pc = "idle" /\ page.listed = <<>> /\ page.marker = 0
        /\ page' = [page EXCEPT !.pc = "listing"]
        /\ steady' = Existing /\ UNCHANGED current
    BY DEF ListingInv, ListStart, regVars
  <1>2. page \in Page
    BY DEF ListingInv
  <1>3. /\ page' \in Page /\ page'.pc = "listing"
        /\ page'.listed = <<>> /\ page'.marker = 0
    BY <1>1, <1>2 DEF Page
  <1>4. steady' \subseteq Existing' /\ Existing' \subseteq Keys
    BY <1>1 DEF Existing
  <1>5. \A k \in steady' : ~ (k <= page'.marker)
    BY <1>3, <1>4, ClientAssumption
  <1> QED
    BY <1>3, <1>4, <1>5
    DEF ListingInv, CompleteToMarker, ListedInOrder, ListingComplete

(* A page is listed beyond its marker, in order and with nothing left out  *)
(* up to the next marker, or to the end.                                   *)
LEMMA PageListing ==
    ASSUME ListingInv, ListPage
    PROVE  ListingInv'
  <1> DEFINE sel     == Selected(page.marker)
             rows    == FirstOf(sel, Limit)
             more    == Cardinality(sel) > Limit
             objects == {k \in rows : FolderOf[k] = NoFolder}
             seq     == Ascending(objects)
             n       == Cardinality(objects)
             old     == page.listed
  <1>1. /\ page.pc = "listing"
        /\ page' = [pc |-> IF more THEN "listing" ELSE "done",
                    marker |-> IF more THEN Max(rows) ELSE 0,
                    listed |-> old \o seq,
                    folders |-> page.folders
                                  \cup {FolderOf[k] : k \in rows \ objects}]
        /\ UNCHANGED <<current, steady>>
    BY DEF ListPage, NextMarker, regVars
  <1>2. /\ page.marker \in Nat /\ old \in Seq(Keys)
        /\ page.folders \subseteq {FolderOf[k] : k \in Keys}
        /\ page \in Page /\ Keys \in SUBSET Nat
    <2>1. page \in Page
      BY DEF ListingInv
    <2>2. Keys \in SUBSET Nat
      BY ClientAssumption
    <2>3. old \in Seq(Keys)
      BY <2>1 DEF Page
    <2>4. page.folders \subseteq {FolderOf[k] : k \in Keys}
      BY <2>1 DEF Page
    <2>5. page.marker \in Nat
      <3>1. page.marker \in Keys \/ page.marker = 0
        BY <2>1 DEF Page
      <3>2. \A k \in Keys : k \in Nat
        BY ClientAssumption
      <3> QED BY <3>1, <3>2
    <2> QED BY Zenon, <2>1, <2>2, <2>3, <2>4, <2>5
  <1>3. sel \in SUBSET Nat /\ sel \subseteq Keys /\ IsFiniteSet(sel)
    BY ClientAssumption, FS_Subset DEF Selected, Existing
  <1>4. /\ rows \subseteq sel /\ IsFiniteSet(rows)
        /\ Cardinality(sel) <= Limit => rows = sel
        /\ sel # {} => rows # {}
        /\ \A k \in rows, j \in sel : j < k => j \in rows
    BY <1>3, ClientAssumption, FirstOfTakes
  <1>5. \A k \in sel : k > page.marker
    BY DEF Selected
  <1>6. objects \in SUBSET Nat /\ IsFiniteSet(objects) /\ objects \subseteq rows
    BY <1>3, <1>4, FS_Subset
  <1>7. /\ n \in Nat
        /\ seq \in [1 .. n -> objects]
        /\ \A i, j \in 1 .. n : i < j => seq[i] < seq[j]
        /\ \A x \in objects : \E i \in 1 .. n : seq[i] = x
    BY <1>6, AscendingSorts
  <1>8. ASSUME more
        PROVE  /\ Max(rows) \in rows /\ \A k \in rows : k <= Max(rows)
    <2>1. Cardinality(sel) # 0 /\ sel # {}
      BY <1>3, <1>8, ClientAssumption, FS_EmptySet
    <2> QED BY <1>3, <1>4, <2>1, Extremes
  <1>9. ~ more => rows = sel
    BY <1>3, <1>4, ClientAssumption, FS_CardinalityType
  <1> HIDE DEF sel, rows, more, objects, seq, n
  <1>10. seq \in Seq(Keys) /\ Len(seq) = n
    <2>1. seq \in [1 .. n -> Keys]
      BY <1>3, <1>4, <1>6, <1>7
    <2> QED BY <1>7, <2>1
  <1>11. /\ old \o seq \in Seq(Keys)
         /\ Len(old) \in Nat
         /\ DOMAIN old = 1 .. Len(old)
         /\ DOMAIN (old \o seq) = 1 .. Len(old) + n
         /\ \A i \in 1 .. Len(old) + n :
                (old \o seq)[i] = IF i <= Len(old) THEN old[i]
                                                   ELSE seq[i - Len(old)]
    <2>1. Len(old) \in Nat /\ DOMAIN old = 1 .. Len(old)
      BY <1>2
    <2>2. /\ old \o seq \in Seq(Keys)
          /\ Len(old \o seq) = Len(old) + n
          /\ \A i \in 1 .. Len(old) + n :
                (old \o seq)[i] = IF i <= Len(old) THEN old[i]
                                                   ELSE seq[i - Len(old)]
      BY <1>2, <1>10, ConcatProperties
    <2>3. DOMAIN (old \o seq) = 1 .. Len(old \o seq)
      BY <2>2
    <2> QED BY <2>1, <2>2, <2>3
  <1>12. page' \in Page
    <2>1. page'.marker \in Keys \cup {0}
      BY <1>1, <1>3, <1>4, <1>8
    <2>2. page'.folders \subseteq {FolderOf[k] : k \in Keys}
      BY <1>1, <1>2, <1>3, <1>4
    <2> QED BY <1>1, <1>11, <2>1, <2>2 DEF Page
  <1>13. \A i \in 1 .. Len(old) : old[i] \in Nat /\ old[i] <= page.marker
    <2>1. \A i \in 1 .. Len(old) : old[i] <= page.marker
      BY <1>1, <1>11 DEF ListingInv, CompleteToMarker
    <2>2. \A i \in 1 .. Len(old) : old[i] \in Keys
      BY <1>2, ElementOfSeq
    <2> QED BY <1>2, <2>1, <2>2
  <1>14. \A i \in 1 .. n :
             seq[i] \in rows /\ seq[i] \in Nat /\ seq[i] > page.marker
    BY <1>3, <1>4, <1>5, <1>6, <1>7
  <1>15. ListedInOrder'
    <2> SUFFICES ASSUME NEW i \in 1 .. Len(old) + n,
                        NEW j \in 1 .. Len(old) + n, i < j
                 PROVE  (old \o seq)[i] < (old \o seq)[j]
      BY <1>1, <1>11 DEF ListedInOrder
    <2>1. CASE j <= Len(old)
      <3>1. i \in 1 .. Len(old) /\ j \in 1 .. Len(old)
        BY <1>7, <1>11, <2>1
      <3>2. old[i] < old[j]
        BY <1>11, <3>1 DEF ListingInv, ListedInOrder
      <3> QED BY <1>11, <3>1, <3>2
    <2>2. CASE i <= Len(old) /\ ~ (j <= Len(old))
      <3>1. i \in 1 .. Len(old) /\ j - Len(old) \in 1 .. n
        BY <1>7, <1>11, <2>2
      <3>2. old[i] < seq[j - Len(old)]
        BY <1>2, <1>13, <1>14, <3>1
      <3> QED BY <1>11, <2>2, <3>2
    <2>3. CASE ~ (i <= Len(old))
      <3>1. /\ i - Len(old) \in 1 .. n /\ j - Len(old) \in 1 .. n
            /\ i - Len(old) < j - Len(old) /\ ~ (j <= Len(old))
        BY <1>7, <1>11, <2>3
      <3>2. seq[i - Len(old)] < seq[j - Len(old)]
        BY <1>7, <3>1
      <3> QED BY <1>11, <2>3, <3>1, <3>2
    <2> QED BY <2>1, <2>2, <2>3
  <1>16. ASSUME NEW k \in Keys, Recorded(k) \/ k \in rows
         PROVE  Recorded(k)'
    <2>1. CASE FolderOf[k] # NoFolder
      BY <1>1, <1>16, <2>1 DEF Recorded, objects
    <2>2. CASE FolderOf[k] = NoFolder /\ k \in rows
      <3>1. PICK i \in 1 .. n : seq[i] = k
        BY <1>7, <2>2 DEF objects
      <3>2. /\ Len(old) + i \in 1 .. Len(old) + n
            /\ ~ (Len(old) + i <= Len(old)) /\ (Len(old) + i) - Len(old) = i
        BY <1>7, <1>11
      <3>3. (old \o seq)[Len(old) + i] = k
        BY <1>11, <3>1, <3>2
      <3> QED BY <1>1, <1>11, <2>2, <3>2, <3>3 DEF Recorded, ToSet
    <2>3. CASE FolderOf[k] = NoFolder /\ Recorded(k)
      <3>1. PICK i \in 1 .. Len(old) : old[i] = k
        BY <1>11, <2>3 DEF Recorded, ToSet
      <3>2. i \in 1 .. Len(old) + n /\ i <= Len(old)
        BY <1>7, <1>11
      <3>3. (old \o seq)[i] = k
        BY <1>11, <3>1, <3>2
      <3> QED BY <1>1, <1>11, <2>3, <3>2, <3>3 DEF Recorded, ToSet
    <2> QED BY <1>16, <2>1, <2>2, <2>3
  <1>17. steady \subseteq Existing /\ Existing \subseteq Keys
    BY DEF ListingInv, Existing
  <1>18. ASSUME NEW k \in steady \cap Matching
         PROVE  Recorded(k) \/ k \in sel
    <2>1. CASE k <= page.marker
      BY <1>1, <2>1 DEF ListingInv, CompleteToMarker
    <2>2. CASE k > page.marker
      BY <1>17, <2>2 DEF sel, Selected
    <2> QED BY <1>2, <1>17, <2>1, <2>2
  <1>19. CompleteToMarker'
    <2> SUFFICES ASSUME more
                 PROVE  /\ \A i \in DOMAIN page'.listed :
                               page'.listed[i] <= page'.marker
                        /\ \A k \in steady \cap Matching :
                               k <= page'.marker => Recorded(k)'
      BY <1>1 DEF CompleteToMarker
    <2>1. page'.marker = Max(rows) /\ page'.listed = old \o seq
      BY <1>1
    <2>2. Max(rows) \in rows /\ Max(rows) \in Nat /\ Max(rows) > page.marker
      BY <1>3, <1>4, <1>5, <1>8
    <2>3. ASSUME NEW i \in 1 .. Len(old) + n
          PROVE  (old \o seq)[i] <= Max(rows)
      <3>1. CASE i <= Len(old)
        <4>1. i \in 1 .. Len(old)
          BY <1>7, <1>11, <3>1
        <4>2. old[i] <= Max(rows)
          BY <1>2, <1>13, <2>2, <4>1
        <4> QED BY <1>11, <3>1, <4>2
      <3>2. CASE ~ (i <= Len(old))
        <4>1. i - Len(old) \in 1 .. n
          BY <1>7, <1>11, <3>2
        <4>2. seq[i - Len(old)] <= Max(rows)
          BY <1>8, <1>14, <4>1
        <4> QED BY <1>11, <3>2, <4>2
      <3> QED BY <3>1, <3>2
    <2>4. ASSUME NEW k \in steady \cap Matching, k <= Max(rows)
          PROVE  Recorded(k)'
      <3>1. k \in Keys /\ k \in Nat
        BY <1>2, <1>17
      <3>2. k \in sel => k \in rows
        BY <1>4, <2>2, <2>4, <3>1
      <3> QED BY <1>16, <1>18, <3>1, <3>2
    <2> QED BY <1>11, <2>1, <2>3, <2>4
  <1>20. ListingComplete'
    <2> SUFFICES ASSUME ~ more, NEW k \in steady \cap Matching
                 PROVE  Recorded(k)'
      BY <1>1 DEF ListingComplete
    <2> QED BY <1>9, <1>16, <1>17, <1>18
  <1> QED
    BY <1>1, <1>12, <1>15, <1>17, <1>19, <1>20 DEF ListingInv, Existing

LEMMA ListingStep ==
    UpdatesInv /\ ListingInv /\ [ClientNext]_clientVars => ListingInv'
  <1> SUFFICES ASSUME UpdatesInv, ListingInv, [ClientNext]_clientVars
               PROVE  ListingInv'
    OBVIOUS
  <1>1. CASE UNCHANGED clientVars
    BY <1>1, ListingBeside
    DEF clientVars, pageVars, regVars, ListingInv, Existing
  <1> QED
    BY <1>1, CallerListing, StoreListing, StartListing, PageListing
    DEF ClientNext

(* Both inductive invariants hold; the listing needs nothing of the first  *)
(* but types.                                                              *)
THEOREM ListingInvariance == ClientSpec => [](UpdatesInv /\ ListingInv)
  BY InitUpdates, UpdatesStep, InitListing, ListingStep, PTL DEF ClientSpec

(* Every variable keeps its type.                                          *)
THEOREM ClientTyping == ClientSpec => []ClientTypeOK
  <1>1. UpdatesInv /\ ListingInv => ClientTypeOK
    BY DEF UpdatesInv, ListingInv, ClientTypeOK, Existing
  <1> QED BY <1>1, ListingInvariance, PTL

(* The pages of list_objects are in the order of the keys and list no      *)
(* object twice, for every page size, prefix and delimiter.                *)
THEOREM ListingOrdered == ClientSpec => []ListedInOrder
  <1>1. ListingInv => ListedInOrder
    BY DEF ListingInv
  <1> QED BY <1>1, ListingInvariance, PTL

(* A listing that has ended has all that matches and was there throughout. *)
THEOREM NothingUnlisted == ClientSpec => []ListingComplete
  <1>1. ListingInv => ListingComplete
    BY DEF ListingInv
  <1> QED BY <1>1, ListingInvariance, PTL
=============================================================================
