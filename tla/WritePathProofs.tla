-------------------------- MODULE WritePathProofs --------------------------
(***************************************************************************)
(* Proofs about WritePath, for every set of nodes, versions and faults and *)
(* every W and N, and at the end about what Replication adds to it: the    *)
(* copies between nodes, on which the proofs about reads, scrubs and       *)
(* rebalances rest.                                                        *)
(***************************************************************************)
EXTENDS Replication, FiniteSetTheorems, TLAPS

-----------------------------------------------------------------------------
(* Where the blobs of a put are to be found, as long as every call is      *)
(* answered and the engine stays up: under way to a node that the upload   *)
(* waits for, counted by it, or on the way out.                            *)
Tracked(v, n) ==
    /\ PutCall(v, n) \in wire => put[v].pc = "uploading" /\ n \in put[v].left
    /\ HasFile(disk, n, v) =>
           /\ put[v].pc # "idle"
           /\ put[v].pc = "uploading" => n \in put[v].acks
           /\ put[v].pc \in {"quorum", "precondition"} =>
                  n \in cleanup[v] \/ DeleteCall(v, n) \in wire

UploadsTracked == \A v \in Versions, n \in Nodes : Tracked(v, n)

(* No upload is on its way to a replica that a decided row lists, as long  *)
(* as the engine hears every answer or no metadata update fails.           *)
UploadsOver ==
    \A v \in Versions, n \in Nodes :
        PutCall(v, n) \in wire =>
            /\ put[v].pc # "idle" /\ n \notin put[v].acks
            /\ put[v].pc = "uploading" =>
                   n \in put[v].left \/ "timeout" \in Faults
            /\ objects[v].state \in {"COMMITTED", "DELETED"} =>
                   n \notin objects[v].replicas

(* The inductive invariant behind CopiesVerified: a sidecar names the      *)
(* uploaded content, whatever has become of the blob, and a copy carries   *)
(* what it names.                                                          *)
Digested ==
    /\ \A n \in Nodes, v \in Versions :
           HasFile(disk, n, v) => disk[n][v].sum = ContentOf[v]
    /\ \A copy \in copies : copy.sum = ContentOf[copy.ver]

(* The put of v was decided in its favour: v is readable, or was.          *)
Decided(v) == objects[v].state \in {"COMMITTED", "DELETED"}

CopiesOfDecided == \A call \in requests \cup copies : Decided(call.ver)

(* A task that neither times out nor restarts outlasts the calls it makes. *)
Prompt == "timeout" \notin Faults /\ MaxCrashes = 0

NoCopies == requests = {} /\ copies = {}

-----------------------------------------------------------------------------
(* What the operators of the components return.                            *)

LEMMA CandidatesAreEligible ==
    ASSUME NEW k, NEW eligible
    PROVE  Candidates(k, eligible) \subseteq eligible
  BY DEF Candidates, Placed, Leaders, FirstOf

LEMMA TargetsAreNodes ==
    ASSUME NEW v, NEW ring \in SUBSET Nodes, NEW healthy
    PROVE  PutTargets(v, ring, healthy) \subseteq Nodes
  BY CandidatesAreEligible DEF PutTargets

LEMMA CatalogTypes ==
    ASSUME NEW tab \in [Versions -> Row], NEW v \in Versions,
           NEW nodes \in SUBSET Nodes
    PROVE  /\ PrepareObject(tab, v, nodes) \in [Versions -> Row]
           /\ CommitObject(tab, v) \in [Versions -> Row]
           /\ AbortObject(tab, v) \in [Versions -> Row]
           /\ TombstoneObject(tab, v) \in [Versions -> Row]
           /\ UpdateObjectReplicas(tab, v, nodes) \in [Versions -> Row]
  <1>1. PrepareObject(tab, v, nodes) \in [Versions -> Row]
    BY DEF PrepareObject, Row, RowStates
  <1>2. CommitObject(tab, v) \in [Versions -> Row]
    BY DEF CommitObject, Row, RowStates
  <1>3. AbortObject(tab, v) \in [Versions -> Row]
    BY DEF AbortObject, NoRow, Row, RowStates
  <1>4. TombstoneObject(tab, v) \in [Versions -> Row]
    BY DEF TombstoneObject, Row, RowStates
  <1>5. UpdateObjectReplicas(tab, v, nodes) \in [Versions -> Row]
    BY DEF UpdateObjectReplicas, Row
  <1> QED BY <1>1, <1>2, <1>3, <1>4, <1>5

LEMMA DiskTypes ==
    ASSUME NEW d \in [Nodes -> [Versions -> File]],
           NEW n \in Nodes, NEW v \in Versions
    PROVE  /\ WriteBlob(d, n, v, ContentOf[v]) \in [Nodes -> [Versions -> File]]
           /\ \A sum \in SidecarsLeft(d, n, v) :
                 WriteBlobOnly(d, n, v, ContentOf[v], sum)
                    \in [Nodes -> [Versions -> File]]
           /\ RemoveBlob(d, n, v) \in [Nodes -> [Versions -> File]]
           /\ RotBlob(d, n, v) \in [Nodes -> [Versions -> File]]
  <1> ContentOf[v] \in Bytes
    BY DEF Bytes, Contents
  <1>1. WriteBlob(d, n, v, ContentOf[v]) \in [Nodes -> [Versions -> File]]
    BY DEF WriteBlob, File
  <1>2. \A sum \in SidecarsLeft(d, n, v) :
            WriteBlobOnly(d, n, v, ContentOf[v], sum)
               \in [Nodes -> [Versions -> File]]
    BY DEF WriteBlobOnly, SidecarsLeft, File
  <1>3. RemoveBlob(d, n, v) \in [Nodes -> [Versions -> File]]
    BY DEF RemoveBlob, Nothing, File
  <1>4. RotBlob(d, n, v) \in [Nodes -> [Versions -> File]]
    <2>1. [d[n][v] EXCEPT !.data = Rot] \in File
      BY DEF File, Bytes
    <2>2. RotBlob(d, n, v) = [d EXCEPT ![n] = [d[n] EXCEPT ![v] =
                                [d[n][v] EXCEPT !.data = Rot]]]
      BY DEF RotBlob
    <2> QED BY <2>1, <2>2
  <1> QED BY <1>1, <1>2, <1>3, <1>4

LEMMA AnsweredTyped ==
    ASSUME NEW p \in Put, NEW pc \in PutStates
    PROVE  Answered(p, pc) \in Put
  BY DEF Answered, Put

LEMMA CallTypes ==
    ASSUME NEW p \in Put, NEW d \in Del, NEW n \in Nodes
    PROVE  /\ Acked(p, n) \in Put /\ Returned(p, n) \in Put
           /\ Returned(d, n) \in Del
  BY DEF Acked, Returned, Put, Del

LEMMA MessageTypes ==
    ASSUME NEW v \in Versions, NEW S \in SUBSET Nodes
    PROVE  CallsTo("PUT", v, S) \subseteq Calls
           /\ CallsTo("DELETE", v, S) \subseteq Calls
  BY DEF CallsTo, Calls

-----------------------------------------------------------------------------
(* Type correctness.                                                       *)

LEMMA InitTyped == Init => TypeOK
  <1> SUFFICES ASSUME Init PROVE TypeOK OBVIOUS
  <1>1. objects \in [Versions -> Row]
    BY DEF Init, EmptyCatalog, NoRow, Row, RowStates
  <1>2. disk \in [Nodes -> [Versions -> File]]
    BY DEF Init, EmptyDisks, Nothing, File
  <1>3. put \in [Versions -> Put]
    BY DEF Init, Put, PutStates, NoCond, Condition
  <1>4. del \in [Versions -> Del]
    BY DEF Init, Del
  <1> QED BY <1>1, <1>2, <1>3, <1>4 DEF Init, TypeOK

LEMMA StepTyped ==
    ASSUME TypeOK, NEW v \in Versions, Step(v)
    PROVE  TypeOK'
  <1> USE DEF TypeOK
  <1>1. ASSUME NEW cond \in Conditions, NEW ring \in Rings,
               NEW healthy \in SUBSET ring, PutStart(v, cond, ring, healthy)
        PROVE  TypeOK'
    <2> DEFINE targets == PutTargets(v, ring, healthy)
    <2>1. targets \in SUBSET Nodes
      BY TargetsAreNodes, FaultAssumption
    <2>2. objects' \in [Versions -> Row]
      BY <1>1, <2>1, CatalogTypes DEF PutStart
    <2>3. wire' \subseteq Calls
      BY <1>1, <2>1, MessageTypes DEF PutStart
    <2>4. put' \in [Versions -> Put]
      <3>1. cond \in Condition
        BY FaultAssumption
      <3>2. [pc |-> "uploading", cond |-> cond, left |-> targets, acks |-> {}]
               \in Put
        BY <2>1, <3>1 DEF Put, PutStates
      <3> QED BY <1>1, <3>2 DEF PutStart
    <2> QED BY <1>1, <2>2, <2>3, <2>4 DEF PutStart
  <1>2. ASSUME NEW cond \in Conditions, NEW ring \in Rings,
               NEW healthy \in SUBSET ring, PutReject(v, cond, ring, healthy)
        PROVE  TypeOK'
    <2>1. put' \in [Versions -> Put]
      <3>1. cond \in Condition
        BY FaultAssumption
      <3>2. [put[v] EXCEPT !.pc = "quorum", !.cond = cond] \in Put
        BY <3>1 DEF Put, PutStates
      <3>3. put' = [put EXCEPT ![v] =
                      [put[v] EXCEPT !.pc = "quorum", !.cond = cond]]
        BY <1>2 DEF PutReject
      <3> QED BY <3>2, <3>3
    <2> QED BY <1>2, <2>1 DEF PutReject
  <1>3. ASSUME NEW ring \in Rings, PutCommit(v, ring) PROVE TypeOK'
    <2>1. put[v].acks \in SUBSET Nodes /\ put[v] \in Put
      BY DEF Put
    <2>2. objects' \in [Versions -> Row]
      <3>1. CommitObject(objects, v) \in [Versions -> Row]
        BY <2>1, CatalogTypes
      <3> QED BY <1>3, <2>1, <3>1, CatalogTypes DEF PutCommit
    <2>3. queue' \in [Versions -> SUBSET Nodes]
      <3>1. MissingReplicas(v, ring) \in SUBSET Nodes
        BY CandidatesAreEligible, FaultAssumption DEF MissingReplicas
      <3> QED BY <1>3, <3>1 DEF PutCommit
    <2>4. put' \in [Versions -> Put]
      BY <1>3, <2>1, AnsweredTyped DEF PutCommit, PutStates
    <2> QED BY <1>3, <2>2, <2>3, <2>4 DEF PutCommit
  <1>4. ASSUME NEW pc \in {"quorum", "precondition"}, RollBack(v, pc)
        PROVE  TypeOK'
    <2>1. put[v].acks \in SUBSET Nodes /\ put[v] \in Put
      BY DEF Put
    <2>2. objects' \in [Versions -> Row]
      BY <1>4, <2>1, CatalogTypes DEF RollBack
    <2>3. put' \in [Versions -> Put]
      BY <1>4, <2>1, AnsweredTyped DEF RollBack, PutStates
    <2> QED BY <1>4, <2>1, <2>2, <2>3 DEF RollBack
  <1>5. CASE PutStoreError(v)
    <2>1. put[v].acks \in SUBSET Nodes /\ put[v] \in Put
      BY DEF Put
    <2>2. objects' \in [Versions -> Row]
      <3>1. CommitObject(objects, v) \in [Versions -> Row]
        BY <2>1, CatalogTypes
      <3> QED BY <1>5, <3>1 DEF PutStoreError
    <2>3. put' \in [Versions -> Put]
      BY <1>5, <2>1, AnsweredTyped DEF PutStoreError, PutStates
    <2> QED BY <1>5, <2>2, <2>3 DEF PutStoreError
  <1>6. CASE DeleteObject(v)
    <2>1. objects[v].replicas \in SUBSET Nodes
      BY DEF Row
    <2>2. objects' \in [Versions -> Row]
      BY <1>6, <2>1, CatalogTypes DEF DeleteObject
    <2>3. wire' \subseteq Calls
      BY <1>6, <2>1, MessageTypes DEF DeleteObject
    <2>4. del' \in [Versions -> Del]
      BY <1>6, <2>1 DEF DeleteObject, Del
    <2> QED BY <1>6, <2>2, <2>3, <2>4 DEF DeleteObject
  <1>7. CASE DeleteDone(v)
    <2>1. del' \in [Versions -> Del]
      BY <1>7 DEF DeleteDone, Del
    <2> QED BY <1>7, <2>1 DEF DeleteDone
  <1> QED
    BY <1>1, <1>2, <1>3, <1>4, <1>5, <1>6, <1>7
    DEF Step, PutFinish, PutQuorumError, PutPreconditionError

LEMMA NodeStepTyped ==
    ASSUME TypeOK, NEW v \in Versions, NEW n \in Nodes, NodeStep(v, n)
    PROVE  TypeOK'
  <1> USE DEF TypeOK
  <1>0. put[v] \in Put /\ del[v] \in Del
    OBVIOUS
  <1>1. /\ [put EXCEPT ![v] = Acked(@, n)] \in [Versions -> Put]
        /\ [put EXCEPT ![v] = Returned(@, n)] \in [Versions -> Put]
        /\ [del EXCEPT ![v] = Returned(@, n)] \in [Versions -> Del]
    BY <1>0, CallTypes
  <1>2. CASE NodePut(v, n)
    <2>1. disk' \in [Nodes -> [Versions -> File]]
      BY <1>2, DiskTypes DEF NodePut
    <2> QED BY <1>2, <1>1, <2>1 DEF NodePut
  <1>3. CASE NodePutNoSidecar(v, n)
    <2>1. disk' \in [Nodes -> [Versions -> File]]
      <3>1. PICK sum \in SidecarsLeft(disk, n, v) :
                disk' = WriteBlobOnly(disk, n, v, ContentOf[v], sum)
        BY <1>3 DEF NodePutNoSidecar
      <3>2. WriteBlobOnly(disk, n, v, ContentOf[v], sum)
               \in [Nodes -> [Versions -> File]]
        BY DiskTypes
      <3> QED BY <3>1, <3>2
    <2> QED BY <1>3, <1>1, <2>1 DEF NodePutNoSidecar
  <1>4. CASE PutRefused(v, n)
    BY <1>4, <1>1 DEF PutRefused
  <1>5. CASE PutTimeout(v, n)
    BY <1>5, <1>1 DEF PutTimeout
  <1>6. CASE CleanupSend(v, n)
    BY <1>6, MessageTypes DEF CleanupSend
  <1>7. CASE NodeDelete(v, n)
    BY <1>7, <1>1, DiskTypes DEF NodeDelete
  <1>8. CASE DeleteRefused(v, n)
    BY <1>8, <1>1 DEF DeleteRefused
  <1>9. CASE DeleteTimeout(v, n)
    BY <1>9, <1>1 DEF DeleteTimeout
  <1>10. CASE Corrupt(v, n)
    BY <1>10, DiskTypes DEF Corrupt
  <1> QED
    BY <1>2, <1>3, <1>4, <1>5, <1>6, <1>7, <1>8, <1>9, <1>10
    DEF NodeStep, PutAnswer

LEMMA CrashTyped == TypeOK /\ Crash => TypeOK'
  <1> SUFFICES ASSUME TypeOK, Crash PROVE TypeOK' OBVIOUS
  <1> USE DEF TypeOK
  <1>1. put' \in [Versions -> Put]
    BY AnsweredTyped DEF Crash, PutStates
  <1>2. del' \in [Versions -> Del]
    BY DEF Crash, Del
  <1> QED BY <1>1, <1>2 DEF Crash

LEMMA NextTyped == TypeOK /\ [Next]_vars => TypeOK'
  <1> SUFFICES ASSUME TypeOK, [Next]_vars PROVE TypeOK' OBVIOUS
  <1>1. CASE UNCHANGED vars
    BY <1>1 DEF vars, TypeOK
  <1>2. CASE Next
    BY <1>2, StepTyped, NodeStepTyped, CrashTyped DEF Next, WriteNext
  <1> QED BY <1>1, <1>2

(* Every variable keeps its type in every reachable state.                 *)
THEOREM Typing == Spec => []TypeOK
  BY InitTyped, NextTyped, PTL DEF Spec

-----------------------------------------------------------------------------
(* The inductive invariant.                                                *)

LEMMA QuorumKept ==
    ASSUME NEW v, HeldByQuorum(v),
           objects'[v].replicas = objects[v].replicas,
           \A n \in objects[v].replicas : Held(n, v) => Held(n, v)'
    PROVE  HeldByQuorum(v)'
  <1>1. PICK S \in SUBSET objects[v].replicas :
            WriteSucceeds(S) /\ \A n \in S : Held(n, v)
    BY DEF HeldByQuorum
  <1>2. \A n \in S : Held(n, v)'
    BY <1>1
  <1> QED BY <1>1, <1>2 DEF HeldByQuorum

(* What a step does that leaves the disks alone.                           *)
LEMMA SameHeld ==
    ASSUME UNCHANGED <<disk, rotted>>
    PROVE  \A v, n : Held(n, v)' <=> Held(n, v)
  BY DEF Held, Intact, HasFile

LEMMA InitIInv == Init => IInv
  <1> SUFFICES ASSUME Init PROVE IInv OBVIOUS
  <1>1. \A v \in Versions :
            /\ objects[v] = NoRow
            /\ put[v].pc = "idle" /\ put[v].left = {} /\ put[v].acks = {}
            /\ cleanup[v] = {}
    BY DEF Init, EmptyCatalog
  <1>2. wire = {}
    BY DEF Init
  <1> QED
    BY <1>1, <1>2, InitTyped
    DEF IInv, Consistent, RowsFollowPuts, AcksHold, DeletesAreForTheDead,
        QuorumHolds, LatestUnique, NoRow

LEMMA PutStartConsistent ==
    ASSUME Consistent, NEW v \in Versions, NEW cond \in Conditions,
           NEW ring \in Rings, NEW healthy \in SUBSET ring,
           PutStart(v, cond, ring, healthy)
    PROVE  /\ RowsFollowPuts' /\ AcksHold' /\ DeletesAreForTheDead'
           /\ LatestUnique'
  <1> DEFINE targets == PutTargets(v, ring, healthy)
  <1> HIDE DEF targets
  <1>1. /\ put[v].pc = "idle"
        /\ objects' = [objects EXCEPT ![v] = [state |-> "PENDING",
                          latest |-> FALSE, replicas |-> targets]]
        /\ wire' = wire \cup CallsTo("PUT", v, targets)
        /\ put' = [put EXCEPT ![v] = [pc |-> "uploading", cond |-> cond,
                                      left |-> targets, acks |-> {}]]
        /\ UNCHANGED <<disk, rotted, cleanup>>
    BY DEF PutStart, PrepareObject, targets
  <1>2. /\ \A u \in Versions \ {v} : objects'[u] = objects[u] /\ put'[u] = put[u]
        /\ objects'[v] = [state |-> "PENDING", latest |-> FALSE,
                          replicas |-> targets]
        /\ put'[v] = [pc |-> "uploading", cond |-> cond,
                      left |-> targets, acks |-> {}]
    BY <1>1 DEF Consistent, TypeOK
  <1>3. RowsFollowPuts'
    BY <1>2 DEF Consistent, RowsFollowPuts
  <1>4. AcksHold'
    BY <1>1, <1>2, SameHeld DEF Consistent, AcksHold
  <1>5. DeletesAreForTheDead'
    <2>1. \A u \in Versions : Dead(u) => u # v /\ Dead(u)'
      BY <1>1, <1>2 DEF Dead
    <2>2. \A call \in wire' : call.op = "DELETE" => call \in wire
      BY <1>1 DEF CallsTo
    <2>3. \A call \in wire : call.ver \in Versions
      BY DEF Consistent, TypeOK, Calls
    <2> QED BY <1>1, <2>1, <2>2, <2>3 DEF Consistent, DeletesAreForTheDead
  <1>6. LatestUnique'
    BY <1>2 DEF Consistent, LatestUnique
  <1> QED BY <1>3, <1>4, <1>5, <1>6

LEMMA PutRejectConsistent ==
    ASSUME Consistent, NEW v \in Versions, NEW cond, NEW ring, NEW healthy,
           PutReject(v, cond, ring, healthy)
    PROVE  /\ RowsFollowPuts' /\ AcksHold' /\ DeletesAreForTheDead'
           /\ LatestUnique'
  <1>1. /\ put[v].pc = "idle"
        /\ \A u \in Versions \ {v} : put'[u] = put[u]
        /\ put'[v] = [put[v] EXCEPT !.pc = "quorum", !.cond = cond]
        /\ UNCHANGED <<objects, disk, rotted, wire, cleanup>>
    BY DEF PutReject, Consistent, TypeOK
  <1>2. /\ put'[v].pc = "quorum"
        /\ put'[v].left = put[v].left /\ put'[v].acks = put[v].acks
    BY <1>1 DEF Consistent, TypeOK, Put
  <1>3. RowsFollowPuts'
    <2>1. objects'[v].state = "ABSENT"
      BY <1>1 DEF Consistent, RowsFollowPuts
    <2>2. \A u \in Versions \ {v} :
              put'[u].pc = put[u].pc /\ objects'[u].state = objects[u].state
      BY <1>1
    <2> QED BY <1>2, <2>1, <2>2 DEF Consistent, RowsFollowPuts
  <1>4. AcksHold'
    BY <1>1, <1>2, SameHeld DEF Consistent, AcksHold
  <1>5. DeletesAreForTheDead'
    <2>1. \A u \in Versions : Dead(u) => Dead(u)'
      BY <1>1, <1>2 DEF Dead
    <2>2. \A call \in wire : call.ver \in Versions
      BY DEF Consistent, TypeOK, Calls
    <2> QED BY <1>1, <2>1, <2>2 DEF Consistent, DeletesAreForTheDead
  <1>6. LatestUnique'
    BY <1>1 DEF Consistent, LatestUnique
  <1> QED BY <1>3, <1>4, <1>5, <1>6

(* What a commit does to the table and to the call, whether or not the     *)
(* update of the replicas follows it.                                      *)
LEMMA InstallConsistent ==
    ASSUME Consistent, NEW v \in Versions, put[v].pc = "uploading",
           NEW pc \in {"ok", "unknown"},
           objects' \in [Versions -> Row],
           \A u \in Versions \ {v} :
               /\ objects'[u].state = objects[u].state
               /\ objects'[u].replicas = objects[u].replicas
               /\ objects'[u].latest <=>
                     objects[u].latest /\ KeyOf[u] # KeyOf[v],
           objects'[v].state = "COMMITTED",
           put' = [put EXCEPT ![v] = Answered(@, pc)],
           UNCHANGED <<disk, rotted, wire, cleanup>>
    PROVE  /\ RowsFollowPuts' /\ AcksHold' /\ DeletesAreForTheDead'
           /\ LatestUnique'
  <1>1. /\ \A u \in Versions \ {v} : put'[u] = put[u]
        /\ put'[v].pc = pc /\ put'[v].left = {} /\ put'[v].acks = {}
    BY DEF Consistent, TypeOK, Put, Answered
  <1>2. RowsFollowPuts'
    <2>1. \A u \in Versions \ {v} :
              put'[u].pc = put[u].pc /\ objects'[u].state = objects[u].state
      BY <1>1
    <2>2. put'[v].pc \in {"ok", "unknown"} /\ objects'[v].state = "COMMITTED"
      BY <1>1
    <2> QED BY <2>1, <2>2 DEF Consistent, RowsFollowPuts
  <1>3. AcksHold'
    BY <1>1, SameHeld DEF Consistent, AcksHold
  <1>4. DeletesAreForTheDead'
    <2>1. \A u \in Versions : Dead(u) => Dead(u)'
      BY <1>1 DEF Dead
    <2>2. \A call \in wire : call.ver \in Versions
      BY DEF Consistent, TypeOK, Calls
    <2> QED BY <2>1, <2>2 DEF Consistent, DeletesAreForTheDead
  <1>5. LatestUnique'
    BY DEF Consistent, LatestUnique
  <1> QED BY <1>2, <1>3, <1>4, <1>5

LEMMA CommitTable ==
    ASSUME NEW tab \in [Versions -> Row], NEW v \in Versions
    PROVE  /\ \A u \in Versions \ {v} :
                 /\ CommitObject(tab, v)[u].state = tab[u].state
                 /\ CommitObject(tab, v)[u].replicas = tab[u].replicas
                 /\ CommitObject(tab, v)[u].latest <=>
                       tab[u].latest /\ KeyOf[u] # KeyOf[v]
           /\ CommitObject(tab, v)[v].state = "COMMITTED"
           /\ CommitObject(tab, v)[v].latest
           /\ CommitObject(tab, v)[v].replicas = tab[v].replicas
  BY DEF CommitObject, Row

LEMMA PutCommitConsistent ==
    ASSUME Consistent, NEW v \in Versions, NEW ring, PutCommit(v, ring)
    PROVE  /\ RowsFollowPuts' /\ AcksHold' /\ DeletesAreForTheDead'
           /\ LatestUnique'
  <1> DEFINE tab == CommitObject(objects, v)
  <1>1. /\ tab \in [Versions -> Row] /\ put[v].acks \in SUBSET Nodes
        /\ objects' = [tab EXCEPT ![v].replicas = put[v].acks]
    BY CatalogTypes DEF PutCommit, UpdateObjectReplicas, Consistent, TypeOK, Put
  <1>2. objects' \in [Versions -> Row]
    BY <1>1 DEF Row
  <1>3. /\ \A u \in Versions \ {v} : objects'[u] = tab[u]
        /\ objects'[v].state = tab[v].state
        /\ objects'[v].replicas = put[v].acks
    BY <1>1 DEF Row
  <1> HIDE DEF tab
  <1>4. /\ \A u \in Versions \ {v} :
              /\ tab[u].state = objects[u].state
              /\ tab[u].replicas = objects[u].replicas
              /\ tab[u].latest <=> objects[u].latest /\ KeyOf[u] # KeyOf[v]
        /\ tab[v].state = "COMMITTED"
    BY CommitTable DEF tab, Consistent, TypeOK
  <1>5. /\ \A u \in Versions \ {v} :
              /\ objects'[u].state = objects[u].state
              /\ objects'[u].replicas = objects[u].replicas
              /\ objects'[u].latest <=>
                    objects[u].latest /\ KeyOf[u] # KeyOf[v]
        /\ objects'[v].state = "COMMITTED"
        /\ put[v].acks \subseteq objects'[v].replicas
    BY <1>3, <1>4
  <1>6. /\ put[v].pc = "uploading" /\ WriteSucceeds(put[v].acks)
        /\ put' = [put EXCEPT ![v] = Answered(@, "ok")]
        /\ UNCHANGED <<disk, rotted, wire, cleanup>>
    BY DEF PutCommit, UploadsDone
  <1> QED BY <1>2, <1>5, <1>6, InstallConsistent

LEMMA PutStoreErrorConsistent ==
    ASSUME Consistent, NEW v \in Versions, PutStoreError(v)
    PROVE  /\ RowsFollowPuts' /\ AcksHold' /\ DeletesAreForTheDead'
           /\ LatestUnique'
  <1>1. CASE UNCHANGED objects
    <2>1. /\ \A u \in Versions \ {v} : put'[u] = put[u]
          /\ put[v].pc = "uploading" /\ put'[v].pc = "unknown"
          /\ put'[v].left = {} /\ put'[v].acks = {}
          /\ UNCHANGED <<objects, disk, rotted, wire, cleanup>>
      BY <1>1 DEF PutStoreError, UploadsDone, Answered, Consistent, TypeOK, Put
    <2>2. RowsFollowPuts'
      BY <2>1 DEF Consistent, RowsFollowPuts
    <2>3. AcksHold'
      BY <2>1, SameHeld DEF Consistent, AcksHold
    <2>4. DeletesAreForTheDead'
      <3>1. \A u \in Versions : Dead(u) => Dead(u)'
        BY <2>1 DEF Dead
      <3>2. \A call \in wire : call.ver \in Versions
        BY DEF Consistent, TypeOK, Calls
      <3> QED BY <2>1, <3>1, <3>2 DEF Consistent, DeletesAreForTheDead
    <2>5. LatestUnique'
      BY <2>1 DEF Consistent, LatestUnique
    <2> QED BY <2>2, <2>3, <2>4, <2>5
  <1>2. CASE objects' = CommitObject(objects, v) /\ WriteSucceeds(put[v].acks)
    <2>1. objects' \in [Versions -> Row]
      BY <1>2, CatalogTypes DEF Consistent, TypeOK
    <2>2. /\ \A u \in Versions \ {v} :
                /\ objects'[u].state = objects[u].state
                /\ objects'[u].replicas = objects[u].replicas
                /\ objects'[u].latest <=>
                      objects[u].latest /\ KeyOf[u] # KeyOf[v]
          /\ objects'[v].state = "COMMITTED"
          /\ objects'[v].replicas = objects[v].replicas
      BY <1>2, CommitTable DEF Consistent, TypeOK
    <2>3. put[v].pc = "uploading" /\ put[v].acks \subseteq objects[v].replicas
      BY DEF PutStoreError, UploadsDone, Consistent, AcksHold
    <2> QED BY <1>2, <2>1, <2>2, <2>3, InstallConsistent DEF PutStoreError
  <1> QED BY <1>1, <1>2 DEF PutStoreError

LEMMA RollBackConsistent ==
    ASSUME Consistent, NEW v \in Versions, UploadsDone(v),
           NEW pc \in {"quorum", "precondition"}, RollBack(v, pc)
    PROVE  /\ RowsFollowPuts' /\ AcksHold' /\ DeletesAreForTheDead'
           /\ LatestUnique'
  <1>1. objects' = [objects EXCEPT ![v] = NoRow]
    BY DEF RollBack, AbortObject, UploadsDone, Consistent, RowsFollowPuts
  <1>2. /\ \A u \in Versions \ {v} : /\ put'[u] = put[u]
                                     /\ objects'[u] = objects[u]
                                     /\ cleanup'[u] = cleanup[u]
        /\ put'[v].pc = pc /\ put'[v].left = {} /\ put'[v].acks = {}
        /\ objects'[v] = NoRow
        /\ UNCHANGED <<disk, rotted, wire>>
    <2>1. put'[v] = Answered(put[v], pc)
      BY DEF RollBack, Consistent, TypeOK
    <2>2. put'[v].pc = pc /\ put'[v].left = {} /\ put'[v].acks = {}
      BY <2>1 DEF Answered, Consistent, TypeOK, Put
    <2> QED BY <1>1, <2>2 DEF RollBack, Consistent, TypeOK
  <1>3. RowsFollowPuts'
    BY <1>2 DEF Consistent, RowsFollowPuts, NoRow
  <1>4. AcksHold'
    BY <1>2, SameHeld DEF Consistent, AcksHold
  <1>5. DeletesAreForTheDead'
    <2>1. Dead(v)' /\ \A u \in Versions : Dead(u) => Dead(u)'
      BY <1>2 DEF Dead, NoRow
    <2>2. \A call \in wire : call.ver \in Versions
      BY DEF Consistent, TypeOK, Calls
    <2> QED BY <1>2, <2>1, <2>2 DEF Consistent, DeletesAreForTheDead
  <1>6. LatestUnique'
    BY <1>2 DEF Consistent, LatestUnique, NoRow
  <1> QED BY <1>3, <1>4, <1>5, <1>6

LEMMA DeleteObjectConsistent ==
    ASSUME Consistent, NEW v \in Versions, DeleteObject(v)
    PROVE  /\ RowsFollowPuts' /\ AcksHold' /\ DeletesAreForTheDead'
           /\ LatestUnique'
  <1>1. /\ objects[v].state = "COMMITTED"
        /\ wire' = wire \cup CallsTo("DELETE", v, objects[v].replicas)
        /\ UNCHANGED <<disk, rotted, put, cleanup>>
    BY DEF DeleteObject, LatestRows
  <1>2. put[v].pc \notin {"idle", "uploading", "quorum", "precondition"}
    BY <1>1 DEF Consistent, RowsFollowPuts
  <1>3. /\ \A u \in Versions \ {v} : objects'[u] = objects[u]
        /\ objects'[v].state = "DELETED" /\ ~ objects'[v].latest
        /\ objects'[v].replicas = objects[v].replicas
    BY DEF DeleteObject, TombstoneObject, Consistent, TypeOK, Row
  <1>4. RowsFollowPuts'
    BY <1>1, <1>2, <1>3 DEF Consistent, RowsFollowPuts
  <1>5. AcksHold'
    BY <1>1, <1>3, SameHeld DEF Consistent, AcksHold
  <1>6. DeletesAreForTheDead'
    <2>1. Dead(v)' /\ \A u \in Versions : Dead(u) => Dead(u)'
      BY <1>1, <1>2, <1>3 DEF Dead
    <2>2. \A call \in wire' : call \in wire \/ call.ver = v
      BY <1>1 DEF CallsTo
    <2>3. \A call \in wire : call.ver \in Versions
      BY DEF Consistent, TypeOK, Calls
    <2> QED BY <1>1, <2>1, <2>2, <2>3 DEF Consistent, DeletesAreForTheDead
  <1>7. LatestUnique'
    BY <1>3 DEF Consistent, LatestUnique
  <1> QED BY <1>4, <1>5, <1>6, <1>7

LEMMA DeleteDoneConsistent ==
    ASSUME Consistent, NEW v \in Versions, DeleteDone(v)
    PROVE  /\ RowsFollowPuts' /\ AcksHold' /\ DeletesAreForTheDead'
           /\ LatestUnique'
  BY SameHeld, QuorumKept
  DEF DeleteDone, Consistent, RowsFollowPuts, AcksHold, DeletesAreForTheDead, Dead,
      QuorumHolds, LatestUnique

LEMMA CrashConsistent ==
    ASSUME Consistent, Crash
    PROVE  /\ RowsFollowPuts' /\ AcksHold' /\ DeletesAreForTheDead'
           /\ LatestUnique'
  <1>1. \A v \in Versions :
            /\ put[v].pc # "uploading" => put'[v] = put[v]
            /\ put[v].pc = "uploading" =>
                   /\ put'[v].pc = "unknown"
                   /\ put'[v].left = {} /\ put'[v].acks = {}
    BY DEF Crash, Answered, Consistent, TypeOK, Put
  <1>2. /\ UNCHANGED <<objects, disk, rotted, wire>>
        /\ \A v \in Versions : cleanup'[v] = {}
    BY DEF Crash
  <1>3. RowsFollowPuts'
    BY <1>1, <1>2 DEF Consistent, RowsFollowPuts
  <1>4. AcksHold'
    BY <1>1, <1>2, SameHeld DEF Consistent, AcksHold
  <1>5. DeletesAreForTheDead'
    <2>1. \A u \in Versions : Dead(u) => Dead(u)'
      BY <1>1, <1>2 DEF Dead
    <2>2. \A call \in wire : call.ver \in Versions
      BY DEF Consistent, TypeOK, Calls
    <2> QED BY <1>2, <2>1, <2>2 DEF Consistent, DeletesAreForTheDead
  <1>6. LatestUnique'
    BY <1>2 DEF Consistent, LatestUnique
  <1> QED BY <1>3, <1>4, <1>5, <1>6

-----------------------------------------------------------------------------
(* The nodes' steps touch no row and no cleanup but the one they send, so  *)
(* what is left to show is that they take no file that a quorum counts.    *)

(* A step on node n and version v that keeps every file held, or that      *)
(* works on a version that is dead.                                        *)
LEMMA NodeFrame ==
    ASSUME Consistent, NEW v \in Versions, NEW n \in Nodes,
           UNCHANGED objects,
           \A u \in Versions : put'[u].pc = put[u].pc,
           \A u \in Versions : cleanup'[u] \subseteq cleanup[u],
           \A call \in wire' :
               call \in wire \/ (call.ver = v /\ cleanup[v] # {}),
           \A u \in Versions : /\ put'[u].left \subseteq put[u].left
                               /\ put'[u].acks \subseteq
                                     put[u].left \cup put[u].acks,
           \A u \in Versions, m \in Nodes :
               Held(m, u) => Held(m, u)' \/ (u = v /\ Dead(v)),
           \A u \in Versions :
               \A m \in put'[u].acks \ put[u].acks : Held(m, u)'
    PROVE  /\ RowsFollowPuts' /\ AcksHold' /\ DeletesAreForTheDead'
           /\ LatestUnique'
  <1>1. RowsFollowPuts'
    BY DEF Consistent, RowsFollowPuts
  <1>2. AcksHold'
    <2> SUFFICES ASSUME NEW u \in Versions
                 PROVE  /\ put'[u].pc # "uploading" =>
                               put'[u].left = {} /\ put'[u].acks = {}
                        /\ put'[u].pc = "uploading" =>
                               put'[u].left \cup put'[u].acks
                                  \subseteq objects'[u].replicas
                        /\ \A m \in put'[u].acks : Held(m, u)'
      BY DEF AcksHold
    <2>1. put'[u].pc # "uploading" => put'[u].left = {} /\ put'[u].acks = {}
      BY DEF Consistent, AcksHold
    <2>2. put'[u].pc = "uploading" =>
              put'[u].left \cup put'[u].acks \subseteq objects'[u].replicas
      BY DEF Consistent, AcksHold
    <2>3. ASSUME NEW m \in put'[u].acks PROVE Held(m, u)'
      <3>1. put[u].pc = "uploading"
        BY <2>1
      <3>2. ~ (u = v /\ Dead(v))
        BY <3>1 DEF Dead
      <3>3. m \in put[u].acks => m \in Nodes /\ Held(m, u)
        BY DEF Consistent, AcksHold, TypeOK, Put
      <3> QED BY <3>2, <3>3
    <2> QED BY <2>1, <2>2, <2>3
  <1>3. DeletesAreForTheDead'
    <2>1. \A u \in Versions : Dead(u) => Dead(u)'
      BY DEF Dead
    <2>2. \A call \in wire : call.ver \in Versions
      BY DEF Consistent, TypeOK, Calls
    <2>3. cleanup[v] # {} => Dead(v)
      BY DEF Consistent, DeletesAreForTheDead
    <2> QED BY <2>1, <2>2, <2>3 DEF Consistent, DeletesAreForTheDead
  <1>4. LatestUnique'
    BY DEF Consistent, LatestUnique
  <1> QED BY <1>1, <1>2, <1>3, <1>4

LEMMA AnswerFacts ==
    ASSUME NEW p \in Put, NEW n \in Nodes
    PROVE  /\ Acked(p, n).pc = p.pc /\ Acked(p, n).cond = p.cond
           /\ Acked(p, n).left \subseteq p.left
           /\ Acked(p, n).acks \subseteq p.left \cup p.acks
           /\ Acked(p, n).acks \ p.acks \subseteq {n}
           /\ Returned(p, n).pc = p.pc /\ Returned(p, n).cond = p.cond
           /\ Returned(p, n).left \subseteq p.left
           /\ Returned(p, n).acks = p.acks
  BY DEF Acked, Returned, Put

(* What an answer to an upload, or giving up on it, does to its call.      *)
LEMMA PutAnswerFacts ==
    ASSUME TypeOK, NEW v \in Versions, NEW n \in Nodes,
           \/ put' = [put EXCEPT ![v] = Acked(@, n)]
           \/ put' = [put EXCEPT ![v] = Returned(@, n)]
    PROVE  \A u \in Versions :
               /\ put'[u].pc = put[u].pc
               /\ put'[u].cond = put[u].cond
               /\ put'[u].left \subseteq put[u].left
               /\ put'[u].acks \subseteq put[u].left \cup put[u].acks
               /\ put'[u].acks \ put[u].acks \subseteq
                      IF u = v THEN {n} ELSE {}
  <1>1. put[v] \in Put
    BY DEF TypeOK
  <1>2. \A u \in Versions \ {v} : put'[u] = put[u]
    BY DEF TypeOK
  <1>3. put'[v] = Acked(put[v], n) \/ put'[v] = Returned(put[v], n)
    BY DEF TypeOK
  <1> QED BY <1>1, <1>2, <1>3, AnswerFacts

(* Writing the uploaded bytes makes the file held and touches no other.    *)
LEMMA WrittenHeld ==
    ASSUME TypeOK, NEW v \in Versions, NEW n \in Nodes, NEW sum,
           disk' = WriteBlobOnly(disk, n, v, ContentOf[v], sum),
           UNCHANGED rotted
    PROVE  /\ Held(n, v)'
           /\ \A u \in Versions, m \in Nodes : Held(m, u) => Held(m, u)'
  <1>1. disk'[n][v].data = ContentOf[v]
    BY DEF WriteBlobOnly, TypeOK
  <1>2. \A u \in Versions, m \in Nodes :
            ~ (u = v /\ m = n) => disk'[m][u] = disk[m][u]
    BY DEF WriteBlobOnly, TypeOK
  <1> QED BY <1>1, <1>2 DEF Held, Intact, HasFile

LEMMA NodeStepConsistent ==
    ASSUME Consistent, NEW v \in Versions, NEW n \in Nodes, NodeStep(v, n)
    PROVE  /\ RowsFollowPuts' /\ AcksHold' /\ DeletesAreForTheDead'
           /\ LatestUnique'
  <1>0. TypeOK
    BY DEF Consistent
  <1>1. CASE NodePut(v, n)
    <2>1. /\ disk' = WriteBlobOnly(disk, n, v, ContentOf[v], ContentOf[v])
          /\ put' = [put EXCEPT ![v] = Acked(@, n)]
          /\ wire' \subseteq wire
          /\ UNCHANGED <<objects, rotted, cleanup>>
      BY <1>1 DEF NodePut, WriteBlob, WriteBlobOnly
    <2>2. /\ Held(n, v)'
          /\ \A u \in Versions, m \in Nodes : Held(m, u) => Held(m, u)'
      BY <1>0, <2>1, WrittenHeld
    <2>3. \A u \in Versions : \A m \in put'[u].acks \ put[u].acks : Held(m, u)'
      <3>1. \A u \in Versions : put'[u].acks \ put[u].acks \subseteq
                                    IF u = v THEN {n} ELSE {}
        BY <1>0, <2>1, PutAnswerFacts
      <3> QED BY <2>2, <3>1
    <2> QED BY <1>0, <2>1, <2>2, <2>3, PutAnswerFacts, NodeFrame
  <1>2. CASE NodePutNoSidecar(v, n)
    <2>1. PICK sum : disk' = WriteBlobOnly(disk, n, v, ContentOf[v], sum)
      BY <1>2 DEF NodePutNoSidecar
    <2>2. /\ put' = [put EXCEPT ![v] = Returned(@, n)]
          /\ wire' \subseteq wire
          /\ UNCHANGED <<objects, rotted, cleanup>>
      BY <1>2 DEF NodePutNoSidecar
    <2>3. /\ Held(n, v)'
          /\ \A u \in Versions, m \in Nodes : Held(m, u) => Held(m, u)'
      BY <1>0, <2>1, <2>2, WrittenHeld
    <2>4. \A u \in Versions : \A m \in put'[u].acks \ put[u].acks : Held(m, u)'
      <3>1. \A u \in Versions : put'[u].acks \ put[u].acks \subseteq
                                    IF u = v THEN {n} ELSE {}
        BY <1>0, <2>2, PutAnswerFacts
      <3> QED BY <2>3, <3>1
    <2> QED BY <1>0, <2>2, <2>3, <2>4, PutAnswerFacts, NodeFrame
  <1>3. CASE PutRefused(v, n) \/ PutTimeout(v, n)
    <2>1. /\ put' = [put EXCEPT ![v] = Returned(@, n)]
          /\ wire' \subseteq wire
          /\ UNCHANGED <<objects, disk, rotted, cleanup>>
      BY <1>3 DEF PutRefused, PutTimeout
    <2>2. \A u \in Versions : put'[u].acks \ put[u].acks = {}
      <3>1. put'[v].acks = put[v].acks
        BY <1>0, <2>1, AnswerFacts DEF TypeOK
      <3> QED BY <1>0, <2>1, <3>1 DEF TypeOK
    <2> QED BY <1>0, <2>1, <2>2, SameHeld, PutAnswerFacts, NodeFrame
  <1>4. CASE CleanupSend(v, n)
    <2>1. /\ \A u \in Versions : cleanup'[u] \subseteq cleanup[u]
          /\ cleanup[v] # {}
          /\ wire' = wire \cup CallsTo("DELETE", v, {n})
          /\ UNCHANGED <<objects, disk, rotted, put>>
      BY <1>0, <1>4 DEF CleanupSend, TypeOK
    <2>2. \A call \in wire' : call \in wire \/ call.ver = v
      BY <2>1 DEF CallsTo
    <2> QED BY <2>1, <2>2, SameHeld, NodeFrame
  <1>5. CASE NodeDelete(v, n)
    <2>1. /\ disk' = RemoveBlob(disk, n, v)
          /\ wire' \subseteq wire
          /\ UNCHANGED <<objects, rotted, put, cleanup>>
      BY <1>5 DEF NodeDelete
    <2>2. Dead(v)
      <3>1. DeleteCall(v, n) \in wire
        BY <1>5 DEF NodeDelete
      <3> QED BY <3>1 DEF DeleteCall, Consistent, DeletesAreForTheDead
    <2>3. \A u \in Versions, m \in Nodes :
              Held(m, u) => Held(m, u)' \/ (u = v /\ Dead(v))
      <3>1. \A u \in Versions \ {v}, m \in Nodes : disk'[m][u] = disk[m][u]
        BY <1>0, <2>1 DEF RemoveBlob, TypeOK
      <3> QED BY <2>1, <2>2, <3>1 DEF Held, Intact, HasFile
    <2> QED BY <2>1, <2>3, NodeFrame
  <1>6. CASE DeleteRefused(v, n) \/ DeleteTimeout(v, n)
    <2>1. wire' \subseteq wire /\ UNCHANGED <<objects, disk, rotted, put, cleanup>>
      BY <1>6 DEF DeleteRefused, DeleteTimeout
    <2> QED BY <2>1, SameHeld, NodeFrame
  <1>7. CASE Corrupt(v, n)
    <2>1. /\ disk' = RotBlob(disk, n, v)
          /\ rotted' = rotted \cup {<<n, v>>}
          /\ UNCHANGED <<objects, wire, put, cleanup>>
      BY <1>7 DEF Corrupt
    <2>2. \A u \in Versions, m \in Nodes : Held(m, u) => Held(m, u)'
      <3>1. \A u \in Versions, m \in Nodes :
                ~ (u = v /\ m = n) => disk'[m][u] = disk[m][u]
        BY <1>0, <2>1 DEF RotBlob, TypeOK
      <3>2. disk'[n][v].data = Rot
        BY <1>0, <2>1 DEF RotBlob, TypeOK, File
      <3> QED
        BY <2>1, <3>1, <3>2, ContentAssumption DEF Held, Intact, HasFile
    <2> QED BY <2>1, <2>2, NodeFrame
  <1> QED
    BY <1>1, <1>2, <1>3, <1>4, <1>5, <1>6, <1>7 DEF NodeStep, PutAnswer

LEMMA NextConsistent == Consistent /\ [Next]_vars => Consistent'
  <1> SUFFICES ASSUME Consistent, [Next]_vars PROVE Consistent' OBVIOUS
  <1>1. TypeOK'
    BY NextTyped DEF Consistent
  <1>2. CASE UNCHANGED vars
    BY <1>1, <1>2, SameHeld
    DEF vars, Consistent, RowsFollowPuts, AcksHold, DeletesAreForTheDead, Dead,
        LatestUnique
  <1>3. ASSUME NEW v \in Versions, Step(v) PROVE Consistent'
    <2>1. CASE \E cond \in Conditions, ring \in Rings :
                 \E healthy \in SUBSET ring :
                    \/ PutStart(v, cond, ring, healthy)
                    \/ PutReject(v, cond, ring, healthy)
      BY <1>1, <2>1, PutStartConsistent, PutRejectConsistent DEF Consistent
    <2>2. CASE PutFinish(v)
      BY <1>1, <2>2, PutCommitConsistent, RollBackConsistent
      DEF Consistent, PutFinish, PutQuorumError, PutPreconditionError
    <2>3. CASE PutStoreError(v)
      BY <1>1, <2>3, PutStoreErrorConsistent DEF Consistent
    <2>4. CASE DeleteObject(v)
      BY <1>1, <2>4, DeleteObjectConsistent DEF Consistent
    <2>5. CASE DeleteDone(v)
      BY <1>1, <2>5, DeleteDoneConsistent DEF Consistent
    <2> QED BY <1>3, <2>1, <2>2, <2>3, <2>4, <2>5 DEF Step
  <1>4. ASSUME NEW v \in Versions, NEW n \in Nodes, NodeStep(v, n)
        PROVE  Consistent'
    BY <1>1, <1>4, NodeStepConsistent DEF Consistent
  <1>5. CASE Crash
    BY <1>1, <1>5, CrashConsistent DEF Consistent
  <1> QED BY <1>2, <1>3, <1>4, <1>5 DEF Next, WriteNext

-----------------------------------------------------------------------------
(* What any step of the write path may do to a file and to a row.  The     *)
(* proofs about reads, scrubs and rebalances, which run beside it, use     *)
(* these two facts and none of its actions.                                *)

(* The upload of v reaches its file on node n; rot reaches it; the file    *)
(* is deleted.                                                             *)
FileUploaded(n, v) ==
    /\ PutCall(v, n) \in wire
    /\ disk'[n][v].data = ContentOf[v]
    /\ "sidecar" \notin Faults => disk'[n][v].sum = ContentOf[v]

FileRots(n, v) ==
    /\ HasFile(disk, n, v) /\ <<n, v>> \in rotted' \ rotted
    /\ disk'[n][v].data = Rot
    /\ disk'[n][v].sum = disk[n][v].sum

FileDeleted(n, v) == Dead(v) /\ disk'[n][v] = Nothing

LEMMA FileSteps ==
    ASSUME Consistent, [Next]_vars, NEW n \in Nodes, NEW v \in Versions
    PROVE  /\ rotted \subseteq rotted'
           /\ \/ disk'[n][v] = disk[n][v]
              \/ FileUploaded(n, v)
              \/ FileRots(n, v)
              \/ FileDeleted(n, v)
  <1>0. TypeOK
    BY DEF Consistent
  <1>1. CASE UNCHANGED <<disk, rotted>>
    BY <1>1
  <1>2. ASSUME NEW u \in Versions, NEW m \in Nodes, NodePut(u, m)
        PROVE  /\ rotted' = rotted
               /\ disk'[n][v] = disk[n][v] \/ FileUploaded(n, v)
    <2>1. /\ rotted' = rotted /\ PutCall(u, m) \in wire
          /\ disk' = [disk EXCEPT ![m][u] = [data |-> ContentOf[u],
                                             sum |-> ContentOf[u]]]
      BY <1>2 DEF NodePut, WriteBlob
    <2> QED BY <1>0, <2>1 DEF FileUploaded, TypeOK
  <1>3. ASSUME NEW u \in Versions, NEW m \in Nodes, NodePutNoSidecar(u, m)
        PROVE  /\ rotted' = rotted
               /\ disk'[n][v] = disk[n][v] \/ FileUploaded(n, v)
    <2>1. PICK sum : disk' = [disk EXCEPT ![m][u] = [data |-> ContentOf[u],
                                                     sum |-> sum]]
      BY <1>3 DEF NodePutNoSidecar, WriteBlobOnly
    <2>2. /\ rotted' = rotted /\ PutCall(u, m) \in wire
          /\ "sidecar" \in Faults
      BY <1>3 DEF NodePutNoSidecar
    <2> QED BY <1>0, <2>1, <2>2 DEF FileUploaded, TypeOK
  <1>4. ASSUME NEW u \in Versions, NEW m \in Nodes, NodeDelete(u, m)
        PROVE  /\ rotted' = rotted
               /\ disk'[n][v] = disk[n][v] \/ FileDeleted(n, v)
    <2>1. rotted' = rotted /\ disk' = RemoveBlob(disk, m, u)
      BY <1>4 DEF NodeDelete
    <2>2. Dead(u)
      <3>1. DeleteCall(u, m) \in wire
        BY <1>4 DEF NodeDelete
      <3> QED BY <3>1 DEF DeleteCall, Consistent, DeletesAreForTheDead
    <2> QED BY <1>0, <2>1, <2>2 DEF FileDeleted, RemoveBlob, TypeOK
  <1>5. ASSUME NEW u \in Versions, NEW m \in Nodes, Corrupt(u, m)
        PROVE  /\ rotted \subseteq rotted'
               /\ disk'[n][v] = disk[n][v] \/ FileRots(n, v)
    <2>1. /\ disk' = [disk EXCEPT ![m][u].data = Rot]
          /\ rotted' = rotted \cup {<<m, u>>} /\ <<m, u>> \notin rotted
          /\ HasFile(disk, m, u)
      BY <1>5 DEF Corrupt, RotBlob
    <2>2. m = n /\ u = v => /\ disk'[n][v].data = Rot
                            /\ disk'[n][v].sum = disk[n][v].sum
      BY <1>0, <2>1 DEF TypeOK, File
    <2>3. ~ (m = n /\ u = v) => disk'[n][v] = disk[n][v]
      BY <1>0, <2>1 DEF TypeOK
    <2> QED BY <2>1, <2>2, <2>3 DEF FileRots
  <1>6. ASSUME NEW u \in Versions, Step(u) PROVE UNCHANGED <<disk, rotted>>
    BY <1>6
    DEF Step, PutStart, PutReject, PutFinish, PutCommit, PutQuorumError,
        PutPreconditionError, RollBack, PutStoreError, DeleteObject, DeleteDone
  <1>7. ASSUME NEW u \in Versions, NEW m \in Nodes, NodeStep(u, m)
        PROVE  \/ UNCHANGED <<disk, rotted>>
               \/ NodePut(u, m) \/ NodePutNoSidecar(u, m)
               \/ NodeDelete(u, m) \/ Corrupt(u, m)
    BY <1>7
    DEF NodeStep, PutAnswer, PutRefused, PutTimeout, CleanupSend,
        DeleteRefused, DeleteTimeout
  <1>8. CASE Crash
    BY <1>8 DEF Crash
  <1> QED
    BY <1>1, <1>2, <1>3, <1>4, <1>5, <1>6, <1>7, <1>8
    DEF Next, WriteNext, vars

(* The put of v is decided in its favour.                                  *)
RowCommits(v) ==
    /\ objects[v].state = "PENDING" /\ objects'[v].state = "COMMITTED"
    /\ put[v].pc = "uploading" /\ put[v].left = {}
    /\ WriteSucceeds(put[v].acks)
    /\ \/ put'[v].pc = "ok" /\ objects'[v].replicas = put[v].acks
       \/ /\ "store" \in Faults /\ put'[v].pc = "unknown"
          /\ objects'[v].replicas = objects[v].replicas
    /\ UNCHANGED <<disk, rotted, wire>>

(* Its row as it was, or deleted if it was readable.                       *)
RowKept(v) ==
    /\ put[v].pc \notin {"idle", "uploading"} => put'[v].pc = put[v].pc
    /\ objects[v].state \in {"COMMITTED", "DELETED"} =>
           /\ objects'[v].replicas = objects[v].replicas
           /\ \/ objects'[v].state = objects[v].state
              \/ objects'[v].state = "DELETED"
    /\ objects[v].state \notin {"COMMITTED", "DELETED"} =>
           objects'[v].state \notin {"COMMITTED", "DELETED"}

LEMMA RowSteps ==
    ASSUME Consistent, [Next]_vars, NEW v \in Versions
    PROVE  RowKept(v) \/ RowCommits(v)
  <1>0. TypeOK
    BY DEF Consistent
  <1>1. ASSUME UNCHANGED objects,
               put[v].pc \notin {"idle", "uploading"} => put'[v].pc = put[v].pc
        PROVE  RowKept(v)
    BY <1>1 DEF RowKept
  <1>2. ASSUME NEW u \in Versions, Step(u) PROVE RowKept(v) \/ RowCommits(v)
    <2>1. ASSUME NEW cond \in Conditions, NEW ring \in Rings,
                 NEW healthy \in SUBSET ring, PutStart(u, cond, ring, healthy)
          PROVE  RowKept(v)
      <3>1. put[u].pc = "idle" /\ objects[u].state = "ABSENT"
        BY <2>1 DEF PutStart, Consistent, RowsFollowPuts
      <3>2. /\ u # v => objects'[v] = objects[v] /\ put'[v] = put[v]
            /\ u = v => objects'[v].state = "PENDING"
        BY <1>0, <2>1 DEF PutStart, PrepareObject, TypeOK
      <3> QED BY <3>1, <3>2 DEF RowKept
    <2>2. ASSUME NEW cond, NEW ring, NEW healthy,
                 PutReject(u, cond, ring, healthy)
          PROVE  RowKept(v)
      <3>1. /\ put[u].pc = "idle"
            /\ UNCHANGED objects
            /\ u # v => put'[v] = put[v]
        BY <1>0, <2>2 DEF PutReject, TypeOK
      <3> QED BY <3>1 DEF RowKept
    <2>3. ASSUME NEW ring, PutCommit(u, ring)
          PROVE  RowKept(v) \/ RowCommits(v)
      <3> DEFINE tab == CommitObject(objects, u)
      <3>1. /\ tab \in [Versions -> Row] /\ put[u].acks \in SUBSET Nodes
            /\ objects' = [tab EXCEPT ![u].replicas = put[u].acks]
        BY <1>0, <2>3, CatalogTypes
        DEF PutCommit, UpdateObjectReplicas, TypeOK, Put
      <3>2. /\ u # v => objects'[v] = tab[v]
            /\ objects'[u].state = tab[u].state
            /\ objects'[u].replicas = put[u].acks
        BY <3>1 DEF Row
      <3> HIDE DEF tab
      <3>3. /\ u # v => /\ tab[v].state = objects[v].state
                        /\ tab[v].replicas = objects[v].replicas
            /\ tab[u].state = "COMMITTED"
        BY <1>0, CommitTable DEF tab, TypeOK
      <3>4. /\ put[u].pc = "uploading" /\ put[u].left = {}
            /\ WriteSucceeds(put[u].acks)
            /\ put' = [put EXCEPT ![u] = Answered(@, "ok")]
            /\ UNCHANGED <<disk, rotted, wire>>
        BY <2>3 DEF PutCommit, UploadsDone
      <3>5. objects[u].state = "PENDING"
        BY <3>4 DEF Consistent, RowsFollowPuts
      <3>6. put'[u].pc = "ok" /\ (u # v => put'[v] = put[v])
        BY <1>0, <3>4 DEF Answered, TypeOK, Put
      <3>7. u # v => RowKept(v)
        BY <3>2, <3>3, <3>6 DEF RowKept
      <3>8. RowCommits(u)
        BY <3>2, <3>3, <3>4, <3>5, <3>6 DEF RowCommits
      <3> QED BY <3>7, <3>8
    <2>4. ASSUME NEW pc, UploadsDone(u), RollBack(u, pc)
          PROVE  RowKept(v)
      <3>1. put[u].pc = "uploading" /\ objects[u].state = "PENDING"
        BY <2>4 DEF UploadsDone, Consistent, RowsFollowPuts
      <3>2. /\ objects' = [objects EXCEPT ![u] = NoRow]
            /\ put' = [put EXCEPT ![u] = Answered(@, pc)]
        BY <2>4, <3>1 DEF RollBack, AbortObject
      <3> QED BY <1>0, <3>1, <3>2 DEF RowKept, NoRow, TypeOK
    <2>5. CASE PutStoreError(u)
      <3>1. /\ put[u].pc = "uploading" /\ put[u].left = {}
            /\ put' = [put EXCEPT ![u] = Answered(@, "unknown")]
            /\ "store" \in Faults
            /\ UNCHANGED <<disk, rotted, wire>>
        BY <2>5 DEF PutStoreError, UploadsDone
      <3>2. put'[u].pc = "unknown" /\ (u # v => put'[v] = put[v])
        BY <1>0, <3>1 DEF Answered, TypeOK, Put
      <3>3. objects[u].state = "PENDING"
        BY <3>1 DEF Consistent, RowsFollowPuts
      <3>4. CASE UNCHANGED objects
        BY <3>1, <3>2, <3>4 DEF RowKept
      <3>5. CASE /\ WriteSucceeds(put[u].acks)
                 /\ objects' = CommitObject(objects, u)
        <4>1. /\ u # v => /\ objects'[v].state = objects[v].state
                          /\ objects'[v].replicas = objects[v].replicas
              /\ objects'[u].state = "COMMITTED"
              /\ objects'[u].replicas = objects[u].replicas
          BY <1>0, <3>5, CommitTable DEF TypeOK
        <4>2. u # v => RowKept(v)
          BY <3>2, <4>1 DEF RowKept
        <4>3. RowCommits(u)
          BY <3>1, <3>2, <3>3, <3>5, <4>1 DEF RowCommits
        <4> QED BY <4>2, <4>3
      <3> QED BY <2>5, <3>4, <3>5 DEF PutStoreError
    <2>6. CASE DeleteObject(u)
      <3>1. /\ u # v => objects'[v] = objects[v]
            /\ objects'[u].state = "DELETED"
            /\ objects'[u].replicas = objects[u].replicas
            /\ objects[u].state = "COMMITTED"
            /\ UNCHANGED put
        BY <1>0, <2>6
        DEF DeleteObject, TombstoneObject, LatestRows, TypeOK, Row
      <3> QED BY <3>1 DEF RowKept
    <2>7. CASE DeleteDone(u)
      BY <2>7, <1>1 DEF DeleteDone
    <2> QED
      BY <1>2, <2>1, <2>2, <2>3, <2>4, <2>5, <2>6, <2>7
      DEF Step, PutFinish, PutQuorumError, PutPreconditionError
  <1>3. ASSUME NEW u \in Versions, NEW m \in Nodes, NodeStep(u, m)
        PROVE  RowKept(v)
    <2>1. UNCHANGED objects
      BY <1>3
      DEF NodeStep, PutAnswer, NodePut, NodePutNoSidecar, PutRefused,
          PutTimeout, CleanupSend, NodeDelete, DeleteRefused, DeleteTimeout,
          Corrupt
    <2>2. \/ UNCHANGED put
          \/ put' = [put EXCEPT ![u] = Acked(@, m)]
          \/ put' = [put EXCEPT ![u] = Returned(@, m)]
      BY <1>3
      DEF NodeStep, PutAnswer, NodePut, NodePutNoSidecar, PutRefused,
          PutTimeout, CleanupSend, NodeDelete, DeleteRefused, DeleteTimeout,
          Corrupt
    <2>3. put'[v].pc = put[v].pc
      BY <1>0, <2>2, PutAnswerFacts
    <2> QED BY <1>1, <2>1, <2>3
  <1>4. CASE Crash
    BY <1>1, <1>4 DEF Crash
  <1>5. CASE UNCHANGED vars
    BY <1>1, <1>5 DEF vars
  <1> QED BY <1>2, <1>3, <1>4, <1>5 DEF Next, WriteNext

(* A file that a quorum counts stays held as long as it may be read.       *)
LEMMA HeldKept ==
    ASSUME Consistent, [Next]_vars, NEW n \in Nodes, NEW v \in Versions,
           Held(n, v), ~ Dead(v)
    PROVE  Held(n, v)'
  <1>1. rotted \subseteq rotted'
    BY FileSteps
  <1>2. \/ disk'[n][v] = disk[n][v]
        \/ FileUploaded(n, v)
        \/ FileRots(n, v)
    BY FileSteps DEF FileDeleted
  <1> QED
    BY <1>1, <1>2, ContentAssumption
    DEF Held, Intact, HasFile, FileUploaded, FileRots

LEMMA RottedGrows ==
    ASSUME [Next]_vars
    PROVE  /\ rotted \subseteq rotted'
           /\ IsFiniteSet(rotted) => IsFiniteSet(rotted')
  <1>1. ASSUME NEW v \in Versions, NEW n \in Nodes, NodeStep(v, n)
        PROVE  UNCHANGED rotted \/ rotted' = rotted \cup {<<n, v>>}
    BY <1>1
    DEF NodeStep, PutAnswer, NodePut, NodePutNoSidecar, PutRefused,
        PutTimeout, CleanupSend, NodeDelete, DeleteRefused, DeleteTimeout,
        Corrupt
  <1>2. ASSUME NEW v \in Versions, Step(v) PROVE UNCHANGED rotted
    BY <1>2
    DEF Step, PutStart, PutReject, PutFinish, PutCommit, PutQuorumError,
        PutPreconditionError, RollBack, PutStoreError, DeleteObject, DeleteDone
  <1>3. CASE UNCHANGED vars \/ Crash
    BY <1>3 DEF vars, Crash
  <1> DEFINE Kept == /\ rotted \subseteq rotted'
                     /\ IsFiniteSet(rotted) => IsFiniteSet(rotted')
  <1>4. ASSUME NEW x, rotted' = rotted \cup {x} PROVE Kept
    BY <1>4, FS_AddElement
  <1>5. ASSUME UNCHANGED rotted PROVE Kept
    BY <1>5
  <1> HIDE DEF Kept
  <1>6. ASSUME NEW v \in Versions, NEW n \in Nodes, NodeStep(v, n)
        PROVE  Kept
    BY <1>1, <1>4, <1>5, <1>6
  <1>7. ASSUME NEW v \in Versions, Step(v) PROVE Kept
    BY <1>2, <1>5, <1>7
  <1>8. CASE UNCHANGED vars \/ Crash
    BY <1>3, <1>5, <1>8
  <1> QED BY <1>6, <1>7, <1>8 DEF Next, WriteNext, Kept

(* As long as the nodes answer, an upload loses track of no replica.       *)
LEMMA UploadsKept ==
    ASSUME Consistent, [Next]_vars, Faults \subseteq {"store"},
           NEW v \in Versions, put'[v].pc = "uploading"
    PROVE  \/ /\ put[v].pc = "uploading"
              /\ objects'[v].replicas = objects[v].replicas
              /\ put'[v].left \cup put'[v].acks = put[v].left \cup put[v].acks
           \/ objects'[v].replicas = put'[v].left
  <1> DEFINE Kept == /\ put[v].pc = "uploading"
                     /\ objects'[v].replicas = objects[v].replicas
                     /\ put'[v].left \cup put'[v].acks
                           = put[v].left \cup put[v].acks
  <1>0. TypeOK
    BY DEF Consistent
  <1>1. ASSUME NEW cond, NEW ring, NEW healthy, NEW u \in Versions,
               PutStart(u, cond, ring, healthy)
        PROVE  Kept \/ objects'[v].replicas = put'[v].left
    <2>1. CASE u = v
      BY <1>0, <1>1, <2>1 DEF PutStart, PrepareObject, TypeOK
    <2>2. CASE u # v
      BY <1>0, <1>1, <2>2 DEF PutStart, PrepareObject, TypeOK
    <2> QED BY <2>1, <2>2
  <1>2. ASSUME NEW u \in Versions, NEW pc \in PutStates \ {"uploading"},
               put' = [put EXCEPT ![u] = Answered(@, pc)]
        PROVE  u # v /\ put'[v] = put[v]
    BY <1>0, <1>2 DEF Answered, TypeOK, Put
  <1>3. ASSUME NEW u \in Versions, Step(u)
        PROVE  Kept \/ objects'[v].replicas = put'[v].left
    <2>1. ASSUME NEW cond, NEW ring, NEW healthy,
                 PutReject(u, cond, ring, healthy)
          PROVE  Kept
      <3>1. u # v
        BY <1>0, <2>1 DEF PutReject, TypeOK, Put
      <3> QED BY <1>0, <2>1, <3>1 DEF PutReject, TypeOK
    <2>2. ASSUME NEW ring, PutCommit(u, ring) PROVE Kept
      <3>1. u # v /\ put'[v] = put[v]
        BY <1>2, <2>2 DEF PutCommit, PutStates
      <3>2. objects'[v] = CommitObject(objects, u)[v]
        BY <3>1, <2>2 DEF PutCommit, UpdateObjectReplicas, CommitObject
      <3> QED BY <1>0, <3>1, <3>2, CommitTable DEF TypeOK
    <2>3. ASSUME NEW pc \in {"quorum", "precondition"}, RollBack(u, pc)
          PROVE  Kept
      <3>1. u # v /\ put'[v] = put[v]
        BY <1>2, <2>3 DEF RollBack, PutStates
      <3>2. objects'[v] = objects[v]
        BY <1>0, <2>3, <3>1 DEF RollBack, AbortObject, TypeOK
      <3> QED BY <3>1, <3>2
    <2>4. CASE PutStoreError(u)
      <3>1. u # v /\ put'[v] = put[v]
        BY <1>2, <2>4 DEF PutStoreError, PutStates
      <3>2. UNCHANGED objects \/ objects' = CommitObject(objects, u)
        BY <2>4 DEF PutStoreError
      <3> QED BY <1>0, <3>1, <3>2, CommitTable DEF TypeOK
    <2>5. CASE DeleteObject(u)
      BY <1>0, <2>5 DEF DeleteObject, TombstoneObject, TypeOK, Row
    <2>6. CASE DeleteDone(u)
      BY <2>6 DEF DeleteDone
    <2> QED
      BY <1>1, <1>3, <2>1, <2>2, <2>3, <2>4, <2>5, <2>6
      DEF Step, PutFinish, PutQuorumError, PutPreconditionError
  <1>4. ASSUME NEW u \in Versions, NEW n \in Nodes, NodeStep(u, n)
        PROVE  Kept
    <2>1. /\ UNCHANGED objects
          /\ UNCHANGED put \/ put' = [put EXCEPT ![u] = Acked(@, n)]
      BY <1>4
      DEF NodeStep, PutAnswer, NodePut, NodePutNoSidecar, PutRefused,
          PutTimeout, CleanupSend, NodeDelete, DeleteRefused, DeleteTimeout,
          Corrupt
    <2>2. \A p \in Put : /\ Acked(p, n).pc = p.pc
                         /\ Acked(p, n).left \cup Acked(p, n).acks
                               = p.left \cup p.acks
      BY DEF Acked, Put
    <2> QED BY <1>0, <2>1, <2>2 DEF TypeOK
  <1>5. ~ Crash
    <2> SUFFICES ASSUME Crash PROVE FALSE OBVIOUS
    <2>1. put'[v] = IF put[v].pc = "uploading"
                    THEN Answered(put[v], "unknown") ELSE put[v]
      BY DEF Crash
    <2>2. Answered(put[v], "unknown").pc = "unknown"
      BY <1>0 DEF Answered, TypeOK, Put
    <2> QED BY <2>1, <2>2
  <1>6. CASE UNCHANGED vars
    BY <1>6 DEF vars
  <1> QED BY <1>3, <1>4, <1>5, <1>6 DEF Next, WriteNext

LEMMA NextIInv == IInv /\ [Next]_vars => IInv'
  <1> SUFFICES ASSUME IInv, [Next]_vars PROVE IInv' OBVIOUS
  <1>0. Consistent /\ TypeOK
    BY DEF IInv, Consistent
  <1>1. Consistent'
    BY <1>0, NextConsistent
  <1>2. ASSUME NEW v \in Versions, objects'[v].state = "COMMITTED"
        PROVE  HeldByQuorum(v)'
    <2>1. CASE RowKept(v)
      <3>1. /\ objects[v].state = "COMMITTED"
            /\ objects'[v].replicas = objects[v].replicas
        BY <1>2, <2>1 DEF RowKept
      <3>2. \A n \in objects[v].replicas : Held(n, v) => Held(n, v)'
        BY <1>0, <3>1, HeldKept DEF Dead, TypeOK, Row
      <3> QED BY <3>1, <3>2, QuorumKept DEF IInv, QuorumHolds
    <2>2. CASE RowCommits(v)
      <3>1. put[v].acks \subseteq objects'[v].replicas
        BY <1>0, <2>2 DEF RowCommits, Consistent, AcksHold
      <3>2. \A n \in put[v].acks : Held(n, v)'
        BY <1>0, <2>2, SameHeld DEF RowCommits, Consistent, AcksHold
      <3> QED BY <2>2, <3>1, <3>2 DEF HeldByQuorum, RowCommits
    <2> QED BY <1>0, <2>1, <2>2, RowSteps
  <1> QED BY <1>1, <1>2 DEF IInv, QuorumHolds

(* The inductive invariant of the write path.                              *)
THEOREM Invariance == Spec => []IInv
  BY InitIInv, NextIInv, PTL DEF Spec

LEMMA Consistency == Spec => []Consistent
  <1>1. IInv => Consistent
    BY DEF IInv
  <1> QED BY <1>1, Invariance, PTL

-----------------------------------------------------------------------------
(* The safety properties.                                                  *)

LEMMA LargerQuorum ==
    ASSUME NEW S \in SUBSET Nodes, NEW T \in SUBSET Nodes,
           S \subseteq T, WriteSucceeds(S)
    PROVE  WriteSucceeds(T)
  <1>1. IsFiniteSet(T) /\ IsFiniteSet(S)
    BY FS_Subset, NodesAssumption
  <1>2. Cardinality(S) <= Cardinality(T)
    BY <1>1, FS_Subset
  <1>3. Cardinality(S) \in Nat /\ Cardinality(T) \in Nat
    BY <1>1, FS_CardinalityType
  <1> QED BY <1>2, <1>3, QuorumAssumption DEF WriteSucceeds

LEMMA QuorumCounted == IInv => CommittedDurable
  <1> SUFFICES ASSUME IInv, NEW v \in Versions,
                      objects[v].state = "COMMITTED"
               PROVE  Cardinality({n \in objects[v].replicas : Held(n, v)}) >= W
    BY DEF CommittedDurable
  <1>1. PICK S \in SUBSET objects[v].replicas :
            WriteSucceeds(S) /\ \A n \in S : Held(n, v)
    BY DEF IInv, QuorumHolds, HeldByQuorum
  <1>2. objects[v].replicas \subseteq Nodes
    BY DEF IInv, Consistent, TypeOK, Row
  <1>3. WriteSucceeds({n \in objects[v].replicas : Held(n, v)})
    BY <1>1, <1>2, LargerQuorum
  <1> QED BY <1>3 DEF WriteSucceeds

(* Whatever the nodes, the network and the engine's restarts do, a version *)
(* that can be read is held by W of the replicas that its row lists.       *)
THEOREM Durability == Spec => []CommittedDurable
  BY QuorumCounted, Invariance, PTL

(* An object never has two latest rows, whatever uploads and deletions     *)
(* race for it, and no other row is marked latest.                         *)
THEOREM SingleLatest == Spec => []OneLatest
  <1>1. Consistent => OneLatest
    <2> SUFFICES ASSUME Consistent PROVE OneLatest OBVIOUS
    <2>1. ASSUME NEW k \in Keys PROVE Cardinality(LatestRows(objects, k)) <= 1
      <3>1. \A u, v \in LatestRows(objects, k) : u = v
        BY DEF LatestRows, Consistent, LatestUnique
      <3>2. CASE LatestRows(objects, k) = {}
        BY <3>2, FS_EmptySet
      <3>3. ASSUME NEW v \in LatestRows(objects, k)
            PROVE  Cardinality(LatestRows(objects, k)) = 1
        <4>1. LatestRows(objects, k) = {v}
          BY <3>1, <3>3
        <4> QED BY <4>1, FS_Singleton
      <3> QED BY <3>2, <3>3
    <2>2. \A v \in Versions :
              objects[v].latest => objects[v].state = "COMMITTED"
      BY DEF Consistent, LatestUnique
    <2> QED BY <2>1, <2>2 DEF OneLatest
  <1> QED BY <1>1, Consistency, PTL

(* An error that put_object raises on purpose means that the version is    *)
(* not and never was in the table; a 201 means that it is.                 *)
THEOREM Truthful == Spec => []AnswersTruthful
  <1>1. Consistent => AnswersTruthful
    BY DEF Consistent, RowsFollowPuts, AnswersTruthful
  <1> QED BY <1>1, Consistency, PTL

-----------------------------------------------------------------------------
(* A put that fails leaves no blob, when the nodes answer and the engine   *)
(* stays up.                                                               *)

(* A step that decides no put but those it answers, and forgets no blob.   *)
LEMMA TrackedKept ==
    ASSUME NEW v \in Versions, NEW n \in Nodes, Tracked(v, n),
           put'[v] = put[v],
           cleanup'[v] = cleanup[v],
           PutCall(v, n) \in wire' => PutCall(v, n) \in wire,
           DeleteCall(v, n) \in wire => DeleteCall(v, n) \in wire',
           HasFile(disk, n, v)' => HasFile(disk, n, v)
    PROVE  Tracked(v, n)'
  BY DEF Tracked, PutCall, DeleteCall

LEMMA CallsApart ==
    ASSUME NEW u, NEW v, NEW m, NEW n, NEW S
    PROVE  /\ PutCall(v, n) # DeleteCall(u, m)
           /\ PutCall(v, n) = PutCall(u, m) <=> v = u /\ n = m
           /\ DeleteCall(v, n) = DeleteCall(u, m) <=> v = u /\ n = m
           /\ PutCall(v, n) \in CallsTo("PUT", u, S) <=> v = u /\ n \in S
           /\ DeleteCall(v, n) \in CallsTo("DELETE", u, S) <=> v = u /\ n \in S
           /\ PutCall(v, n) \notin CallsTo("DELETE", u, S)
           /\ DeleteCall(v, n) \notin CallsTo("PUT", u, S)
  BY DEF PutCall, DeleteCall, CallsTo

LEMMA StepTracked ==
    ASSUME TypeOK, UploadsTracked, NEW u \in Versions, Step(u),
           NEW v \in Versions, NEW n \in Nodes
    PROVE  Tracked(v, n)'
  <1>0. Tracked(v, n) /\ UNCHANGED disk
    BY DEF UploadsTracked, Step, PutStart, PutReject, PutFinish, PutCommit,
           PutQuorumError, PutPreconditionError, RollBack, PutStoreError,
           DeleteObject, DeleteDone
  <1>00. HasFile(disk, n, v)' <=> HasFile(disk, n, v)
    BY <1>0 DEF HasFile
  <1>1. ASSUME NEW cond, NEW ring, NEW healthy, PutStart(u, cond, ring, healthy)
        PROVE  Tracked(v, n)'
    <2> DEFINE targets == PutTargets(u, ring, healthy)
    <2> HIDE DEF targets
    <2>1. /\ put[u].pc = "idle"
          /\ wire' = wire \cup CallsTo("PUT", u, targets)
          /\ put' = [put EXCEPT ![u] = [pc |-> "uploading", cond |-> cond,
                                        left |-> targets, acks |-> {}]]
          /\ UNCHANGED cleanup
      BY <1>1 DEF PutStart, targets
    <2>2. CASE u = v
      <3>1. put'[v].pc = "uploading" /\ put'[v].left = targets
        BY <2>1, <2>2 DEF TypeOK
      <3>2. ~ HasFile(disk, n, v)' /\ PutCall(v, n) \notin wire
        BY <1>0, <1>00, <2>1, <2>2 DEF Tracked
      <3>3. PutCall(v, n) \in wire' => n \in targets
        BY <2>1, <3>2, CallsApart
      <3> QED BY <3>1, <3>2, <3>3 DEF Tracked, PutCall
    <2>3. CASE u # v
      <3>1. put'[v] = put[v]
        BY <2>1, <2>3 DEF TypeOK
      <3> QED BY <1>0, <1>00, <2>1, <2>3, <3>1, CallsApart, TrackedKept
    <2> QED BY <2>2, <2>3
  <1>2. ASSUME NEW cond, NEW ring, NEW healthy, PutReject(u, cond, ring, healthy)
        PROVE  Tracked(v, n)'
    <2>1. put[u].pc = "idle" /\ UNCHANGED <<wire, cleanup>>
      BY <1>2 DEF PutReject
    <2>2. CASE u = v
      <3>1. ~ HasFile(disk, n, v)' /\ PutCall(v, n) \notin wire
        BY <1>0, <1>00, <2>1, <2>2 DEF Tracked
      <3> QED BY <2>1, <3>1 DEF Tracked, PutCall
    <2>3. CASE u # v
      <3>1. put'[v] = put[v]
        BY <1>2, <2>3 DEF TypeOK, PutReject
      <3> QED BY <1>0, <1>00, <2>1, <3>1, TrackedKept
    <2> QED BY <2>2, <2>3
  <1>3. ASSUME NEW pc, UploadsDone(u), put' = [put EXCEPT ![u] = Answered(@, pc)],
               UNCHANGED wire,
               \/ pc \in {"ok", "unknown"} /\ UNCHANGED cleanup
               \/ pc \in {"quorum", "precondition"}
                  /\ cleanup' = [cleanup EXCEPT ![u] = put[u].acks]
        PROVE  Tracked(v, n)'
    <2>1. put[u].pc = "uploading" /\ put[u].left = {}
      BY <1>3 DEF UploadsDone
    <2>2. CASE u = v
      <3>1. PutCall(v, n) \notin wire
        BY <1>0, <2>1, <2>2 DEF Tracked
      <3>2. put'[v].pc = pc
        BY <1>3, <2>2 DEF TypeOK, Put, Answered
      <3>3. HasFile(disk, n, v)' => n \in put[v].acks
        BY <1>0, <1>00, <2>1, <2>2 DEF Tracked
      <3>4. pc \in {"quorum", "precondition"} => cleanup'[v] = put[v].acks
        BY <1>3, <2>2 DEF TypeOK
      <3> QED BY <1>3, <3>1, <3>2, <3>3, <3>4 DEF Tracked, PutCall
    <2>3. CASE u # v
      <3>1. put'[v] = put[v] /\ cleanup'[v] = cleanup[v]
        BY <1>3, <2>3 DEF TypeOK
      <3> QED BY <1>0, <1>00, <1>3, <3>1, TrackedKept
    <2> QED BY <2>2, <2>3
  <1>4. CASE PutFinish(u) \/ PutStoreError(u)
    BY <1>3, <1>4
    DEF PutFinish, PutCommit, PutQuorumError, PutPreconditionError, RollBack,
        PutStoreError, UploadsDone
  <1>5. CASE DeleteObject(u)
    <2>1. /\ wire' = wire \cup CallsTo("DELETE", u, objects[u].replicas)
          /\ UNCHANGED <<put, cleanup>>
      BY <1>5 DEF DeleteObject
    <2> QED BY <1>0, <1>00, <2>1, CallsApart, TrackedKept
  <1>6. CASE DeleteDone(u)
    BY <1>0, <1>00, <1>6, TrackedKept DEF DeleteDone
  <1> QED BY <1>1, <1>2, <1>4, <1>5, <1>6 DEF Step

LEMMA NodeStepTracked ==
    ASSUME TypeOK, UploadsTracked,
           Faults \cap {"timeout", "offline", "sidecar"} = {},
           NEW u \in Versions, NEW m \in Nodes, NodeStep(u, m),
           NEW v \in Versions, NEW n \in Nodes
    PROVE  Tracked(v, n)'
  <1>0. Tracked(v, n) /\ put[v] \in Put
    BY DEF UploadsTracked, TypeOK
  <1>1. CASE NodePut(u, m)
    <2>1. /\ PutCall(u, m) \in wire /\ wire' = wire \ {PutCall(u, m)}
          /\ disk' = WriteBlob(disk, m, u, ContentOf[u])
          /\ put' = [put EXCEPT ![u] = Acked(@, m)]
          /\ UNCHANGED cleanup
      BY <1>1 DEF NodePut
    <2>2. PutCall(v, n) \in wire' => PutCall(v, n) \in wire /\ ~ (u = v /\ m = n)
      BY <2>1, CallsApart
    <2>3. DeleteCall(v, n) \in wire => DeleteCall(v, n) \in wire'
      BY <2>1, CallsApart
    <2>4. ~ (u = v /\ m = n) => (HasFile(disk, n, v)' <=> HasFile(disk, n, v))
      BY <2>1 DEF HasFile, WriteBlob, TypeOK
    <2>5. CASE u = v
      <3>1. put[v].pc = "uploading" /\ m \in put[v].left
        BY <2>1, <2>5 DEF UploadsTracked, Tracked
      <3>2. put'[v] = [put[v] EXCEPT !.left = @ \ {m}, !.acks = @ \cup {m}]
        BY <2>1, <2>5, <3>1 DEF Acked, TypeOK
      <3>3. /\ put'[v].pc = "uploading" /\ put'[v].left = put[v].left \ {m}
            /\ put'[v].acks = put[v].acks \cup {m}
        BY <1>0, <3>1, <3>2 DEF Put
      <3> QED
        BY <1>0, <2>2, <2>4, <2>5, <3>1, <3>3 DEF Tracked, PutCall, DeleteCall
    <2>6. CASE u # v
      <3>1. put'[v] = put[v]
        BY <2>1, <2>6 DEF TypeOK
      <3> QED BY <1>0, <2>1, <2>2, <2>3, <2>4, <2>6, <3>1, TrackedKept
    <2> QED BY <2>5, <2>6
  <1>2. CASE PutRefused(u, m)
    <2>1. /\ PutCall(u, m) \in wire /\ wire' = wire \ {PutCall(u, m)}
          /\ put' = [put EXCEPT ![u] = Returned(@, m)]
          /\ UNCHANGED <<disk, cleanup>>
      BY <1>2 DEF PutRefused
    <2>2. PutCall(v, n) \in wire' => PutCall(v, n) \in wire /\ ~ (u = v /\ m = n)
      BY <2>1, CallsApart
    <2>3. DeleteCall(v, n) \in wire => DeleteCall(v, n) \in wire'
      BY <2>1, CallsApart
    <2>4. HasFile(disk, n, v)' <=> HasFile(disk, n, v)
      BY <2>1 DEF HasFile
    <2>5. CASE u = v
      <3>1. /\ put'[v].pc = put[v].pc /\ put'[v].left = put[v].left \ {m}
            /\ put'[v].acks = put[v].acks
        BY <1>0, <2>1, <2>5 DEF Returned, TypeOK, Put
      <3> QED
        BY <1>0, <2>1, <2>2, <2>3, <2>4, <2>5, <3>1
        DEF Tracked, PutCall, DeleteCall
    <2>6. CASE u # v
      <3>1. put'[v] = put[v]
        BY <2>1, <2>6 DEF TypeOK
      <3> QED BY <1>0, <2>1, <2>2, <2>3, <2>4, <3>1, TrackedKept
    <2> QED BY <2>5, <2>6
  <1>3. CASE CleanupSend(u, m)
    <2>1. /\ cleanup' = [cleanup EXCEPT ![u] = @ \ {m}]
          /\ wire' = wire \cup CallsTo("DELETE", u, {m})
          /\ UNCHANGED <<disk, put>>
      BY <1>3 DEF CleanupSend
    <2>2. PutCall(v, n) \in wire' => PutCall(v, n) \in wire
      BY <2>1, CallsApart
    <2>3. /\ DeleteCall(v, n) \in wire => DeleteCall(v, n) \in wire'
          /\ u = v /\ m = n => DeleteCall(v, n) \in wire'
      BY <2>1, CallsApart
    <2>4. n \in cleanup[v] => n \in cleanup'[v] \/ (u = v /\ m = n)
      BY <2>1 DEF TypeOK
    <2> QED
      BY <1>0, <2>1, <2>2, <2>3, <2>4
      DEF Tracked, PutCall, DeleteCall, HasFile
  <1>4. CASE NodeDelete(u, m)
    <2>1. /\ wire' = wire \ {DeleteCall(u, m)}
          /\ disk' = RemoveBlob(disk, m, u)
          /\ UNCHANGED <<put, cleanup>>
      BY <1>4 DEF NodeDelete
    <2>2. PutCall(v, n) \in wire' => PutCall(v, n) \in wire
      BY <2>1
    <2>3. ~ (u = v /\ m = n) =>
              (DeleteCall(v, n) \in wire => DeleteCall(v, n) \in wire')
      BY <2>1, CallsApart
    <2>4. HasFile(disk, n, v)' => HasFile(disk, n, v) /\ ~ (u = v /\ m = n)
      BY <2>1 DEF RemoveBlob, HasFile, Nothing, TypeOK
    <2> QED
      BY <1>0, <2>1, <2>2, <2>3, <2>4 DEF Tracked, PutCall, DeleteCall
  <1>5. CASE Corrupt(u, m)
    <2>1. HasFile(disk, n, v)' => HasFile(disk, n, v)
      BY <1>5 DEF Corrupt, RotBlob, HasFile, TypeOK
    <2> QED BY <1>0, <1>5, <2>1, TrackedKept DEF Corrupt
  <1>6. NodePut(u, m) \/ PutRefused(u, m) \/ CleanupSend(u, m)
        \/ NodeDelete(u, m) \/ Corrupt(u, m)
    BY DEF NodeStep, PutAnswer, NodePutNoSidecar, PutTimeout, DeleteRefused,
           DeleteTimeout
  <1> QED BY <1>1, <1>2, <1>3, <1>4, <1>5, <1>6

LEMMA NextTracked ==
    ASSUME TypeOK, UploadsTracked, [Next]_vars,
           Faults \cap {"timeout", "offline", "sidecar"} = {}, MaxCrashes = 0
    PROVE  UploadsTracked'
  <1> SUFFICES ASSUME NEW v \in Versions, NEW n \in Nodes PROVE Tracked(v, n)'
    BY DEF UploadsTracked
  <1>1. CASE UNCHANGED vars
    BY <1>1, TrackedKept DEF vars, UploadsTracked, HasFile
  <1>2. ~ Crash
    BY DEF Crash, TypeOK
  <1> QED BY <1>1, <1>2, StepTracked, NodeStepTracked DEF Next, WriteNext

(* README's promise that a write which misses its quorum is rolled back:   *)
(* as long as the nodes answer, whatever they answer, and the engine is    *)
(* not restarted, no node has the blob of a refused put once the cleanup   *)
(* that put_object started is over.                                        *)
THEOREM RolledBack ==
    ASSUME Faults \cap {"timeout", "offline", "sidecar"} = {}, MaxCrashes = 0
    PROVE  Spec => []FailedPutLeavesNothing
  <1>1. Init => UploadsTracked
    BY DEF Init, UploadsTracked, Tracked, EmptyDisks, HasFile, Nothing
  <1>2. TypeOK /\ UploadsTracked /\ [Next]_vars => UploadsTracked'
    BY NextTracked
  <1>3. UploadsTracked => FailedPutLeavesNothing
    <2> SUFFICES ASSUME UploadsTracked, NEW v \in Versions,
                        put[v].pc \in {"quorum", "precondition"}, Settled(v),
                        NEW n \in Nodes
                 PROVE  ~ HasFile(disk, n, v)
      BY DEF FailedPutLeavesNothing
    <2>1. n \notin cleanup[v] /\ DeleteCall(v, n) \notin wire
      BY DEF Settled, DeleteCall
    <2> QED BY <2>1 DEF UploadsTracked, Tracked
  <1> QED BY <1>1, <1>2, <1>3, Typing, PTL DEF Spec

-----------------------------------------------------------------------------
(* No upload is on its way to a replica of a decided row.                  *)

LEMMA UploadSteps ==
    ASSUME TypeOK, [Next]_vars, NEW v \in Versions, NEW n \in Nodes,
           PutCall(v, n) \in wire => put[v].pc # "idle",
           PutCall(v, n) \in wire'
    PROVE  \/ /\ put'[v].pc = "uploading"
              /\ n \in put'[v].left /\ put'[v].acks = {}
           \/ /\ PutCall(v, n) \in wire
              /\ put'[v].pc # "idle"
              /\ n \in put'[v].acks => n \in put[v].acks
              /\ put'[v].pc = "uploading" =>
                     /\ put[v].pc = "uploading"
                     /\ n \in put[v].left =>
                            n \in put'[v].left \/ "timeout" \in Faults
  <1> DEFINE Starts == /\ put'[v].pc = "uploading"
                       /\ n \in put'[v].left /\ put'[v].acks = {}
             Stays ==
                 /\ PutCall(v, n) \in wire
                 /\ put'[v].pc # "idle"
                 /\ n \in put'[v].acks => n \in put[v].acks
                 /\ put'[v].pc = "uploading" =>
                        /\ put[v].pc = "uploading"
                        /\ n \in put[v].left =>
                               n \in put'[v].left \/ "timeout" \in Faults
  <1>0. put[v] \in Put
    BY DEF TypeOK
  <1>1. ASSUME put'[v] = put[v], PutCall(v, n) \in wire PROVE Stays
    BY <1>1
  <1>2. ASSUME NEW u \in Versions, NEW pc \in PutStates \ {"idle", "uploading"},
               put' = [put EXCEPT ![u] = Answered(@, pc)], UNCHANGED wire
        PROVE  Stays
    <2>1. CASE u = v
      <3>1. put'[v].pc = pc /\ put'[v].acks = {}
        BY <1>0, <1>2, <2>1 DEF TypeOK, Put, Answered
      <3> QED BY <1>2, <3>1
    <2>2. CASE u # v
      BY <1>1, <1>2, <2>2 DEF TypeOK
    <2> QED BY <2>1, <2>2
  <1>3. ASSUME NEW u \in Versions, NEW cond, NEW ring, NEW healthy,
               PutStart(u, cond, ring, healthy)
        PROVE  Starts \/ Stays
    <2> DEFINE targets == PutTargets(u, ring, healthy)
    <2> HIDE DEF targets
    <2>1. /\ put[u].pc = "idle"
          /\ wire' = wire \cup CallsTo("PUT", u, targets)
          /\ put' = [put EXCEPT ![u] = [pc |-> "uploading", cond |-> cond,
                                        left |-> targets, acks |-> {}]]
      BY <1>3 DEF PutStart, targets
    <2>2. CASE u = v
      <3>1. n \in targets
        BY <2>1, <2>2, CallsApart
      <3> QED BY <2>1, <2>2, <3>1 DEF TypeOK
    <2>3. CASE u # v
      <3>1. PutCall(v, n) \in wire /\ put'[v] = put[v]
        BY <2>1, <2>3, CallsApart DEF TypeOK
      <3> QED BY <1>1, <3>1
    <2> QED BY <2>2, <2>3
  <1>4. ASSUME NEW u \in Versions, NEW cond, NEW ring, NEW healthy,
               PutReject(u, cond, ring, healthy)
        PROVE  Stays
    <2>1. u # v /\ PutCall(v, n) \in wire
      BY <1>4 DEF PutReject
    <2> QED BY <1>1, <1>4, <2>1 DEF PutReject, TypeOK
  <1>5. ASSUME NEW u \in Versions, PutFinish(u) \/ PutStoreError(u) PROVE Stays
    BY <1>2, <1>5
    DEF PutFinish, PutCommit, PutQuorumError, PutPreconditionError, RollBack,
        PutStoreError, PutStates
  <1>6. ASSUME NEW u \in Versions, DeleteObject(u) \/ DeleteDone(u)
        PROVE  Stays
    <2>1. UNCHANGED put /\ PutCall(v, n) \in wire
      BY <1>6, CallsApart DEF DeleteObject, DeleteDone
    <2> QED BY <1>1, <2>1
  <1>7. ASSUME NEW u \in Versions, Step(u) PROVE Starts \/ Stays
    BY <1>3, <1>4, <1>5, <1>6, <1>7 DEF Step
  <1>8. ASSUME NEW u \in Versions, NEW m \in Nodes, PutAnswer(u, m) PROVE Stays
    <2>1. /\ wire' = wire \ {PutCall(u, m)}
          /\ \/ put' = [put EXCEPT ![u] = Acked(@, m)]
             \/ put' = [put EXCEPT ![u] = Returned(@, m)]
      BY <1>8 DEF PutAnswer, NodePut, NodePutNoSidecar, PutRefused
    <2>2. PutCall(v, n) \in wire /\ ~ (u = v /\ m = n)
      BY <2>1, CallsApart
    <2>3. CASE u # v
      BY <1>1, <2>1, <2>2, <2>3 DEF TypeOK
    <2>4. CASE u = v
      <3>1. put'[v] = Acked(put[v], m) \/ put'[v] = Returned(put[v], m)
        BY <2>1, <2>4 DEF TypeOK
      <3>2. /\ put'[v].pc = put[v].pc
            /\ n \in put'[v].acks => n \in put[v].acks
            /\ n \in put[v].left => n \in put'[v].left
        <4>1. m # n
          BY <2>2, <2>4
        <4>2. CASE put'[v] = Returned(put[v], m)
          BY <1>0, <4>1, <4>2 DEF Returned, Put
        <4>3. CASE put'[v] = Acked(put[v], m)
          BY <1>0, <4>1, <4>3 DEF Acked, Put
        <4> QED BY <3>1, <4>2, <4>3
      <3> QED BY <2>2, <3>2
    <2> QED BY <2>3, <2>4
  <1>9. ASSUME NEW u \in Versions, NEW m \in Nodes, PutTimeout(u, m) PROVE Stays
    <2>1. /\ put' = [put EXCEPT ![u] = Returned(@, m)]
          /\ "timeout" \in Faults /\ PutCall(v, n) \in wire
      BY <1>9 DEF PutTimeout
    <2>2. CASE u # v
      BY <1>1, <2>1, <2>2 DEF TypeOK
    <2>3. CASE u = v
      <3>1. put'[v].pc = put[v].pc /\ put'[v].acks = put[v].acks
        BY <1>0, <2>1, <2>3 DEF TypeOK, Returned, Put
      <3> QED BY <2>1, <3>1
    <2> QED BY <2>2, <2>3
  <1>10. ASSUME NEW u \in Versions, NEW m \in Nodes, NodeStep(u, m) PROVE Stays
    <2>1. ASSUME ~ PutAnswer(u, m), ~ PutTimeout(u, m)
          PROVE  UNCHANGED put /\ PutCall(v, n) \in wire
      BY <1>10, <2>1, CallsApart
      DEF NodeStep, CleanupSend, NodeDelete, DeleteRefused, DeleteTimeout,
          Corrupt
    <2> QED BY <1>1, <1>8, <1>9, <2>1
  <1>11. ASSUME Crash PROVE Stays
    <2>1. /\ PutCall(v, n) \in wire
          /\ put'[v] = IF put[v].pc = "uploading"
                       THEN Answered(put[v], "unknown") ELSE put[v]
      BY <1>11 DEF Crash
    <2>2. /\ Answered(put[v], "unknown").pc = "unknown"
          /\ Answered(put[v], "unknown").acks = {}
      BY <1>0 DEF Answered, Put
    <2> QED BY <2>1, <2>2
  <1>12. ASSUME UNCHANGED vars PROVE Stays
    BY <1>1, <1>12 DEF vars
  <1> QED BY <1>7, <1>10, <1>11, <1>12 DEF Next, WriteNext

LEMMA InitUploadsOver == Init => UploadsOver
  BY DEF Init, UploadsOver

LEMMA NextUploadsOver ==
    ASSUME Consistent, UploadsOver, [Next]_vars,
           "timeout" \notin Faults \/ "store" \notin Faults
    PROVE  UploadsOver'
  <1> SUFFICES ASSUME NEW v \in Versions, NEW n \in Nodes,
                      PutCall(v, n) \in wire'
               PROVE  /\ put'[v].pc # "idle" /\ n \notin put'[v].acks
                      /\ put'[v].pc = "uploading" =>
                             n \in put'[v].left \/ "timeout" \in Faults
                      /\ objects'[v].state \in {"COMMITTED", "DELETED"} =>
                             n \notin objects'[v].replicas
    BY DEF UploadsOver, PutCall
  <1>0. TypeOK /\ Consistent'
    BY NextConsistent DEF Consistent
  <1>1. PutCall(v, n) \in wire =>
            /\ put[v].pc # "idle" /\ n \notin put[v].acks
            /\ put[v].pc = "uploading" =>
                   n \in put[v].left \/ "timeout" \in Faults
            /\ objects[v].state \in {"COMMITTED", "DELETED"} =>
                   n \notin objects[v].replicas
    BY DEF UploadsOver
  <1>2. CASE /\ put'[v].pc = "uploading"
             /\ n \in put'[v].left /\ put'[v].acks = {}
    <2>1. objects'[v].state = "PENDING"
      BY <1>0, <1>2 DEF Consistent, RowsFollowPuts
    <2> QED BY <1>2, <2>1
  <1>3. CASE /\ PutCall(v, n) \in wire
             /\ put'[v].pc # "idle"
             /\ n \in put'[v].acks => n \in put[v].acks
             /\ put'[v].pc = "uploading" =>
                    /\ put[v].pc = "uploading"
                    /\ n \in put[v].left =>
                           n \in put'[v].left \/ "timeout" \in Faults
    <2>1. ASSUME objects'[v].state \in {"COMMITTED", "DELETED"}
          PROVE  n \notin objects'[v].replicas
      <3>1. CASE RowKept(v)
        BY <1>1, <1>3, <2>1, <3>1 DEF RowKept
      <3>2. CASE RowCommits(v)
        BY <1>1, <1>3, <3>2 DEF RowCommits
      <3> QED BY <3>1, <3>2, RowSteps
    <2> QED BY <1>1, <1>3, <2>1
  <1> QED BY <1>0, <1>1, <1>2, <1>3, UploadSteps

-----------------------------------------------------------------------------
(* The engine implements a register per object.                            *)

Current == [k \in Keys |-> CurrentVersion(k)]
Status  == [v \in Versions |-> UploadStatus(v)]
Wants   == [v \in Versions |-> put[v].cond]

LEMMA CurrentIsLatest ==
    ASSUME Consistent, NEW v \in Versions, objects[v].latest
    PROVE  CurrentVersion(KeyOf[v]) = v
  <1>1. LatestRows(objects, KeyOf[v]) = {v}
    BY DEF LatestRows, Consistent, LatestUnique
  <1> QED BY <1>1 DEF CurrentVersion, AnyOf

LEMMA CurrentIsRow ==
    ASSUME Consistent, NEW k \in Keys, CurrentVersion(k) # NoVersion
    PROVE  CurrentVersion(k) \in LatestRows(objects, k)
  BY DEF CurrentVersion, AnyOf

(* A step that changes the status of v alone.                              *)
LEMMA StatusChanged ==
    ASSUME NEW v \in Versions, NEW s, UploadStatus(v)' = s,
           \A u \in Versions \ {v} : UploadStatus(u)' = UploadStatus(u)
    PROVE  Status' = [Status EXCEPT ![v] = s]
  BY DEF Status

LEMMA SameLatest ==
    ASSUME \A k \in Keys : LatestRows(objects, k)' = LatestRows(objects, k)
    PROVE  Current' = Current
  BY DEF Current, CurrentVersion

LEMMA RegisterInit == Init => Register!Init
  <1> SUFFICES ASSUME Init PROVE Register!Init OBVIOUS
  <1>1. \A v \in Versions : objects[v] = NoRow /\ put[v].pc = "idle"
                            /\ put[v].cond = NoCond
    BY DEF Init, EmptyCatalog
  <1>2. \A k \in Keys : CurrentVersion(k) = NoVersion
    BY <1>1 DEF CurrentVersion, AnyOf, LatestRows, NoRow
  <1>3. \A v \in Versions : UploadStatus(v) = "new"
    BY <1>1 DEF UploadStatus, NoRow
  <1> QED BY <1>1, <1>2, <1>3 DEF Register!Init, NoCond

LEMMA PutStartAsks ==
    ASSUME Consistent, NEW v \in Versions, NEW cond, NEW ring \in Rings,
           NEW healthy \in SUBSET ring, PutStart(v, cond, ring, healthy)
    PROVE  Register!Ask(v, cond)
  <1>1. /\ put[v].pc = "idle" /\ objects[v].state = "ABSENT"
        /\ \A u \in Versions \ {v} :
              objects'[u] = objects[u] /\ put'[u] = put[u]
        /\ objects'[v].state = "PENDING" /\ ~ objects'[v].latest
        /\ put'[v].cond = cond
    BY DEF PutStart, PrepareObject, Consistent, TypeOK, RowsFollowPuts
  <1>2. Status[v] = "new"
    BY <1>1 DEF Status, UploadStatus
  <1>3. Status' = [Status EXCEPT ![v] = "asked"]
    <2>1. UploadStatus(v)' = "asked"
      BY <1>1 DEF UploadStatus
    <2>2. \A u \in Versions \ {v} : UploadStatus(u)' = UploadStatus(u)
      BY <1>1 DEF UploadStatus
    <2> QED BY <2>1, <2>2, StatusChanged
  <1>4. Current' = Current
    <2>1. \A k \in Keys : LatestRows(objects, k)' = LatestRows(objects, k)
      BY <1>1 DEF LatestRows
    <2> QED BY <2>1, SameLatest
  <1>5. Wants' = [Wants EXCEPT ![v] = cond]
    BY <1>1 DEF Wants
  <1> QED BY <1>2, <1>3, <1>4, <1>5 DEF Register!Ask, Current, Status, Wants

LEMMA PutRejectRefuses ==
    ASSUME Consistent, NEW v \in Versions, NEW cond, NEW ring, NEW healthy,
           PutReject(v, cond, ring, healthy)
    PROVE  Register!RefuseAtOnce(v, cond)
  <1>1. /\ put[v].pc = "idle" /\ objects[v].state = "ABSENT"
        /\ \A u \in Versions \ {v} : put'[u] = put[u]
        /\ put'[v].pc = "quorum" /\ put'[v].cond = cond
        /\ UNCHANGED objects
    BY DEF PutReject, Consistent, TypeOK, Put, RowsFollowPuts
  <1>2. Status[v] = "new"
    BY <1>1 DEF Status, UploadStatus
  <1>3. Status' = [Status EXCEPT ![v] = "refused"]
    <2>1. UploadStatus(v)' = "refused"
      BY <1>1 DEF UploadStatus
    <2>2. \A u \in Versions \ {v} : UploadStatus(u)' = UploadStatus(u)
      BY <1>1 DEF UploadStatus
    <2> QED BY <2>1, <2>2, StatusChanged
  <1>4. Current' = Current
    BY <1>1 DEF Current, CurrentVersion
  <1>5. Wants' = [Wants EXCEPT ![v] = cond]
    BY <1>1 DEF Wants
  <1> QED
    BY <1>2, <1>3, <1>4, <1>5 DEF Register!RefuseAtOnce, Current, Status, Wants

LEMMA RollBackRefuses ==
    ASSUME Consistent, NEW v \in Versions, UploadsDone(v),
           NEW pc \in {"quorum", "precondition"}, RollBack(v, pc)
    PROVE  Register!Refuse(v)
  <1>1. /\ objects[v].state = "PENDING" /\ ~ objects[v].latest
        /\ put[v] \in Put /\ put'[v] = Answered(put[v], pc)
        /\ \A u \in Versions \ {v} :
              objects'[u] = objects[u] /\ put'[u] = put[u]
        /\ objects'[v] = NoRow
    BY DEF RollBack, AbortObject, UploadsDone, Consistent, TypeOK, RowsFollowPuts,
           LatestUnique
  <1>2. put'[v].pc = pc /\ put'[v].cond = put[v].cond
    BY <1>1 DEF Answered, Put
  <1>3. Status[v] = "asked"
    BY <1>1 DEF Status, UploadStatus
  <1>4. Status' = [Status EXCEPT ![v] = "refused"]
    <2>1. UploadStatus(v)' = "refused"
      BY <1>1, <1>2 DEF UploadStatus, NoRow
    <2>2. \A u \in Versions \ {v} : UploadStatus(u)' = UploadStatus(u)
      BY <1>1 DEF UploadStatus
    <2> QED BY <2>1, <2>2, StatusChanged
  <1>5. Current' = Current
    <2>1. \A k \in Keys : LatestRows(objects, k)' = LatestRows(objects, k)
      BY <1>1 DEF LatestRows, NoRow
    <2> QED BY <2>1, SameLatest
  <1>6. Wants' = Wants
    BY <1>1, <1>2 DEF Wants
  <1> QED BY <1>3, <1>4, <1>5, <1>6 DEF Register!Refuse, Current, Status, Wants

(* The precondition that the commit transaction checks is the register's.  *)
LEMMA PreconditionIsAllowed ==
    ASSUME Consistent, NEW v \in Versions,
           PreconditionHolds(objects, v, put[v].cond)
    PROVE  Register!Allowed(v)
  <1> DEFINE k == KeyOf[v]
  <1>1. k \in Keys
    BY VersionAssumption
  <1>2. LatestRows(objects, k) = {} => CurrentVersion(k) = NoVersion
    BY DEF CurrentVersion, AnyOf
  <1>3. ASSUME NEW u \in LatestRows(objects, k)
        PROVE  CurrentVersion(k) = u /\ u # NoVersion
    BY CurrentIsLatest, FaultAssumption DEF LatestRows
  <1>4. /\ put[v].cond.ifNoneMatch => LatestRows(objects, k) = {}
        /\ put[v].cond.ifMatch # NoEtag =>
              \E u \in LatestRows(objects, k) :
                  ContentOf[u] = put[v].cond.ifMatch
    BY DEF PreconditionHolds, Etag
  <1>5. Current[k] = CurrentVersion(k) /\ Wants[v] = put[v].cond
    BY <1>1 DEF Current, Wants
  <1> QED
    BY <1>2, <1>3, <1>4, <1>5 DEF Register!Allowed, Current, Wants

(* A commit installs, whether or not the update of the replicas follows.   *)
LEMMA CommitInstalls ==
    ASSUME Consistent, Consistent', NEW v \in Versions,
           objects[v].state = "PENDING",
           PreconditionHolds(objects, v, put[v].cond),
           \A u \in Versions \ {v} :
               /\ objects'[u].state = objects[u].state
               /\ objects'[u].latest <=>
                     objects[u].latest /\ KeyOf[u] # KeyOf[v],
           objects'[v].state = "COMMITTED", objects'[v].latest,
           \A u \in Versions :
               /\ put'[u].cond = put[u].cond
               /\ u # v => put'[u].pc = put[u].pc
    PROVE  Register!Install(v)
  <1>1. Register!Allowed(v)
    BY PreconditionIsAllowed
  <1>2. Status[v] = "asked"
    BY DEF Status, UploadStatus
  <1>3. Status' = [Status EXCEPT ![v] = "installed"]
    <2>1. UploadStatus(v)' = "installed"
      BY DEF UploadStatus
    <2>2. \A u \in Versions \ {v} : UploadStatus(u)' = UploadStatus(u)
      BY DEF UploadStatus
    <2> QED BY <2>1, <2>2, StatusChanged
  <1>4. Current' = [Current EXCEPT ![KeyOf[v]] = v]
    <2>1. KeyOf[v] \in Keys /\ CurrentVersion(KeyOf[v])' = v
      <3>1. LatestRows(objects, KeyOf[v])' = {v}
        BY DEF LatestRows
      <3> QED BY <3>1, VersionAssumption DEF CurrentVersion, AnyOf
    <2>2. \A k \in Keys \ {KeyOf[v]} : CurrentVersion(k)' = CurrentVersion(k)
      <3>1. \A k \in Keys \ {KeyOf[v]} :
                LatestRows(objects, k)' = LatestRows(objects, k)
        BY DEF LatestRows
      <3> QED BY <3>1 DEF CurrentVersion
    <2> QED BY <2>1, <2>2 DEF Current
  <1>5. Wants' = Wants
    BY DEF Wants
  <1> QED
    BY <1>1, <1>2, <1>3, <1>4, <1>5 DEF Register!Install, Current, Status, Wants

LEMMA PutCommitInstalls ==
    ASSUME Consistent, Consistent', NEW v \in Versions, NEW ring, PutCommit(v, ring)
    PROVE  Register!Install(v)
  <1> DEFINE tab == CommitObject(objects, v)
  <1>1. /\ tab \in [Versions -> Row]
        /\ objects' = [tab EXCEPT ![v].replicas = put[v].acks]
    BY CatalogTypes DEF PutCommit, UpdateObjectReplicas, Consistent, TypeOK, Put
  <1>2. /\ \A u \in Versions \ {v} : objects'[u] = tab[u]
        /\ objects'[v].state = tab[v].state
        /\ objects'[v].latest = tab[v].latest
    BY <1>1 DEF Row
  <1> HIDE DEF tab
  <1>3. /\ \A u \in Versions \ {v} :
              /\ tab[u].state = objects[u].state
              /\ tab[u].replicas = objects[u].replicas
              /\ tab[u].latest <=> objects[u].latest /\ KeyOf[u] # KeyOf[v]
        /\ tab[v].state = "COMMITTED"
        /\ tab[v].latest
    BY CommitTable DEF tab, Consistent, TypeOK
  <1>4. /\ \A u \in Versions \ {v} :
              /\ objects'[u].state = objects[u].state
              /\ objects'[u].latest <=>
                    objects[u].latest /\ KeyOf[u] # KeyOf[v]
        /\ objects'[v].state = "COMMITTED" /\ objects'[v].latest
    BY <1>2, <1>3
  <1>5. /\ objects[v].state = "PENDING"
        /\ PreconditionHolds(objects, v, put[v].cond)
    BY DEF PutCommit, UploadsDone, Consistent, RowsFollowPuts
  <1>6. \A u \in Versions :
            /\ put'[u].cond = put[u].cond
            /\ u # v => put'[u].pc = put[u].pc
    BY DEF PutCommit, Answered, Consistent, TypeOK, Put
  <1> QED BY <1>4, <1>5, <1>6, CommitInstalls

LEMMA PutStoreErrorMaps ==
    ASSUME Consistent, Consistent', NEW v \in Versions, PutStoreError(v)
    PROVE  Register!Install(v) \/ UNCHANGED Register!vars
  <1>1. /\ put[v].pc = "uploading" /\ objects[v].state = "PENDING"
        /\ put'[v].pc = "unknown"
        /\ \A u \in Versions :
              /\ put'[u].cond = put[u].cond
              /\ u # v => put'[u].pc = put[u].pc
    BY DEF PutStoreError, UploadsDone, Answered, Consistent, TypeOK, Put,
           RowsFollowPuts
  <1>2. CASE UNCHANGED objects
    <2>1. Current' = Current
      BY <1>2 DEF Current, CurrentVersion
    <2>2. Status' = Status
      BY <1>1, <1>2 DEF Status, UploadStatus
    <2>3. Wants' = Wants
      BY <1>1 DEF Wants
    <2> QED BY <2>1, <2>2, <2>3 DEF Register!vars, Current, Status, Wants
  <1>3. CASE /\ objects' = CommitObject(objects, v)
             /\ PreconditionHolds(objects, v, put[v].cond)
    <2>1. /\ \A u \in Versions \ {v} :
                /\ objects'[u].state = objects[u].state
                /\ objects'[u].replicas = objects[u].replicas
                /\ objects'[u].latest <=>
                      objects[u].latest /\ KeyOf[u] # KeyOf[v]
          /\ objects'[v].state = "COMMITTED"
          /\ objects'[v].latest
      <3> DEFINE tab == CommitObject(objects, v)
      <3>1. /\ \A u \in Versions \ {v} :
                  /\ tab[u].state = objects[u].state
                  /\ tab[u].replicas = objects[u].replicas
                  /\ tab[u].latest <=> objects[u].latest /\ KeyOf[u] # KeyOf[v]
            /\ tab[v].state = "COMMITTED"
            /\ tab[v].latest
        BY CommitTable DEF Consistent, TypeOK
      <3> HIDE DEF tab
      <3> QED BY <1>3, <3>1 DEF tab
    <2> QED BY <1>1, <1>3, <2>1, CommitInstalls
  <1> QED BY <1>2, <1>3 DEF PutStoreError

LEMMA DeleteObjectRemoves ==
    ASSUME Consistent, NEW v \in Versions, DeleteObject(v)
    PROVE  Register!Remove(v)
  <1>1. objects[v].latest /\ objects[v].state = "COMMITTED"
        /\ UNCHANGED put
    BY DEF DeleteObject, LatestRows
  <1>2. /\ \A u \in Versions \ {v} : objects'[u] = objects[u]
        /\ objects'[v].state = "DELETED" /\ ~ objects'[v].latest
    BY DEF DeleteObject, TombstoneObject, Consistent, TypeOK, Row
  <1>3. KeyOf[v] \in Keys
    BY VersionAssumption
  <1>4. Current[KeyOf[v]] = v
    BY <1>1, <1>3, CurrentIsLatest DEF Current
  <1>5. Current' = [Current EXCEPT ![KeyOf[v]] = NoVersion]
    <2>1. CurrentVersion(KeyOf[v])' = NoVersion
      <3>1. LatestRows(objects, KeyOf[v])' = {}
        BY <1>1, <1>2 DEF LatestRows, Consistent, LatestUnique
      <3> QED BY <3>1 DEF CurrentVersion, AnyOf
    <2>2. \A k \in Keys \ {KeyOf[v]} : CurrentVersion(k)' = CurrentVersion(k)
      <3>1. \A k \in Keys \ {KeyOf[v]} :
                LatestRows(objects, k)' = LatestRows(objects, k)
        BY <1>2 DEF LatestRows
      <3> QED BY <3>1 DEF CurrentVersion
    <2> QED BY <1>3, <2>1, <2>2 DEF Current
  <1>6. Status' = [Status EXCEPT ![v] = "removed"]
    <2>1. UploadStatus(v)' = "removed"
      BY <1>2 DEF UploadStatus
    <2>2. \A u \in Versions \ {v} : UploadStatus(u)' = UploadStatus(u)
      BY <1>1, <1>2 DEF UploadStatus
    <2> QED BY <2>1, <2>2, StatusChanged
  <1>7. Wants' = Wants
    BY <1>1 DEF Wants
  <1> QED BY <1>4, <1>5, <1>6, <1>7 DEF Register!Remove, Current, Status, Wants

(* A step that moves no version and decides no put is a stutter, whatever   *)
(* it makes of the replicas.                                               *)
LEMMA RegisterStutter ==
    ASSUME Consistent,
           \A u \in Versions : /\ objects'[u].state = objects[u].state
                               /\ objects'[u].latest = objects[u].latest
                               /\ put'[u].cond = put[u].cond
                               /\ objects[u].state = "ABSENT" =>
                                     put'[u].pc = put[u].pc
    PROVE  UNCHANGED Register!vars
  <1>1. Current' = Current
    <2>1. \A k \in Keys : LatestRows(objects, k)' = LatestRows(objects, k)
      BY DEF LatestRows
    <2> QED BY <2>1, SameLatest
  <1>2. Status' = Status
    <2>1. ASSUME NEW u \in Versions PROVE UploadStatus(u)' = UploadStatus(u)
      <3>1. CASE objects[u].state = "ABSENT"
        BY <3>1 DEF UploadStatus
      <3>2. CASE objects[u].state \in {"COMMITTED", "DELETED", "PENDING"}
        BY <3>2 DEF UploadStatus
      <3> QED BY <3>1, <3>2 DEF Consistent, TypeOK, Row, RowStates
    <2> QED BY <2>1 DEF Status
  <1>3. Wants' = Wants
    BY DEF Wants
  <1> QED BY <1>1, <1>2, <1>3 DEF Register!vars, Current, Status, Wants

LEMMA NodeStepStutters ==
    ASSUME Consistent, NEW v \in Versions, NEW n \in Nodes, NodeStep(v, n)
    PROVE  UNCHANGED Register!vars
  <1>1. UNCHANGED objects
    BY DEF NodeStep, PutAnswer, NodePut, NodePutNoSidecar, PutRefused,
           PutTimeout, CleanupSend, NodeDelete, DeleteRefused, DeleteTimeout,
           Corrupt
  <1>2. \/ UNCHANGED put
        \/ put' = [put EXCEPT ![v] = Acked(@, n)]
        \/ put' = [put EXCEPT ![v] = Returned(@, n)]
    BY DEF NodeStep, PutAnswer, NodePut, NodePutNoSidecar, PutRefused,
           PutTimeout, CleanupSend, NodeDelete, DeleteRefused, DeleteTimeout,
           Corrupt
  <1>3. \A u \in Versions : put'[u].cond = put[u].cond /\ put'[u].pc = put[u].pc
    BY <1>2, PutAnswerFacts DEF Consistent
  <1> QED BY <1>1, <1>3, RegisterStutter

LEMMA CrashStutters ==
    ASSUME Consistent, Crash
    PROVE  UNCHANGED Register!vars
  <1>1. \A u \in Versions :
            /\ put'[u].cond = put[u].cond
            /\ put[u].pc # "uploading" => put'[u].pc = put[u].pc
    BY DEF Crash, Answered, Consistent, TypeOK, Put
  <1>2. \A u \in Versions :
            objects[u].state = "ABSENT" => put[u].pc # "uploading"
    BY DEF Consistent, RowsFollowPuts
  <1>3. UNCHANGED objects
    BY DEF Crash
  <1> QED BY <1>1, <1>2, <1>3, RegisterStutter

LEMMA RegisterStep ==
    Consistent /\ Consistent' /\ [Next]_vars => [Register!Next]_(Register!vars)
  <1> SUFFICES ASSUME Consistent, Consistent', [Next]_vars
               PROVE  Register!Next \/ UNCHANGED Register!vars
    OBVIOUS
  <1>1. CASE UNCHANGED vars
    BY <1>1, RegisterStutter DEF vars
  <1>2. ASSUME NEW v \in Versions, Step(v)
        PROVE  Register!Next \/ UNCHANGED Register!vars
    <2>1. ASSUME NEW cond \in Conditions, NEW ring \in Rings,
                 NEW healthy \in SUBSET ring,
                 \/ PutStart(v, cond, ring, healthy)
                 \/ PutReject(v, cond, ring, healthy)
          PROVE  Register!Next
      <3>1. cond \in Register!Cond
        BY FaultAssumption
        DEF Condition, Contents, Register!Cond, Register!Contents
      <3> QED BY <2>1, <3>1, PutStartAsks, PutRejectRefuses DEF Register!Next
    <2>2. CASE PutFinish(v)
      BY <2>2, PutCommitInstalls, RollBackRefuses
      DEF PutFinish, PutQuorumError, PutPreconditionError, Register!Next
    <2>3. CASE PutStoreError(v)
      BY <2>3, PutStoreErrorMaps DEF Register!Next
    <2>4. CASE DeleteObject(v)
      BY <2>4, DeleteObjectRemoves DEF Register!Next
    <2>5. CASE DeleteDone(v)
      BY <2>5, RegisterStutter DEF DeleteDone
    <2> QED BY <1>2, <2>1, <2>2, <2>3, <2>4, <2>5 DEF Step
  <1>3. ASSUME NEW v \in Versions, NEW n \in Nodes, NodeStep(v, n)
        PROVE  UNCHANGED Register!vars
    BY <1>3, NodeStepStutters
  <1>4. CASE Crash
    BY <1>4, CrashStutters
  <1> QED BY <1>1, <1>2, <1>3, <1>4 DEF Next, WriteNext

(* Every behaviour of the engine is a behaviour of one register per        *)
(* object: writes and deletes take effect at one instant, in an order that *)
(* every precondition agrees with, and errors take no effect at all.       *)
THEOREM Implementation == Spec => RegisterSpec
  BY RegisterInit, RegisterStep, Consistency, PTL
  DEF Spec, RegisterSpec, Register!Spec

-----------------------------------------------------------------------------
(* Replication: the effect of copies on the state of WritePath, whoever    *)
(* asks for them and whatever they make of the answers.                    *)

LEMMA RequestTyped ==
    ASSUME NEW a \in Agents, NEW v \in Versions, NEW src \in Nodes,
           NEW dst \in Nodes
    PROVE  Request(a, v, src, dst) \in Requests
  BY DEF Request, Requests

LEMMA BlobTypes ==
    ASSUME NEW d \in [Nodes -> [Versions -> File]],
           NEW n \in Nodes, NEW v \in Versions, NEW data \in Bytes
    PROVE  /\ WriteBlob(d, n, v, data) \in [Nodes -> [Versions -> File]]
           /\ \A sum \in SidecarsLeft(d, n, v) :
                 WriteBlobOnly(d, n, v, data, sum)
                    \in [Nodes -> [Versions -> File]]
  <1>1. WriteBlob(d, n, v, data) \in [Nodes -> [Versions -> File]]
    BY DEF WriteBlob, File
  <1>2. ASSUME NEW sum \in SidecarsLeft(d, n, v)
        PROVE  WriteBlobOnly(d, n, v, data, sum)
                  \in [Nodes -> [Versions -> File]]
    <2>1. sum \in Bytes \cup {NoFile}
      BY DEF SidecarsLeft, File
    <2> QED BY <2>1 DEF WriteBlobOnly, File
  <1> QED BY <1>1, <1>2

LEMMA RequestAnsweredTyped ==
    ASSUME TypeOK, CopyTypeOK, NEW req \in requests, RequestAnswered(req)
    PROVE  TypeOK' /\ CopyTypeOK'
  <1>1. UNCHANGED vars
    BY DEF RequestAnswered, Replicate, ReplicateRefused
  <1>2. TypeOK'
    BY <1>1 DEF vars, TypeOK
  <1>3. req \in Requests
    BY DEF CopyTypeOK
  <1>4. HasFile(disk, req.src, req.ver) => CopyOf(req) \in Copies
    <2>1. disk[req.src][req.ver] \in File
      BY <1>3 DEF Requests, TypeOK
    <2> QED BY <1>3, <2>1 DEF HasFile, CopyOf, Copies, Requests, File
  <1>5. requests' \subseteq requests
    BY DEF RequestAnswered, Replicate, ReplicateRefused
  <1>6. \/ copies' = copies
        \/ /\ HasFile(disk, req.src, req.ver)
           /\ copies' = copies \cup {CopyOf(req)}
    BY DEF RequestAnswered, Replicate, ReplicateRefused
  <1> QED BY <1>2, <1>4, <1>5, <1>6 DEF CopyTypeOK

(* The call ends, and with it nothing changes but perhaps one file.        *)
LEMMA CopyFrame ==
    ASSUME NEW copy \in copies, CopyPut(copy) \/ CopyFailed(copy)
    PROVE  /\ copies' = copies \ {copy}
           /\ UNCHANGED <<objects, rotted, wire, put, del, cleanup, queue,
                          crashes, requests>>
  BY DEF CopyPut, CopyFailed, CopyPutNoSidecar, CopyRefused, vars

LEMMA CopyTyped ==
    ASSUME TypeOK, CopyTypeOK, NEW copy \in copies,
           CopyPut(copy) \/ CopyFailed(copy)
    PROVE  TypeOK' /\ CopyTypeOK'
  <1>1. /\ copy.ver \in Versions /\ copy.dst \in Nodes /\ copy.data \in Bytes
    BY DEF CopyTypeOK, Copies
  <1>2. disk' \in [Nodes -> [Versions -> File]]
    <2>1. disk \in [Nodes -> [Versions -> File]]
      BY DEF TypeOK
    <2>2. \/ disk' = disk
          \/ disk' = WriteBlob(disk, copy.dst, copy.ver, copy.data)
          \/ \E sum \in SidecarsLeft(disk, copy.dst, copy.ver) :
                disk' = WriteBlobOnly(disk, copy.dst, copy.ver, copy.data, sum)
      BY DEF CopyPut, CopyFailed, CopyPutNoSidecar, CopyRefused, vars
    <2> QED BY <1>1, <2>1, <2>2, BlobTypes
  <1>3. TypeOK'
    BY <1>2, CopyFrame DEF TypeOK
  <1>4. CopyTypeOK'
    BY CopyFrame DEF CopyTypeOK
  <1> QED BY <1>3, <1>4

-----------------------------------------------------------------------------
(* What a copy does to a file: nothing, unless the file is the copy's      *)
(* target and accepts what it is sent.                                     *)
FileCopied(copy, n, v) ==
    /\ n = copy.dst /\ v = copy.ver
    /\ Accepts(copy.data, copy.sum)
    /\ disk'[n][v].data = copy.data
    /\ "sidecar" \notin Faults => disk'[n][v].sum = copy.data

LEMMA CopySteps ==
    ASSUME TypeOK, CopyTypeOK, NEW copy \in copies,
           CopyPut(copy) \/ CopyFailed(copy),
           NEW n \in Nodes, NEW v \in Versions
    PROVE  disk'[n][v] = disk[n][v] \/ FileCopied(copy, n, v)
  <1>1. /\ copy.ver \in Versions /\ copy.dst \in Nodes
        /\ disk \in [Nodes -> [Versions -> File]]
    BY DEF CopyTypeOK, Copies, TypeOK
  <1>2. CASE CopyPut(copy)
    <2>1. CASE ~ Accepts(copy.data, copy.sum)
      BY <1>2, <2>1 DEF CopyPut
    <2>2. CASE Accepts(copy.data, copy.sum)
      <3>1. disk' = [disk EXCEPT ![copy.dst][copy.ver] =
                        [data |-> copy.data, sum |-> copy.data]]
        BY <1>2, <2>2 DEF CopyPut, WriteBlob
      <3> QED BY <1>1, <2>2, <3>1 DEF FileCopied
    <2> QED BY <2>1, <2>2
  <1>3. CASE CopyPutNoSidecar(copy)
    <2>1. PICK sum : disk' = [disk EXCEPT ![copy.dst][copy.ver] =
                                 [data |-> copy.data, sum |-> sum]]
      BY <1>3 DEF CopyPutNoSidecar, WriteBlobOnly
    <2>2. "sidecar" \in Faults /\ Accepts(copy.data, copy.sum)
      BY <1>3 DEF CopyPutNoSidecar
    <2> QED BY <1>1, <2>1, <2>2 DEF FileCopied
  <1>4. CASE CopyRefused(copy)
    BY <1>4 DEF CopyRefused, vars
  <1> QED BY <1>2, <1>3, <1>4 DEF CopyFailed

(* A node has a file after a copy if it had one before.                    *)
LEMMA CopyLeavesFiles ==
    ASSUME TypeOK, CopyTypeOK, NEW copy \in copies,
           CopyPut(copy) \/ CopyFailed(copy),
           NEW n \in Nodes, NEW v \in Versions, HasFile(disk, n, v)
    PROVE  HasFile(disk', n, v)
  <1>1. copy.data \in Bytes
    BY DEF CopyTypeOK, Copies
  <1>2. copy.data # NoFile
    BY <1>1, ContentAssumption DEF Bytes
  <1> QED BY <1>2, CopySteps DEF HasFile, FileCopied

(* A file that counts keeps counting when a copy overwrites it, if rot had *)
(* reached it or if what the copy carries is what was uploaded.            *)
LEMMA CopyKeepsHeld ==
    ASSUME TypeOK, CopyTypeOK, NEW copy \in copies,
           CopyPut(copy) \/ CopyFailed(copy),
           NEW n \in Nodes, NEW v \in Versions, Held(n, v),
           n = copy.dst /\ v = copy.ver =>
               \/ <<n, v>> \in rotted
               \/ Accepts(copy.data, copy.sum) => copy.data = ContentOf[v]
    PROVE  Held(n, v)'
  <1>0. UNCHANGED rotted
    BY CopyFrame
  <1>1. CASE disk'[n][v] = disk[n][v]
    BY <1>0, <1>1 DEF Held, Intact, HasFile
  <1>2. CASE FileCopied(copy, n, v)
    <2>1. HasFile(disk, n, v)
      BY ContentAssumption DEF Held, Intact, HasFile, Contents
    <2>2. HasFile(disk', n, v)
      BY <2>1, CopyLeavesFiles
    <2>3. CASE <<n, v>> \in rotted
      BY <1>0, <2>2, <2>3 DEF Held, HasFile
    <2>4. CASE Accepts(copy.data, copy.sum) => copy.data = ContentOf[v]
      BY <1>2, <2>4 DEF FileCopied, Held, Intact
    <2> QED BY <1>2, <2>3, <2>4 DEF FileCopied
  <1> QED BY <1>1, <1>2, CopySteps

-----------------------------------------------------------------------------
(* A step beside the write path that touches no upload in progress, and    *)
(* moves no version, keeps its bookkeeping.                                *)
LEMMA BesideFrame ==
    ASSUME Consistent, TypeOK', UNCHANGED <<wire, put, cleanup>>,
           \A v \in Versions : /\ objects'[v].state = objects[v].state
                               /\ objects'[v].latest = objects[v].latest,
           \A v \in Versions :
               put[v].pc = "uploading" =>
                   /\ objects'[v].replicas = objects[v].replicas
                   /\ \A n \in Nodes : Held(n, v) => Held(n, v)'
    PROVE  Consistent'
  <1>1. RowsFollowPuts'
    BY DEF Consistent, RowsFollowPuts
  <1>2. AcksHold'
    <2>1. \A v \in Versions : put[v].acks \subseteq Nodes
      BY DEF Consistent, TypeOK, Put
    <2> QED BY <2>1 DEF Consistent, AcksHold
  <1>3. DeletesAreForTheDead'
    <2>1. \A v \in Versions : Dead(v) => Dead(v)'
      BY DEF Dead
    <2>2. \A call \in wire : call.ver \in Versions
      BY DEF Consistent, TypeOK, Calls
    <2> QED BY <2>1, <2>2 DEF Consistent, DeletesAreForTheDead
  <1>4. LatestUnique'
    BY DEF Consistent, LatestUnique
  <1> QED BY <1>1, <1>2, <1>3, <1>4 DEF Consistent

-----------------------------------------------------------------------------
(* Copies of decided versions, beside the write path.                      *)

LEMMA DecidedStays ==
    ASSUME Consistent, [Next]_vars, NEW v \in Versions, Decided(v)
    PROVE  Decided(v)'
  BY RowSteps DEF Decided, RowKept, RowCommits

LEMMA DecidedRow ==
    ASSUME Consistent, [Next]_vars, NEW v \in Versions, Decided(v)
    PROVE  /\ objects'[v].replicas = objects[v].replicas
           /\ objects[v].state = "DELETED" => objects'[v].state = "DELETED"
  BY RowSteps DEF Decided, RowKept, RowCommits

LEMMA WriteCopies ==
    ASSUME Consistent, CopyTypeOK, CopiesOfDecided, [Next]_vars,
           UNCHANGED copyVars
    PROVE  CopyTypeOK' /\ CopiesOfDecided'
  <1>1. \A call \in requests \cup copies : call.ver \in Versions
    BY DEF CopyTypeOK, Requests, Copies
  <1> QED
    BY <1>1, DecidedStays DEF CopyTypeOK, CopiesOfDecided, copyVars

LEMMA RequestAnsweredDecided ==
    ASSUME CopiesOfDecided, NEW req \in requests, RequestAnswered(req)
    PROVE  CopiesOfDecided'
  <1>1. /\ UNCHANGED objects /\ requests' \subseteq requests
        /\ copies' \subseteq copies \cup {CopyOf(req)}
    BY DEF RequestAnswered, Replicate, ReplicateRefused, vars
  <1>2. CopyOf(req).ver = req.ver
    BY DEF CopyOf
  <1> QED BY <1>1, <1>2 DEF CopiesOfDecided, Decided

(* A copy of a decided version overwrites no file that an upload counts.   *)
LEMMA CopyConsistent ==
    ASSUME Consistent, CopyTypeOK, CopiesOfDecided, NEW copy \in copies,
           CopyPut(copy) \/ CopyFailed(copy)
    PROVE  Consistent' /\ CopyTypeOK' /\ CopiesOfDecided'
  <1>0. TypeOK
    BY DEF Consistent
  <1>1. TypeOK' /\ CopyTypeOK'
    BY <1>0, CopyTyped
  <1>2. /\ copies' = copies \ {copy}
        /\ UNCHANGED <<objects, rotted, wire, put, cleanup, requests>>
    BY CopyFrame
  <1>3. ASSUME NEW v \in Versions, put[v].pc = "uploading",
               NEW n \in Nodes, Held(n, v)
        PROVE  Held(n, v)'
    <2>1. copy.ver # v
      BY <1>3 DEF CopiesOfDecided, Decided, Consistent, RowsFollowPuts
    <2> QED BY <1>0, <1>3, <2>1, CopyKeepsHeld
  <1>4. Consistent'
    BY <1>1, <1>2, <1>3, BesideFrame
  <1>5. CopiesOfDecided'
    BY <1>2 DEF CopiesOfDecided, Decided
  <1> QED BY <1>1, <1>4, <1>5

(* A verified copy takes nothing from a quorum.                            *)
LEMMA CopyQuorum ==
    ASSUME TypeOK, CopyTypeOK, QuorumHolds, CopiesVerified,
           NEW copy \in copies, CopyPut(copy) \/ CopyFailed(copy)
    PROVE  QuorumHolds'
  <1>1. UNCHANGED objects
    BY CopyFrame
  <1>2. ASSUME NEW v \in Versions, NEW n \in Nodes, Held(n, v)
        PROVE  Held(n, v)'
    BY <1>2, CopyKeepsHeld DEF CopiesVerified
  <1>3. ASSUME NEW v \in Versions, objects'[v].state = "COMMITTED"
        PROVE  HeldByQuorum(v)'
    <2>1. HeldByQuorum(v) /\ objects[v].replicas \subseteq Nodes
      BY <1>1, <1>3 DEF QuorumHolds, TypeOK, Row
    <2> QED BY <1>1, <1>2, <2>1, QuorumKept
  <1> QED BY <1>3 DEF QuorumHolds

LEMMA CopyStutters ==
    ASSUME Consistent, NEW copy \in copies, CopyPut(copy) \/ CopyFailed(copy)
    PROVE  UNCHANGED Register!vars
  BY CopyFrame, RegisterStutter

-----------------------------------------------------------------------------
(* Digests.  As long as every blob's sidecar is written with it, what a    *)
(* target accepts is what was uploaded.                                    *)

LEMMA InitDigested == CopyInit => Digested
  BY DEF CopyInit, Init, EmptyDisks, Nothing, HasFile, Digested

LEMMA DigestedVerifies ==
    ASSUME CopyTypeOK, Digested
    PROVE  CopiesVerified
  <1>1. \A copy \in copies : ContentOf[copy.ver] # NoFile
    BY ContentAssumption DEF CopyTypeOK, Copies, Contents
  <1> QED BY <1>1 DEF Digested, CopiesVerified, Accepts

LEMMA WriteDigested ==
    ASSUME Consistent, Digested, "sidecar" \notin Faults,
           [Next]_vars, UNCHANGED copies
    PROVE  Digested'
  <1>1. ASSUME NEW n \in Nodes, NEW v \in Versions, HasFile(disk', n, v)
        PROVE  disk'[n][v].sum = ContentOf[v]
    <2>1. ~ FileDeleted(n, v)
      BY <1>1 DEF FileDeleted, HasFile, Nothing
    <2> QED
      BY <1>1, <2>1, FileSteps
      DEF Digested, HasFile, FileUploaded, FileRots
  <1> QED BY <1>1 DEF Digested, HasFile

LEMMA RequestDigested ==
    ASSUME TypeOK, CopyTypeOK, Digested, NEW req \in requests,
           RequestAnswered(req)
    PROVE  Digested'
  <1>1. UNCHANGED disk
    BY DEF RequestAnswered, Replicate, ReplicateRefused, vars
  <1>2. HasFile(disk, req.src, req.ver) =>
            CopyOf(req).sum = ContentOf[CopyOf(req).ver]
    BY DEF CopyOf, Digested, CopyTypeOK, Requests
  <1>3. \/ copies' = copies
        \/ /\ HasFile(disk, req.src, req.ver)
           /\ copies' = copies \cup {CopyOf(req)}
    BY DEF RequestAnswered, Replicate, ReplicateRefused
  <1> QED BY <1>1, <1>2, <1>3 DEF Digested, HasFile

LEMMA CopyDigested ==
    ASSUME TypeOK, CopyTypeOK, Digested, "sidecar" \notin Faults,
           NEW copy \in copies, CopyPut(copy) \/ CopyFailed(copy)
    PROVE  Digested'
  <1>1. CopiesVerified
    BY DigestedVerifies
  <1>2. ASSUME NEW n \in Nodes, NEW v \in Versions, HasFile(disk', n, v)
        PROVE  disk'[n][v].sum = ContentOf[v]
    BY <1>1, <1>2, CopySteps DEF Digested, HasFile, FileCopied, CopiesVerified
  <1>3. \A other \in copies' : other.sum = ContentOf[other.ver]
    BY CopyFrame DEF Digested
  <1> QED BY <1>2, <1>3 DEF Digested, HasFile
=============================================================================
