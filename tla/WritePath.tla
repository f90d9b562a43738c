----------------------------- MODULE WritePath -----------------------------
(***************************************************************************)
(* VaultEngine's put_object and delete_object (vault/engine.py) over the   *)
(* metadata store, the storage nodes and the HTTP calls between them.      *)
(*                                                                         *)
(* The engine is one asyncio process: an action is the code between two    *)
(* awaits.  An HTTP call is a member of `wire` from the moment it is sent  *)
(* until a node handles it or it is refused or lost.  The engine may stop  *)
(* waiting for it earlier (a timeout), and the node handles it all the     *)
(* same: that is how an acknowledgement is lost and how a request arrives  *)
(* late.                                                                   *)
(***************************************************************************)
EXTENDS Placement, Catalog, StorageNode

CONSTANTS
    Conditions,  \* the preconditions clients send
    Rings,       \* the sets of nodes that may be registered in the ring
    Faults,      \* what can go wrong: a subset of FaultKinds
    MaxCrashes,  \* bound: restarts of the engine
    MaxRot,      \* bound: replicas that bit rot reaches
    NoVersion    \* no version: the object does not exist

FaultKinds == {"timeout",  \* a call outlives the engine's patience
               "offline",  \* a node refuses or cannot be reached
               "full",     \* a node fails a PUT before the blob is in place
               "sidecar",  \* ... or after it, while writing the sidecar
               "store"}    \* a metadata call raises an SQLite error

Condition == [ifMatch : Contents \cup {NoEtag}, ifNoneMatch : BOOLEAN]

NoCond == [ifMatch |-> NoEtag, ifNoneMatch |-> FALSE]

ASSUME FaultAssumption ==
    /\ Faults \subseteq FaultKinds
    /\ Rings \subseteq SUBSET Nodes
    /\ Conditions \subseteq Condition
    /\ NoCond \in Conditions
    /\ MaxCrashes \in Nat
    /\ MaxRot \in Nat
    /\ NoVersion \notin Versions

VARIABLES
    objects,   \* the objects table
    disk,      \* disk[n][v]: the file of version v on node n
    rotted,    \* history: the files that bit rot has reached
    wire,      \* PUT and DELETE calls on their way to a node
    put,       \* put[v]: the put_object call that uploads v
    del,       \* del[v]: the delete_object call that found v latest
    cleanup,   \* cleanup[v]: what _cleanup_partial_replicas has yet to visit
    queue,     \* _repair_queue: the nodes that v should be copied to
    crashes    \* restarts of the engine so far

vars == <<objects, disk, rotted, wire, put, del, cleanup, queue, crashes>>

Calls == [op : {"PUT", "DELETE"}, ver : Versions, node : Nodes]

CallsTo(op, v, S) == {[op |-> op, ver |-> v, node |-> n] : n \in S}

(* "ok" is a 201; "quorum" and "precondition" are the errors the code      *)
(* raises on purpose; "unknown" is a 500 or no answer at all.              *)
PutStates == {"idle", "uploading", "ok", "quorum", "precondition", "unknown"}

Put == [pc : PutStates, cond : Condition,
        left : SUBSET Nodes,   \* uploads not answered yet
        acks : SUBSET Nodes]   \* uploads answered 201

Del == [pc : {"idle", "waiting", "done"},
        left : SUBSET Nodes]   \* deletions not answered yet

TypeOK ==
    /\ objects \in [Versions -> Row]
    /\ disk \in [Nodes -> [Versions -> File]]
    /\ rotted \subseteq Nodes \X Versions
    /\ wire \subseteq Calls
    /\ put \in [Versions -> Put]
    /\ del \in [Versions -> Del]
    /\ cleanup \in [Versions -> SUBSET Nodes]
    /\ queue \in [Versions -> SUBSET Nodes]
    /\ crashes \in Nat

Init ==
    /\ objects = EmptyCatalog
    /\ disk = EmptyDisks
    /\ rotted = {}
    /\ wire = {}
    /\ put = [v \in Versions |->
                [pc |-> "idle", cond |-> NoCond, left |-> {}, acks |-> {}]]
    /\ del = [v \in Versions |-> [pc |-> "idle", left |-> {}]]
    /\ cleanup = [v \in Versions |-> {}]
    /\ queue = [v \in Versions |-> {}]
    /\ crashes = 0

-----------------------------------------------------------------------------
(* The bookkeeping of a call when node n acknowledges it, and when the     *)
(* call returns in any other way.  Both are no-ops once the engine has     *)
(* stopped waiting for n.                                                  *)
Acked(call, n) ==
    IF n \in call.left
    THEN [call EXCEPT !.left = @ \ {n}, !.acks = @ \cup {n}]
    ELSE call

Returned(call, n) == [call EXCEPT !.left = @ \ {n}]

Answered(call, pc) == [call EXCEPT !.pc = pc, !.left = {}, !.acks = {}]

-----------------------------------------------------------------------------
(* put_object up to the upload's first await: nodes that are not healthy   *)
(* are excluded only while W healthy ones remain.                          *)
PutTargets(v, ring, healthy) ==
    Candidates(KeyOf[v],
               IF Cardinality(healthy) >= W THEN ring \cap healthy ELSE ring)

PutStart(v, cond, ring, healthy) ==
    LET targets == PutTargets(v, ring, healthy)
    IN  /\ put[v].pc = "idle"
        /\ WriteSucceeds(targets)
        /\ objects' = PrepareObject(objects, v, targets)
        /\ wire' = wire \cup CallsTo("PUT", v, targets)
        /\ put' = [put EXCEPT ![v] = [pc |-> "uploading", cond |-> cond,
                                      left |-> targets, acks |-> {}]]
        /\ UNCHANGED <<disk, rotted, del, cleanup, queue, crashes>>

(* Too few registered nodes: refused before anything is written.           *)
PutReject(v, cond, ring, healthy) ==
    /\ put[v].pc = "idle"
    /\ ~ WriteSucceeds(PutTargets(v, ring, healthy))
    /\ put' = [put EXCEPT ![v].pc = "quorum", ![v].cond = cond]
    /\ UNCHANGED <<objects, disk, rotted, wire, del, cleanup, queue, crashes>>

-----------------------------------------------------------------------------
(* Mutant: the upload that no node acknowledged is never decided.          *)
UploadsSomeDone(v) ==
    put[v].pc = "uploading" /\ put[v].left = {} /\ put[v].acks # {}

(* The gather of the uploads has returned and W of them were acknowledged: *)
(* commit_object and update_object_replicas, and the repair entry for the  *)
(* replicas short of N, with no await in between.                          *)
UploadsDone(v) == put[v].pc = "uploading" /\ put[v].left = {}

MissingReplicas(v, ring) ==
    IF Cardinality(put[v].acks) < N
    THEN Candidates(KeyOf[v], ring) \ put[v].acks
    ELSE {}

PutCommit(v, ring) ==
    /\ UploadsDone(v)
    /\ WriteSucceeds(put[v].acks)
    /\ PreconditionHolds(objects, v, put[v].cond)
    /\ objects' = UpdateObjectReplicas(CommitObject(objects, v), v, put[v].acks)
    /\ queue' = [queue EXCEPT ![v] = MissingReplicas(v, ring)]
    /\ put' = [put EXCEPT ![v] = Answered(@, "ok")]
    /\ UNCHANGED <<disk, rotted, wire, del, cleanup, crashes>>

(* Mutant: the blobs are cleaned up and the row is forgotten.              *)
RollBackLeavingRow(v, pc) ==
    /\ cleanup' = [cleanup EXCEPT ![v] = put[v].acks]
    /\ put' = [put EXCEPT ![v] = Answered(@, pc)]
    /\ UNCHANGED <<objects, disk, rotted, wire, del, queue, crashes>>

(* Mutant: the row is aborted and the blobs are forgotten.                 *)
RollBackLeavingBlobs(v, pc) ==
    /\ objects' = AbortObject(objects, v)
    /\ put' = [put EXCEPT ![v] = Answered(@, pc)]
    /\ UNCHANGED <<disk, rotted, wire, del, cleanup, queue, crashes>>

(* The row is aborted and a task is created that deletes the blobs of the  *)
(* nodes that acknowledged, and of no other.                               *)
RollBack(v, pc) ==
    /\ objects' = AbortObject(objects, v)
    /\ cleanup' = [cleanup EXCEPT ![v] = put[v].acks]
    /\ put' = [put EXCEPT ![v] = Answered(@, pc)]
    /\ UNCHANGED <<disk, rotted, wire, del, queue, crashes>>

PutQuorumError(v) ==
    /\ UploadsDone(v)
    /\ ~ WriteSucceeds(put[v].acks)
    /\ RollBack(v, "quorum")

PutPreconditionError(v) ==
    /\ UploadsDone(v)
    /\ WriteSucceeds(put[v].acks)
    /\ ~ PreconditionHolds(objects, v, put[v].cond)
    /\ RollBack(v, "precondition")

(* An SQLite error that put_object does not catch.  It leaves the row      *)
(* PENDING (abort_object or commit_object raised), or committed with the   *)
(* candidates as its replicas (update_object_replicas raised).             *)
PutStoreError(v) ==
    /\ "store" \in Faults
    /\ UploadsDone(v)
    /\ \/ UNCHANGED objects
       \/ /\ WriteSucceeds(put[v].acks)
          /\ PreconditionHolds(objects, v, put[v].cond)
          /\ objects' = CommitObject(objects, v)
    /\ put' = [put EXCEPT ![v] = Answered(@, "unknown")]
    /\ UNCHANGED <<disk, rotted, wire, del, cleanup, queue, crashes>>

(* Mutant: cleaning up is for quorum failures only.                        *)
CleanupAfterQuorumError(v, n) ==
    /\ n \in cleanup[v]
    /\ put[v].pc = "quorum"
    /\ wire \cap CallsTo("DELETE", v, Nodes) = {}
    /\ cleanup' = [cleanup EXCEPT ![v] = @ \ {n}]
    /\ wire' = wire \cup CallsTo("DELETE", v, {n})
    /\ UNCHANGED <<objects, disk, rotted, put, del, queue, crashes>>

(* The cleanup task visits one node at a time and sends the next DELETE    *)
(* when the last was answered or given up.                                 *)
CleanupSend(v, n) ==
    /\ n \in cleanup[v]
    /\ \/ wire \cap CallsTo("DELETE", v, Nodes) = {}
       \/ "timeout" \in Faults
    /\ cleanup' = [cleanup EXCEPT ![v] = @ \ {n}]
    /\ wire' = wire \cup CallsTo("DELETE", v, {n})
    /\ UNCHANGED <<objects, disk, rotted, put, del, queue, crashes>>

-----------------------------------------------------------------------------
(* Mutant: the blobs are deleted and the row stays readable.               *)
DeleteWithoutTombstone(v) ==
    /\ v \in LatestRows(objects, KeyOf[v])
    /\ del[v].pc = "idle"
    /\ wire' = wire \cup CallsTo("DELETE", v, objects[v].replicas)
    /\ del' = [del EXCEPT ![v] = [pc |-> "waiting",
                                  left |-> objects[v].replicas]]
    /\ UNCHANGED <<objects, disk, rotted, put, cleanup, queue, crashes>>

(* delete_object: the tombstone and the DELETE calls to the row's          *)
(* replicas, then the answer once each has returned, whatever it returned. *)
DeleteObject(v) ==
    LET replicas == objects[v].replicas
    IN  /\ v \in LatestRows(objects, KeyOf[v])
        /\ objects' = TombstoneObject(objects, v)
        /\ wire' = wire \cup CallsTo("DELETE", v, replicas)
        /\ del' = [del EXCEPT ![v] = [pc |-> "waiting", left |-> replicas]]
        /\ UNCHANGED <<disk, rotted, put, cleanup, queue, crashes>>

DeleteDone(v) ==
    /\ del[v].pc = "waiting"
    /\ del[v].left = {}
    /\ del' = [del EXCEPT ![v].pc = "done"]
    /\ UNCHANGED <<objects, disk, rotted, wire, put, cleanup, queue, crashes>>

-----------------------------------------------------------------------------
(* handle_put_object on node n.  The body always matches its digest here:  *)
(* the engine computes both from the same bytes.                           *)
PutCall(v, n) == [op |-> "PUT", ver |-> v, node |-> n]

NodePut(v, n) ==
    /\ PutCall(v, n) \in wire
    /\ wire' = wire \ {PutCall(v, n)}
    /\ disk' = WriteBlob(disk, n, v, ContentOf[v])
    /\ put' = [put EXCEPT ![v] = Acked(@, n)]
    /\ UNCHANGED <<objects, rotted, del, cleanup, queue, crashes>>

(* The handler's except clause: a 500, and the blob stays.                 *)
NodePutNoSidecar(v, n) ==
    /\ "sidecar" \in Faults
    /\ PutCall(v, n) \in wire
    /\ wire' = wire \ {PutCall(v, n)}
    /\ \E sum \in SidecarsLeft(disk, n, v) :
           disk' = WriteBlobOnly(disk, n, v, ContentOf[v], sum)
    /\ put' = [put EXCEPT ![v] = Returned(@, n)]
    /\ UNCHANGED <<objects, rotted, del, cleanup, queue, crashes>>

(* A 5xx answer, a refused connection, or a call that is lost.             *)
PutRefused(v, n) ==
    /\ Faults \cap {"full", "offline"} # {}
    /\ PutCall(v, n) \in wire
    /\ wire' = wire \ {PutCall(v, n)}
    /\ put' = [put EXCEPT ![v] = Returned(@, n)]
    /\ UNCHANGED <<objects, disk, rotted, del, cleanup, queue, crashes>>

PutTimeout(v, n) ==
    /\ "timeout" \in Faults
    /\ n \in put[v].left
    /\ put' = [put EXCEPT ![v] = Returned(@, n)]
    /\ UNCHANGED <<objects, disk, rotted, wire, del, cleanup, queue, crashes>>

-----------------------------------------------------------------------------
(* handle_delete_object on node n.  delete_object looks at no answer.      *)
DeleteCall(v, n) == [op |-> "DELETE", ver |-> v, node |-> n]

NodeDelete(v, n) ==
    /\ DeleteCall(v, n) \in wire
    /\ wire' = wire \ {DeleteCall(v, n)}
    /\ disk' = RemoveBlob(disk, n, v)
    /\ del' = [del EXCEPT ![v] = Returned(@, n)]
    /\ UNCHANGED <<objects, rotted, put, cleanup, queue, crashes>>

DeleteRefused(v, n) ==
    /\ "offline" \in Faults
    /\ DeleteCall(v, n) \in wire
    /\ wire' = wire \ {DeleteCall(v, n)}
    /\ del' = [del EXCEPT ![v] = Returned(@, n)]
    /\ UNCHANGED <<objects, disk, rotted, put, cleanup, queue, crashes>>

DeleteTimeout(v, n) ==
    /\ "timeout" \in Faults
    /\ n \in del[v].left
    /\ del' = [del EXCEPT ![v] = Returned(@, n)]
    /\ UNCHANGED <<objects, disk, rotted, wire, put, cleanup, queue, crashes>>

-----------------------------------------------------------------------------
(* The engine dies and restarts.  Its calls, tasks and repair queue are    *)
(* gone; the table, the disks and the calls already sent are not.          *)
Crash ==
    /\ crashes < MaxCrashes
    /\ crashes' = crashes + 1
    /\ put' = [v \in Versions |->
                 IF put[v].pc = "uploading" THEN Answered(put[v], "unknown")
                                            ELSE put[v]]
    /\ del' = [v \in Versions |-> [pc |-> "idle", left |-> {}]]
    /\ cleanup' = [v \in Versions |-> {}]
    /\ queue' = [v \in Versions |-> {}]
    /\ UNCHANGED <<objects, disk, rotted, wire>>

(* Bit rot, or POST /node/faults/corrupt; at most once for each file.      *)
Corrupt(v, n) ==
    /\ Cardinality(rotted) < MaxRot
    /\ <<n, v>> \notin rotted
    /\ HasFile(disk, n, v)
    /\ disk' = RotBlob(disk, n, v)
    /\ rotted' = rotted \cup {<<n, v>>}
    /\ UNCHANGED <<objects, wire, put, del, cleanup, queue, crashes>>

-----------------------------------------------------------------------------
PutFinish(v) ==
    \/ \E ring \in Rings : PutCommit(v, ring)
    \/ PutQuorumError(v)
    \/ PutPreconditionError(v)

PutAnswer(v, n) ==
    NodePut(v, n) \/ NodePutNoSidecar(v, n) \/ PutRefused(v, n)

Step(v) ==
    \/ \E cond \in Conditions, ring \in Rings : \E healthy \in SUBSET ring :
           PutStart(v, cond, ring, healthy) \/ PutReject(v, cond, ring, healthy)
    \/ PutFinish(v)
    \/ PutStoreError(v)
    \/ DeleteObject(v)
    \/ DeleteDone(v)

NodeStep(v, n) ==
    \/ PutAnswer(v, n)
    \/ PutTimeout(v, n)
    \/ CleanupSend(v, n)
    \/ NodeDelete(v, n)
    \/ DeleteRefused(v, n)
    \/ DeleteTimeout(v, n)
    \/ Corrupt(v, n)

WriteNext ==
    \/ \E v \in Versions : Step(v)
    \/ \E v \in Versions, n \in Nodes : NodeStep(v, n)

Next == WriteNext \/ Crash

Spec == Init /\ [][Next]_vars

(* What the event loop and the nodes do by themselves.  They do not stop   *)
(* as long as a task can go on or a call waits for its answer, in whatever *)
(* order.  Clients owe nothing: PutStart and DeleteObject are not fair,    *)
(* and neither is any fault.                                               *)
ServerStep ==
    \E v \in Versions :
        \/ PutFinish(v)
        \/ DeleteDone(v)
        \/ \E n \in Nodes : PutAnswer(v, n) \/ NodeDelete(v, n) \/ CleanupSend(v, n)

Fairness == WF_vars(ServerStep)

FairSpec == Spec /\ Fairness
-----------------------------------------------------------------------------
(* Properties                                                              *)

(* Durability.  However uploads, deletions, refusals, late calls, restarts *)
(* and failed metadata updates interleave, a readable version - the latest *)
(* or an older one - is held by W of the replicas its row lists, intact or *)
(* damaged by bit rot alone.  This is what the quorum check, the rollback  *)
(* of losers and the delete fan-out of put_object and delete_object keep   *)
(* between them.                                                           *)
Held(n, v) == Intact(disk, n, v) \/ (HasFile(disk, n, v) /\ <<n, v>> \in rotted)

CommittedDurable ==
    \A v \in Versions :
        objects[v].state = "COMMITTED" =>
            Cardinality({n \in objects[v].replicas : Held(n, v)}) >= W

(* One latest row per object, and never one that was deleted or is not yet *)
(* committed: the SELECT of get_object may take any row that matches.      *)
OneLatest ==
    /\ \A k \in Keys : Cardinality(LatestRows(objects, k)) <= 1
    /\ \A v \in Versions :
           objects[v].latest => objects[v].state = "COMMITTED"

(* The answer a client got stays true: a version whose put was answered    *)
(* with an error on purpose has no row, then or ever after, and one whose  *)
(* put was answered 201 is in the table, readable or tombstoned.           *)
AnswersTruthful ==
    \A v \in Versions :
        /\ put[v].pc \in {"quorum", "precondition"} =>
               objects[v].state = "ABSENT"
        /\ put[v].pc = "ok" => objects[v].state \in {"COMMITTED", "DELETED"}

(* Nothing of v is on its way to a node or waits to be cleaned up.         *)
Settled(v) == cleanup[v] = {} /\ \A call \in wire : call.ver # v

(* README, Durability & Quorum Configuration: "If fewer than W nodes       *)
(* succeed, the write fails and staged temporary files are rolled back."   *)
(* Once the cleanup task of a refused put is over, no node has its blob.   *)
FailedPutLeavesNothing ==
    \A v \in Versions :
        put[v].pc \in {"quorum", "precondition"} /\ Settled(v) =>
            \A n \in Nodes : ~ HasFile(disk, n, v)

(* A put that has been started is answered: the gather of its uploads      *)
(* always ends, and a decision always follows it.                          *)
PutAnswered ==
    \A v \in Versions : put[v].pc = "uploading" ~> put[v].pc # "uploading"

(* The blobs of a refused put or of a deleted version go away: the cleanup *)
(* task and the delete fan-out reach every node they have to.              *)
DeadBlobsCollected ==
    \A v \in Versions :
        (put[v].pc \in {"quorum", "precondition"} \/ del[v].pc # "idle")
            ~> \A n \in Nodes : ~ HasFile(disk, n, v)

(* The engine implements one register per object.                          *)
AnyOf(rows) == IF rows = {} THEN NoVersion ELSE CHOOSE v \in rows : TRUE

CurrentVersion(k) == AnyOf(LatestRows(objects, k))

UploadStatus(v) ==
    CASE objects[v].state = "COMMITTED" -> "installed"
      [] objects[v].state = "DELETED" -> "removed"
      [] objects[v].state = "PENDING" -> "asked"
      [] OTHER -> IF put[v].pc = "idle" THEN "new" ELSE "refused"

Register == INSTANCE ObjectRegister WITH
    current <- [k \in Keys |-> CurrentVersion(k)],
    status <- [v \in Versions |-> UploadStatus(v)],
    wants <- [v \in Versions |-> put[v].cond]

(* Every behaviour of the engine, faults included, is one of the register: *)
(* preconditions are checked at the instant of the commit, an error is     *)
(* final, and deleting the latest version uncovers no older one.           *)
RegisterSpec == Register!Spec
-----------------------------------------------------------------------------
(* The inductive invariant behind the safety properties.                   *)

(* The row of a version follows its put_object call.                       *)
RowsFollowPuts ==
    \A v \in Versions :
        /\ put[v].pc \in {"idle", "quorum", "precondition"} =>
               objects[v].state = "ABSENT"
        /\ put[v].pc = "uploading" => objects[v].state = "PENDING"
        /\ put[v].pc = "ok" => objects[v].state \in {"COMMITTED", "DELETED"}

(* Only an upload in progress has answers to count; it counts nodes its    *)
(* row names, and a node it counts still has the blob.                     *)
AcksHold ==
    \A v \in Versions :
        /\ put[v].pc # "uploading" => put[v].left = {} /\ put[v].acks = {}
        /\ put[v].pc = "uploading" =>
               put[v].left \cup put[v].acks \subseteq objects[v].replicas
        /\ \A n \in put[v].acks : Held(n, v)

(* Blobs are deleted of versions that can neither be read nor commit.      *)
Dead(v) ==
    /\ objects[v].state \in {"ABSENT", "DELETED"}
    /\ put[v].pc \notin {"idle", "uploading"}

DeletesAreForTheDead ==
    /\ \A call \in wire : call.op = "DELETE" => Dead(call.ver)
    /\ \A v \in Versions : cleanup[v] # {} => Dead(v)

(* CommittedDurable with the quorum named.                                 *)
HeldByQuorum(v) ==
    \E S \in SUBSET objects[v].replicas :
        WriteSucceeds(S) /\ \A n \in S : Held(n, v)

QuorumHolds ==
    \A v \in Versions : objects[v].state = "COMMITTED" => HeldByQuorum(v)

(* OneLatest without counting.                                             *)
LatestUnique ==
    \A u, v \in Versions :
        objects[u].latest =>
            /\ objects[u].state = "COMMITTED"
            /\ objects[v].latest /\ KeyOf[u] = KeyOf[v] => u = v

(* The table, the calls and the disks agree; this much needs no quorum.    *)
Consistent ==
    /\ TypeOK
    /\ RowsFollowPuts
    /\ AcksHold
    /\ DeletesAreForTheDead
    /\ LatestUnique

IInv == Consistent /\ QuorumHolds
=============================================================================
