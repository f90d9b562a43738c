----------------------------- MODULE Rebalancer -----------------------------
(***************************************************************************)
(* Rebalancer (vault/rebalance.py): a plan made from a snapshot of the     *)
(* latest rows, then one migration after another - copies to the nodes     *)
(* that the placement now wants, a new replica list, DELETEs to the nodes  *)
(* that it no longer wants - beside the puts and deletes of WritePath.     *)
(***************************************************************************)
EXTENDS Replication

CONSTANTS
    RebalanceTask,   \* the rebalancer, among those who ask for copies
    MaxRebalances,   \* bound: runs of it
    LateCalls        \* whether a call may outlast the run that made it

ASSUME RebalanceAssumption ==
    /\ RebalanceTask \in Agents
    /\ MaxRebalances \in Nat
    /\ LateCalls \in BOOLEAN

VARIABLES
    move,    \* the state of run_rebalance and of _migrate_object
    prunes   \* DELETE calls for surplus replicas on their way to a node

moveVars == <<vars, copyVars, move, prunes>>

Move == [pc : {"idle", "next", "copy", "prune"},
         rows : SUBSET Versions,              \* planned and still to do
         listed : [Versions -> SUBSET Nodes], \* replicas when it was planned
         target : [Versions -> SUBSET Nodes], \* placement when it was planned
         healthy : SUBSET Nodes,              \* HEALTHY nodes, since the plan
         ver : Versions \cup {NoVersion},     \* the version migrated
         donor : Nodes \cup {NoNode},
         todo : SUBSET Nodes,                 \* nodes to copy to, or to prune
         wait : Nodes \cup {NoNode},          \* the call awaited
         reply : Replies,                     \* ... its answer, on its way
         done : SUBSET Nodes,                 \* successful_targets
         runs : Nat]

Prunes == [ver : Versions, node : Nodes]

MoveTypeOK == CopyTypeOK /\ move \in Move /\ prunes \subseteq Prunes

NoMove == [pc |-> "idle", rows |-> {}, listed |-> [v \in Versions |-> {}],
           target |-> [v \in Versions |-> {}], healthy |-> {},
           ver |-> NoVersion, donor |-> NoNode, todo |-> {}, wait |-> NoNode,
           reply |-> "none", done |-> {}, runs |-> 0]

MoveInit == CopyInit /\ move = NoMove /\ prunes = {}

(* The steps of the task that touch nothing but its own state.             *)
MoveTo(next) == move' = next /\ UNCHANGED <<vars, copyVars, prunes>>

Needed(v) == move.target[v] \ move.listed[v]

Surplus(v) == move.listed[v] \ move.target[v]

-----------------------------------------------------------------------------
(* The plan, made without an await: every latest version that is missing   *)
(* on a node where it would be placed now, among the registered nodes that *)
(* are HEALTHY, however few they are.                                      *)
RebalanceStart(healthy) ==
    LET latest == UNION {LatestRows(objects, k) : k \in Keys}
        target == [v \in Versions |-> Candidates(KeyOf[v], healthy)]
    IN  /\ move.pc = "idle"
        /\ move.runs < MaxRebalances
        /\ LateCalls \/ (prunes = {} /\ NoCopyFor(RebalanceTask))
        /\ MoveTo([NoMove EXCEPT
                     !.pc = "next",
                     !.rows = {v \in latest :
                                 ~ target[v] \subseteq objects[v].replicas},
                     !.listed = [v \in Versions |-> objects[v].replicas],
                     !.target = target,
                     !.healthy = healthy,
                     !.runs = move.runs + 1])

(* Nothing has been awaited since the plan was made: the cluster is still  *)
(* as the plan saw it.  (A plan with no HEALTHY node migrates nothing.)    *)
AsPlanned == move.healthy # {}

(* The donor is the first replica that is HEALTHY: as the plan saw it, or, *)
(* once a call has been awaited, any that is registered may be.            *)
MayDonate(v) ==
    move.listed[v] \cap (IF AsPlanned THEN move.healthy ELSE UNION Rings)

MigrateStart(v, donor) ==
    /\ move.pc = "next"
    /\ v \in move.rows
    /\ donor \in MayDonate(v)
    /\ MoveTo([move EXCEPT !.pc = "copy", !.rows = @ \ {v}, !.ver = v,
                           !.donor = donor, !.todo = Needed(v), !.done = {}])

(* None is.                                                                *)
MigrateSkip(v) ==
    /\ move.pc = "next"
    /\ v \in move.rows
    /\ AsPlanned => MayDonate(v) = {}
    /\ MoveTo([move EXCEPT !.rows = @ \ {v}])

MoveSend(dst) ==
    /\ move.pc = "copy"
    /\ move.wait = NoNode
    /\ dst \in move.todo
    /\ requests' = requests \cup
                     {Request(RebalanceTask, move.ver, move.donor, dst)}
    /\ move' = [move EXCEPT !.todo = @ \ {dst}, !.wait = dst, !.healthy = {}]
    /\ UNCHANGED <<vars, copies, prunes>>

(* The node was deregistered: neither copied to nor pruned.                *)
MoveSkip(n) ==
    /\ move.pc \in {"copy", "prune"}
    /\ move.wait = NoNode
    /\ n \in move.todo
    /\ ~ AsPlanned
    /\ Unregistered(n)
    /\ MoveTo([move EXCEPT !.todo = @ \ {n}])

(* The answer reaches the rebalancer.                                      *)
MoveHeard ==
    /\ move.reply # "none"
    /\ MoveTo(Counted(move))

MoveTimeout ==
    /\ "timeout" \in Faults
    /\ move.wait # NoNode
    /\ MoveTo(GivenUp(move))

Copied == move.pc = "copy" /\ move.wait = NoNode /\ move.todo = {}

(* No target was copied to: the object is left as it is.                   *)
MigrateNothing ==
    /\ Copied
    /\ move.done = {}
    /\ MoveTo([move EXCEPT !.pc = "next"])

(* Mutant: the surplus is pruned whether or not anything was copied.       *)
MigrateUnconditionally ==
    /\ Copied
    /\ objects' = UpdateObjectReplicas(objects, move.ver,
                      (move.listed[move.ver] \cup move.done)
                          \ Surplus(move.ver))
    /\ move' = [move EXCEPT !.pc = "prune", !.todo = Surplus(move.ver)]
    /\ UNCHANGED <<disk, rotted, wire, put, del, cleanup, queue, crashes,
                   copyVars, prunes>>

(* One success is enough.  The new list comes from the planned row, and is *)
(* written whatever the row has become.                                    *)
MigrateCommit ==
    LET v == move.ver
    IN  /\ Copied
        /\ move.done # {}
        /\ objects' = UpdateObjectReplicas(objects, v,
                          (move.listed[v] \cup move.done) \ Surplus(v))
        /\ move' = [move EXCEPT !.pc = "prune", !.todo = Surplus(v)]
        /\ UNCHANGED <<disk, rotted, wire, put, del, cleanup, queue, crashes,
                       copyVars, prunes>>

(* update_object_replicas raises: the run ends as FAILED.                  *)
MigrateStoreError ==
    /\ "store" \in Faults
    /\ Copied
    /\ move.done # {}
    /\ MoveTo([NoMove EXCEPT !.runs = move.runs])

PruneSend(n) ==
    /\ move.pc = "prune"
    /\ move.wait = NoNode
    /\ n \in move.todo
    /\ prunes' = prunes \cup {[ver |-> move.ver, node |-> n]}
    /\ move' = [move EXCEPT !.todo = @ \ {n}, !.wait = n]
    /\ UNCHANGED <<vars, copyVars>>

PruneDone ==
    /\ move.pc = "prune"
    /\ move.wait = NoNode
    /\ move.todo = {}
    /\ MoveTo([move EXCEPT !.pc = "next"])

RebalanceDone ==
    /\ move.pc = "next"
    /\ move.rows = {}
    /\ MoveTo([move EXCEPT !.pc = "idle"])

-----------------------------------------------------------------------------
(* Mutant: whatever the donor answers is a 200.                            *)
MoveCopyAnyStatus(copy) ==
    /\ CopyPut(copy) \/ CopyFailed(copy)
    /\ move' = Told(move, copy.ver, copy.dst, TRUE)
    /\ UNCHANGED prunes

(* The donor answers 200 when its target has the blob, else 404 or 502.    *)
MoveCopy(copy) ==
    /\ \/ /\ CopyPut(copy)
          /\ move' = Told(move, copy.ver, copy.dst,
                          Accepts(copy.data, copy.sum))
       \/ /\ CopyFailed(copy)
          /\ move' = Told(move, copy.ver, copy.dst, FALSE)
    /\ UNCHANGED prunes

MoveRequest(req) ==
    /\ \/ /\ Replicate(req)
          /\ move' = IF HasFile(disk, req.src, req.ver) THEN move
                      ELSE Told(move, req.ver, req.dst, FALSE)
       \/ /\ ReplicateRefused(req)
          /\ move' = Told(move, req.ver, req.dst, FALSE)
    /\ UNCHANGED prunes

(* handle_delete_object on a surplus node; what it answers is only logged. *)
NodePrune(call) ==
    /\ prunes' = prunes \ {call}
    /\ disk' = RemoveBlob(disk, call.node, call.ver)
    /\ move' = Told(move, call.ver, call.node, FALSE)
    /\ UNCHANGED <<objects, rotted, wire, put, del, cleanup, queue, crashes,
                   copyVars>>

PruneRefused(call) ==
    /\ "offline" \in Faults
    /\ prunes' = prunes \ {call}
    /\ move' = Told(move, call.ver, call.node, FALSE)
    /\ UNCHANGED <<vars, copyVars>>

(* A restart of the gateway forgets the plan.                              *)
MoveCrash ==
    /\ Crash
    /\ move' = [NoMove EXCEPT !.runs = move.runs]
    /\ UNCHANGED <<copyVars, prunes>>

-----------------------------------------------------------------------------
MigrateStep ==
    \/ \E v \in Versions : MigrateSkip(v) \/ \E n \in Nodes : MigrateStart(v, n)
    \/ \E n \in Nodes : MoveSend(n) \/ MoveSkip(n) \/ PruneSend(n)
    \/ MoveHeard
    \/ MigrateNothing
    \/ MigrateCommit
    \/ PruneDone
    \/ RebalanceDone

MoveAnswer ==
    \/ \E req \in requests : MoveRequest(req)
    \/ \E copy \in copies : MoveCopy(copy)
    \/ \E call \in prunes : NodePrune(call) \/ PruneRefused(call)

MoveNext ==
    \/ WriteNext /\ UNCHANGED <<copyVars, move, prunes>>
    \/ \E ring \in Rings : \E healthy \in SUBSET ring : RebalanceStart(healthy)
    \/ MigrateStep
    \/ MigrateStoreError
    \/ MoveTimeout
    \/ MoveAnswer
    \/ MoveCrash

RebalanceSpec == MoveInit /\ [][MoveNext]_moveVars

-----------------------------------------------------------------------------
(* Properties.  CommittedDurable of WritePath is not one of them: see      *)
(* PrunesAreSafe.                                                          *)

(* Whatever a migration copies, lists and prunes, a readable version keeps *)
(* a replica that its row lists: with the uploaded content, or rotten.     *)
SomeReplicaHeld ==
    \A v \in Versions :
        objects[v].state = "COMMITTED" =>
            \E n \in objects[v].replicas : Held(n, v)

(* A readable version whose put was answered 201 lists no node that lacks  *)
(* its blob: the list follows the copies, and the DELETEs follow the list. *)
ListedHaveBlob ==
    \A v \in Versions :
        objects[v].state = "COMMITTED" /\ put[v].pc = "ok" =>
            \A n \in objects[v].replicas : HasFile(disk, n, v)

(* rebalance.py:181: "Safely prune decommissioned/surplus replicas from old *)
(* nodes".  Without the replica that a DELETE is on its way to, a readable *)
(* version still has W.                                                    *)
PrunesAreSafe ==
    \A call \in prunes :
        objects[call.ver].state = "COMMITTED" =>
            WriteSucceeds({n \in Nodes \ {call.node} :
                              HasFile(disk, n, call.ver)})
=============================================================================
