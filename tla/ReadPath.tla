------------------------------ MODULE ReadPath ------------------------------
(***************************************************************************)
(* VaultEngine's get_object with its inline read repair (vault/engine.py), *)
(* running beside the puts and deletes of WritePath.                       *)
(*                                                                         *)
(* A read asks every replica in turn, keeps the first good answer and then *)
(* has its source node copy the blob over the replicas that were bad.  The *)
(* copies are those of Replication.                                        *)
(***************************************************************************)
EXTENDS Replication

CONSTANT Reads    \* the get_object calls, each made at most once

ASSUME ReadAssumption == Reads \subseteq Agents

VARIABLE read    \* read[r]: the state of one get_object call

allVars == <<vars, copyVars, read>>

ReadStates == {"idle", "reading", "served", "unrecoverable", "unknown"}

(* What is asked for: all of the object, a range of it, or a range that    *)
(* reaches past its end.                                                   *)
Spans == {"all", "within", "past"}

Read == [pc : ReadStates, ver : Versions \cup {NoVersion}, span : Spans,
         todo : SUBSET Nodes,              \* replicas not asked yet
         bad : SUBSET Nodes,               \* corrupted_nodes
         sent : SUBSET Nodes,              \* of these, dealt with
         got : Bytes \cup {NoFile},        \* payload_data
         src : Nodes \cup {NoNode}]        \* successful_source_node

ReadTypeOK == CopyTypeOK /\ read \in [Reads -> Read]

ReadInit ==
    /\ CopyInit
    /\ read = [r \in Reads |->
                 [pc |-> "idle", ver |-> NoVersion, span |-> "all",
                  todo |-> {}, bad |-> {}, sent |-> {},
                  got |-> NoFile, src |-> NoNode]]

-----------------------------------------------------------------------------
(* The row is read once, by version id or as the latest; all that follows  *)
(* works from that snapshot.                                               *)
ReadStart(r, v, span) ==
    /\ read[r].pc = "idle"
    /\ objects[v].state = "COMMITTED"
    /\ read' = [read EXCEPT ![r] =
                  [@ EXCEPT !.pc = "reading", !.ver = v, !.span = span,
                            !.todo = objects[v].replicas]]
    /\ UNCHANGED <<vars, copyVars>>

(* Mutant: a 200 is a good answer.                                         *)
GoodUnchecked(v, span, data) == data # NoFile

(* One replica answers: 200 or 206 with the bytes on its disk, 404, or 416 *)
(* to a range past the end.  A full read checks the bytes against the      *)
(* row's digest, a ranged read does not; a 416 is neither good nor bad.    *)
Good(v, span, data) ==
    data # NoFile /\ (span = "all" => data = ContentOf[v])

Unsatisfiable(rd, data) == rd.span = "past" /\ data # NoFile

(* Mutant: the first bad replica ends the loop.                            *)
HearOneBad(rd, n, data) ==
    LET next == [rd EXCEPT !.todo = @ \ {n}]
    IN  IF Unsatisfiable(rd, data) THEN next
        ELSE IF ~ Good(rd.ver, rd.span, data)
        THEN [next EXCEPT !.todo = {}, !.bad = @ \cup {n}]
        ELSE IF rd.src = NoNode THEN [next EXCEPT !.got = data, !.src = n]
        ELSE next

Hear(rd, n, data) ==
    LET next == [rd EXCEPT !.todo = @ \ {n}]
    IN  IF Unsatisfiable(rd, data) THEN next
        ELSE IF ~ Good(rd.ver, rd.span, data)
        THEN [next EXCEPT !.bad = @ \cup {n}]
        ELSE IF rd.src = NoNode THEN [next EXCEPT !.got = data, !.src = n]
        ELSE next

ReadReplica(r, n) ==
    /\ n \in read[r].todo
    /\ read' = [read EXCEPT ![r] = Hear(@, n, disk[n][read[r].ver].data)]
    /\ UNCHANGED <<vars, copyVars>>

ReadUnreachable(r, n) ==
    /\ n \in read[r].todo
    /\ MayNotAnswer(n)
    /\ read' = [read EXCEPT ![r].todo = @ \ {n}]
    /\ UNCHANGED <<vars, copyVars>>

AllAsked(r) == read[r].pc = "reading" /\ read[r].todo = {}

(* Mutant: only a read that met no bad replica gives up.                   *)
ReadUnreachableOnly(r) ==
    /\ AllAsked(r)
    /\ read[r].src = NoNode
    /\ read[r].bad = {}
    /\ read' = [read EXCEPT ![r].pc = "unrecoverable"]
    /\ UNCHANGED <<vars, copyVars>>

ReadUnrecoverable(r) ==
    /\ AllAsked(r)
    /\ read[r].src = NoNode
    /\ read' = [read EXCEPT ![r].pc = "unrecoverable"]
    /\ UNCHANGED <<vars, copyVars>>

ReadServe(r) ==
    /\ AllAsked(r)
    /\ read[r].src # NoNode
    /\ read[r].bad = {}
    /\ read' = [read EXCEPT ![r].pc = "served"]
    /\ UNCHANGED <<vars, copyVars>>

-----------------------------------------------------------------------------
(* Mutant: the copies are started and not awaited.                         *)
RepairNotAwaited(r) == AllAsked(r)

(* _repair_replicas: one bad replica at a time, each call answered or given *)
(* up before the next; what it answered is only logged.                    *)
RepairIdle(r) ==
    NoCopyFor(r) \/ "timeout" \in Faults

RepairSend(r, dst) ==
    LET rd == read[r]
    IN  /\ AllAsked(r)
        /\ rd.src # NoNode
        /\ dst \in rd.bad \ rd.sent
        /\ RepairIdle(r)
        /\ requests' = requests \cup {Request(r, rd.ver, rd.src, dst)}
        /\ read' = [read EXCEPT ![r].sent = @ \cup {dst}]
        /\ UNCHANGED <<vars, copies>>

(* The target has no URL: the repair goes on to the next.                  *)
RepairSkip(r, dst) ==
    /\ AllAsked(r)
    /\ read[r].src # NoNode
    /\ dst \in read[r].bad \ read[r].sent
    /\ RepairIdle(r)
    /\ Unregistered(dst)
    /\ read' = [read EXCEPT ![r].sent = @ \cup {dst}]
    /\ UNCHANGED <<vars, copyVars>>

(* The source has none: no copy, and no new row.                           *)
RepairNothing(r) ==
    /\ AllAsked(r)
    /\ read[r].src # NoNode
    /\ read[r].bad # {}
    /\ read[r].sent = {}
    /\ Unregistered(read[r].src)
    /\ read' = [read EXCEPT ![r].pc = "served"]
    /\ UNCHANGED <<vars, copyVars>>

(* Mutant: the repaired nodes replace the row's replicas.                  *)
RepairedOnly(rd) == rd.bad

(* The repaired nodes join the replicas of the row as it now is.           *)
MergedReplicas(rd) == objects[rd.ver].replicas \cup rd.bad

RepairsDone(r) ==
    /\ AllAsked(r)
    /\ read[r].src # NoNode
    /\ read[r].bad # {}
    /\ read[r].sent = read[r].bad
    /\ RepairIdle(r)

(* The row is read again and updated, whether or not the copies succeeded. *)
RepairFinish(r) ==
    LET rd == read[r]
    IN  /\ RepairsDone(r)
        /\ objects' = IF objects[rd.ver].state = "COMMITTED"
                      THEN UpdateObjectReplicas(objects, rd.ver, MergedReplicas(rd))
                      ELSE objects
        /\ read' = [read EXCEPT ![r].pc = "served"]
        /\ UNCHANGED <<disk, rotted, wire, put, del, cleanup, queue, crashes,
                       requests, copies>>

(* An SQLite error there goes through get_object to the client, who gets   *)
(* no bytes.                                                               *)
RepairStoreError(r) ==
    /\ "store" \in Faults
    /\ RepairsDone(r)
    /\ read' = [read EXCEPT ![r].pc = "unknown"]
    /\ UNCHANGED <<vars, copyVars>>

-----------------------------------------------------------------------------
(* A restart of the engine forgets its reads as well.                      *)
CrashAll ==
    /\ Crash
    /\ read' = [r \in Reads |->
                  IF read[r].pc = "reading"
                  THEN [read[r] EXCEPT !.pc = "unknown", !.todo = {}]
                  ELSE read[r]]
    /\ UNCHANGED copyVars

ReadFinish(r) ==
    ReadUnrecoverable(r) \/ ReadServe(r) \/ RepairNothing(r) \/ RepairFinish(r)

ReadAdvance(r, n) ==
    \/ ReadReplica(r, n) \/ ReadUnreachable(r, n)
    \/ RepairSend(r, n) \/ RepairSkip(r, n)

ReadStep ==
    \/ \E r \in Reads :
           \/ \E v \in Versions, span \in Spans : ReadStart(r, v, span)
           \/ \E n \in Nodes : ReadAdvance(r, n)
           \/ ReadFinish(r)
           \/ RepairStoreError(r)

(* What the copies of a repair answered is only logged.                    *)
CopyStep ==
    /\ \/ \E req \in requests : RequestAnswered(req)
       \/ \E copy \in copies : CopyPut(copy) \/ CopyFailed(copy)
    /\ UNCHANGED read

ReadNext ==
    \/ WriteNext /\ UNCHANGED <<copyVars, read>>
    \/ ReadStep
    \/ CopyStep
    \/ CrashAll

ReadSpec == ReadInit /\ [][ReadNext]_allVars

ReadFairness ==
    /\ \A r \in Reads :
           /\ WF_allVars(ReadFinish(r))
           /\ \A n \in Nodes : WF_allVars(ReadAdvance(r, n))
    /\ WF_allVars(CopyStep)

FairReadSpec == ReadSpec /\ ReadFairness

-----------------------------------------------------------------------------
(* Properties.  CommittedDurable of WritePath is one of them.              *)

(* A full read returns the bytes that were uploaded.                       *)
FullReadsExact ==
    \A r \in Reads :
        read[r].pc = "served" /\ read[r].span = "all" =>
            read[r].got = ContentOf[read[r].ver]

(* The version is lost: rot has reached W of its replicas, or it was        *)
(* deleted meanwhile.                                                      *)
Lost(v) ==
    \/ objects[v].state = "DELETED"
    \/ Cardinality({n \in objects[v].replicas : <<n, v>> \in rotted}) >= W

(* A read of bytes that the object has fails with                          *)
(* ObjectUnrecoverableError only for an object that is lost.               *)
UnrecoverableMeansLost ==
    \A r \in Reads :
        read[r].pc = "unrecoverable" /\ read[r].span # "past" =>
            Lost(read[r].ver)

(* A full read that was served leaves every replica that it found bad      *)
(* holding the uploaded content, when no node fails and rot strikes once.  *)
ServedReadHeals ==
    \A r \in Reads :
        LET v == read[r].ver
        IN  read[r].pc = "served" /\ read[r].span = "all"
                /\ objects[v].state = "COMMITTED" /\ Cardinality(rotted) <= 1 =>
              \A n \in read[r].bad : Intact(disk, n, v)

(* A read is answered, whatever its replicas do.                           *)
ReadAnswered ==
    \A r \in Reads : read[r].pc = "reading" ~> read[r].pc # "reading"
=============================================================================
