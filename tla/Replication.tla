---------------------------- MODULE Replication ----------------------------
(***************************************************************************)
(* Copies from node to node.  A read repair, the scrubber and the          *)
(* rebalancer all make them the same way: POST /node/replicate to a source *)
(* node, which PUTs its blob to the target and answers when the target has *)
(* (vault/node.py, handle_replicate_object and handle_put_object).         *)
(*                                                                         *)
(* What the one that asked makes of the answer is left to the modules that *)
(* extend this one: the actions say nothing of its variables.              *)
(***************************************************************************)
EXTENDS WritePath

CONSTANTS
    Agents,    \* those who ask for copies
    NoNode     \* no node

ASSUME NoNodeAssumption == NoNode \notin Nodes

VARIABLES
    requests,  \* POST /node/replicate calls on their way to a source
    copies     \* PUT calls on their way from a source to a target

copyVars == <<requests, copies>>

Requests == [by : Agents, ver : Versions, src : Nodes, dst : Nodes]

Copies == [by : Agents, ver : Versions, dst : Nodes,
           data : Bytes, sum : Bytes \cup {NoFile}]

CopyTypeOK == requests \subseteq Requests /\ copies \subseteq Copies

CopyInit == Init /\ requests = {} /\ copies = {}

-----------------------------------------------------------------------------
Request(a, v, src, dst) == [by |-> a, ver |-> v, src |-> src, dst |-> dst]

(* The copies that a asked for have ended.                                 *)
NoCopyFor(a) ==
    /\ \A req \in requests : req.by # a
    /\ \A copy \in copies : copy.by # a

(* Mutant: the copy carries no digest.                                     *)
CopyUndigested(req) ==
    [by |-> req.by, ver |-> req.ver, dst |-> req.dst,
     data |-> disk[req.src][req.ver].data, sum |-> NoFile]

(* What the source sends: whatever is on its disk, under the digest its    *)
(* sidecar holds, if there is a sidecar.                                   *)
CopyOf(req) ==
    [by |-> req.by, ver |-> req.ver, dst |-> req.dst,
     data |-> disk[req.src][req.ver].data, sum |-> disk[req.src][req.ver].sum]

(* Mutant: a blob that is not there is copied all the same.                *)
ReplicateBlindly(req) ==
    /\ requests' = requests \ {req}
    /\ copies' = copies \cup {CopyOf(req)}
    /\ UNCHANGED vars

(* handle_replicate_object on the source: a 404, or a PUT to the target.   *)
Replicate(req) ==
    /\ requests' = requests \ {req}
    /\ copies' = IF HasFile(disk, req.src, req.ver)
                 THEN copies \cup {CopyOf(req)} ELSE copies
    /\ UNCHANGED vars

ReplicateRefused(req) ==
    /\ "offline" \in Faults
    /\ requests' = requests \ {req}
    /\ UNCHANGED <<vars, copies>>

(* handle_put_object on the target: 201, or 400 on a digest mismatch.      *)
CopyPut(copy) ==
    /\ copies' = copies \ {copy}
    /\ disk' = IF Accepts(copy.data, copy.sum)
               THEN WriteBlob(disk, copy.dst, copy.ver, copy.data) ELSE disk
    /\ UNCHANGED <<objects, rotted, wire, put, del, cleanup, queue, crashes,
                   requests>>

CopyPutNoSidecar(copy) ==
    /\ "sidecar" \in Faults
    /\ Accepts(copy.data, copy.sum)
    /\ copies' = copies \ {copy}
    /\ \E sum \in SidecarsLeft(disk, copy.dst, copy.ver) :
           disk' = WriteBlobOnly(disk, copy.dst, copy.ver, copy.data, sum)
    /\ UNCHANGED <<objects, rotted, wire, put, del, cleanup, queue, crashes,
                   requests>>

CopyRefused(copy) ==
    /\ Faults \cap {"full", "offline"} # {}
    /\ copies' = copies \ {copy}
    /\ UNCHANGED <<vars, requests>>

RequestAnswered(req) == Replicate(req) \/ ReplicateRefused(req)

CopyFailed(copy) == CopyPutNoSidecar(copy) \/ CopyRefused(copy)

(* get_node_config knows no such node at the moment.                       *)
Unregistered(n) == \E ring \in Rings : n \notin ring

(* No URL to call, a refused connection, a timeout or an error status.     *)
MayNotAnswer(n) == Unregistered(n) \/ Faults \cap {"offline", "timeout"} # {}

(* Every node stays registered and answers.                                *)
AllAnswer == \A n \in Nodes : ~ MayNotAnswer(n)

(* A task copies to one node at a time.  The answer to the call that it    *)
(* awaits (`wait`) is on its way to it from the moment the call is handled *)
(* (`reply`); what it then counts in `done` are the targets that answered  *)
(* 201.  Nobody hears the answer to a call that was given up, unless the   *)
(* task awaits another such call by then.                                  *)
Replies == {"none", "ok", "failed"}

Told(task, v, dst, ok) ==
    IF task.wait = dst /\ task.ver = v /\ task.reply = "none"
    THEN [task EXCEPT !.reply = IF ok THEN "ok" ELSE "failed"]
    ELSE task

(* The answer arrives.                                                     *)
Counted(task) ==
    [task EXCEPT !.wait = NoNode, !.reply = "none",
                 !.done = IF task.reply = "ok" THEN @ \cup {task.wait} ELSE @]

(* It does not, or too late.                                               *)
GivenUp(task) == [task EXCEPT !.wait = NoNode, !.reply = "none"]

(* The targets that answered 201, whether or not the task has heard.       *)
Restored(task) ==
    task.done \cup (IF task.reply = "ok" THEN {task.wait} ELSE {})

-----------------------------------------------------------------------------
(* _repair_replicas: "Copies verified object payload from source_node to   *)
(* target_nodes."  A copy that its target will accept is the uploaded      *)
(* content, though the source may have rotted since it was verified.       *)
CopiesVerified ==
    \A copy \in copies :
        Accepts(copy.data, copy.sum) => copy.data = ContentOf[copy.ver]
=============================================================================
