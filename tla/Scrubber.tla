------------------------------ MODULE Scrubber ------------------------------
(***************************************************************************)
(* ActiveScrubber (vault/repair.py): a pass over a snapshot of the latest  *)
(* rows that has every replica verified by its node, and those that failed *)
(* overwritten from one that did not, beside the puts and deletes of       *)
(* WritePath.  One task at a time: is_scrubbing refuses a second.          *)
(***************************************************************************)
EXTENDS Replication

CONSTANTS
    ScrubTask,   \* the scrubber, among those who ask for copies
    MaxScrubs    \* bound: passes made

ASSUME ScrubAssumption == ScrubTask \in Agents /\ MaxScrubs \in Nat

VARIABLE scrub    \* the state of run_scrub

scrubVars == <<vars, copyVars, scrub>>

Scrub == [pc : {"idle", "next", "audit", "heal"},
          rows : SUBSET Versions,              \* of the snapshot, still to do
          listed : [Versions -> SUBSET Nodes], \* replicas in the snapshot
          ver : Versions \cup {NoVersion},     \* the version visited
          todo : SUBSET Nodes,                 \* ... its nodes still to do
          good : SUBSET Nodes,                 \* healthy_nodes
          bad : SUBSET Nodes,                  \* corrupted_or_missing_nodes
          silent : SUBSET Nodes,               \* ... of these, without answer
          donor : Nodes \cup {NoNode},
          wait : Nodes \cup {NoNode},          \* the copy awaited
          reply : Replies,                     \* ... its answer, on its way
          done : SUBSET Nodes,                 \* repaired
          lost : SUBSET Versions,              \* unrecoverable_objects
          runs : Nat]

ScrubTypeOK == CopyTypeOK /\ scrub \in Scrub

NoScrub == [pc |-> "idle", rows |-> {}, listed |-> [v \in Versions |-> {}],
            ver |-> NoVersion, todo |-> {}, good |-> {}, bad |-> {},
            silent |-> {}, donor |-> NoNode, wait |-> NoNode,
            reply |-> "none", done |-> {}, lost |-> {}, runs |-> 0]

ScrubInit == CopyInit /\ scrub = NoScrub

(* The steps of the task that touch nothing but its own state.             *)
Becomes(next) == scrub' = next /\ UNCHANGED <<vars, copyVars>>

-----------------------------------------------------------------------------
(* get_all_committed_objects: one SELECT for the whole pass.               *)
ScrubStart ==
    /\ scrub.pc = "idle"
    /\ scrub.runs < MaxScrubs
    /\ Becomes([NoScrub EXCEPT
                  !.pc = "next",
                  !.rows = UNION {LatestRows(objects, k) : k \in Keys},
                  !.listed = [v \in Versions |-> objects[v].replicas],
                  !.runs = scrub.runs + 1])

AuditStart(v) ==
    /\ scrub.pc = "next"
    /\ v \in scrub.rows
    /\ Becomes([scrub EXCEPT
                  !.pc = "audit", !.rows = @ \ {v}, !.ver = v,
                  !.todo = scrub.listed[v], !.good = {}, !.bad = {},
                  !.silent = {}, !.donor = NoNode, !.done = {}])

Auditing(n) == scrub.pc = "audit" /\ n \in scrub.todo

(* handle_verify_object compares the file with the digest of the row; 404  *)
(* when there is no file.                                                  *)
Verify(n) ==
    /\ Auditing(n)
    /\ Becomes(IF Intact(disk, n, scrub.ver)
               THEN [scrub EXCEPT !.todo = @ \ {n}, !.good = @ \cup {n}]
               ELSE [scrub EXCEPT !.todo = @ \ {n}, !.bad = @ \cup {n}])

VerifyFailed(n) ==
    /\ Auditing(n)
    /\ MayNotAnswer(n)
    /\ Becomes([scrub EXCEPT !.todo = @ \ {n}, !.bad = @ \cup {n},
                             !.silent = @ \cup {n}])

Audited == scrub.pc = "audit" /\ scrub.todo = {}

(* Mutant: one bad replica is enough to report the object.                 *)
AuditLostEarly ==
    /\ scrub.pc = "audit"
    /\ scrub.good = {}
    /\ scrub.bad # {}
    /\ Becomes([scrub EXCEPT !.pc = "next", !.todo = {},
                             !.lost = @ \cup {scrub.ver}])

(* No healthy replica: the object is reported unrecoverable.               *)
AuditLost ==
    /\ Audited
    /\ scrub.good = {}
    /\ Becomes([scrub EXCEPT !.pc = "next", !.lost = @ \cup {scrub.ver}])

(* The donor is the first of the healthy replicas; nothing is healed if it *)
(* has been deregistered since.                                            *)
AuditDone(donor, ring) ==
    /\ Audited
    /\ donor \in scrub.good
    /\ Becomes([scrub EXCEPT
                  !.pc = "heal", !.donor = donor,
                  !.todo = IF donor \in ring THEN scrub.bad ELSE {}])

Healing == scrub.pc = "heal" /\ scrub.wait = NoNode

HealSend(dst) ==
    /\ Healing
    /\ dst \in scrub.todo
    /\ requests' = requests \cup
                     {Request(ScrubTask, scrub.ver, scrub.donor, dst)}
    /\ scrub' = [scrub EXCEPT !.todo = @ \ {dst}, !.wait = dst]
    /\ UNCHANGED <<vars, copies>>

HealSkip(dst) ==
    /\ Healing
    /\ dst \in scrub.todo
    /\ Unregistered(dst)
    /\ Becomes([scrub EXCEPT !.todo = @ \ {dst}])

(* The donor's answer reaches the scrubber.                                *)
HealHeard ==
    /\ scrub.reply # "none"
    /\ Becomes(Counted(scrub))

HealTimeout ==
    /\ "timeout" \in Faults
    /\ scrub.wait # NoNode
    /\ Becomes(GivenUp(scrub))

HealDone ==
    /\ Healing
    /\ scrub.todo = {}
    /\ Becomes([scrub EXCEPT !.pc = "next"])

ScrubDone ==
    /\ scrub.pc = "next"
    /\ scrub.rows = {}
    /\ Becomes([scrub EXCEPT !.pc = "idle"])

-----------------------------------------------------------------------------
(* A 404 of the donor, or no answer, is an answer to the scrubber.         *)
HealRequest(req) ==
    \/ /\ Replicate(req)
       /\ scrub' = IF HasFile(disk, req.src, req.ver) THEN scrub
                    ELSE Told(scrub, req.ver, req.dst, FALSE)
    \/ /\ ReplicateRefused(req)
       /\ scrub' = Told(scrub, req.ver, req.dst, FALSE)

(* Mutant: whatever the donor answers is a 200.                            *)
HealCopyAnyStatus(copy) ==
    /\ CopyPut(copy) \/ CopyFailed(copy)
    /\ scrub' = Told(scrub, copy.ver, copy.dst, TRUE)

(* The donor answers 502 when its target refuses the copy.                 *)
HealCopy(copy) ==
    \/ /\ CopyPut(copy)
       /\ scrub' = Told(scrub, copy.ver, copy.dst, Accepts(copy.data, copy.sum))
    \/ /\ CopyFailed(copy)
       /\ scrub' = Told(scrub, copy.ver, copy.dst, FALSE)

(* A restart of the gateway ends the pass.                                 *)
ScrubCrash ==
    /\ Crash
    /\ scrub' = [NoScrub EXCEPT !.runs = scrub.runs]
    /\ UNCHANGED copyVars

AuditStep ==
    \/ \E v \in Versions : AuditStart(v)
    \/ \E n \in Nodes : Verify(n) \/ VerifyFailed(n)
    \/ AuditLost
    \/ \E n \in Nodes, ring \in Rings : AuditDone(n, ring)

HealStep ==
    \/ \E n \in Nodes : HealSend(n) \/ HealSkip(n)
    \/ HealHeard
    \/ HealDone
    \/ ScrubDone

HealAnswer ==
    \/ \E req \in requests : HealRequest(req)
    \/ \E copy \in copies : HealCopy(copy)

ScrubNext ==
    \/ WriteNext /\ UNCHANGED <<copyVars, scrub>>
    \/ ScrubStart
    \/ AuditStep
    \/ HealStep
    \/ HealTimeout
    \/ HealAnswer
    \/ ScrubCrash

ScrubSpec == ScrubInit /\ [][ScrubNext]_scrubVars

-----------------------------------------------------------------------------
(* Properties                                                              *)

(* "automatically restores full replication from healthy copies": nothing  *)
(* but rot damages an intact replica of a readable version, though a       *)
(* replica that did not answer is overwritten like a broken one, from a    *)
(* donor that may have rotted since it was verified.                       *)
IntactStays ==
    [][\A n \in Nodes, v \in Versions :
          Intact(disk, n, v) /\ objects[v].state = "COMMITTED"
              /\ rotted' = rotted => Intact(disk', n, v)]_scrubVars

(* The report counts a copy as a repair once its answer has come; the      *)
(* replica was intact when its target gave that answer.  Rot, or a         *)
(* deletion, may have followed.                                            *)
RepairedIsIntact ==
    [][\A n \in Restored(scrub') \ Restored(scrub) :
          Intact(disk', n, scrub'.ver)]_scrubVars

(* An object all of whose replicas answered is reported as unrecoverable   *)
(* only if none of them holds the uploaded content, or it was deleted      *)
(* while the scrub visited it.                                             *)
ReportedMeansLost ==
    scrub.ver \in scrub.lost /\ scrub.silent = {} =>
        \/ objects[scrub.ver].state = "DELETED"
        \/ \A n \in objects[scrub.ver].replicas : ~ Intact(disk, n, scrub.ver)
=============================================================================
