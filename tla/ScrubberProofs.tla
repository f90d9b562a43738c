--------------------------- MODULE ScrubberProofs ---------------------------
(***************************************************************************)
(* Proofs about Scrubber: passes of the scrubber beside uploads and        *)
(* deletions, for every number of nodes, every fault and every quorum.     *)
(***************************************************************************)
EXTENDS Scrubber, WritePathProofs

-----------------------------------------------------------------------------
(* The inductive invariant behind IntactStays and RepairedIsIntact.        *)

(* A scrub visits versions that are or were readable, and heals from a     *)
(* donor.                                                                  *)
ScrubsAreOfRows ==
    /\ \A v \in scrub.rows \cup scrub.lost : Decided(v)
    /\ scrub.pc \in {"audit", "heal"} =>
           scrub.ver \in Versions /\ Decided(scrub.ver)
    /\ scrub.pc = "heal" => scrub.donor \in Nodes

(* An answer is on its way only while it is awaited.                       *)
AnswersAwaited == scrub.reply # "none" => scrub.wait # NoNode

ScrubInv ==
    /\ Consistent
    /\ ScrubTypeOK
    /\ CopiesOfDecided
    /\ ScrubsAreOfRows
    /\ AnswersAwaited

-----------------------------------------------------------------------------
(* The inductive invariant behind ReportedMeansLost.                       *)

(* A pass visits a version once.                                           *)
VisitedOnce ==
    /\ scrub.rows \cap scrub.lost = {}
    /\ scrub.pc \in {"audit", "heal"} =>
           scrub.ver \notin scrub.rows \cup scrub.lost

(* No copy is under way of a version that is audited, will be or was lost. *)
CopiesApart ==
    \A call \in requests \cup copies :
        /\ call.ver \notin scrub.rows \cup scrub.lost
        /\ scrub.pc = "audit" => call.ver # scrub.ver

(* The answer of every copy is awaited: while it is, the call or its       *)
(* answer is on its way.                                                   *)
CopiesAwaited ==
    /\ scrub.wait # NoNode => scrub.pc = "heal"
    /\ scrub.runs = 0 => scrub.pc = "idle" /\ NoCopies
    /\ Prompt =>
           \/ NoCopies /\ (scrub.wait = NoNode \/ scrub.reply # "none")
           \/ \E call \in requests \cup copies :
                 /\ scrub.wait # NoNode /\ scrub.reply = "none"
                 /\ call.ver = scrub.ver /\ call.dst = scrub.wait
                 /\ \/ requests = {call} /\ copies = {}
                    \/ requests = {} /\ copies = {call}

(* An audit has asked every replica of the row, and those that answered    *)
(* without being healthy are not.                                          *)
AuditsHeard ==
    /\ \A v \in scrub.rows : scrub.listed[v] = objects[v].replicas
    /\ scrub.pc = "audit" =>
           /\ objects[scrub.ver].replicas
                 = scrub.todo \cup scrub.good \cup scrub.bad
           /\ \/ objects[scrub.ver].state = "DELETED"
              \/ \A n \in scrub.bad \ scrub.silent :
                    ~ Intact(disk, n, scrub.ver)

ReportInv ==
    /\ ScrubInv
    /\ UploadsOver
    /\ VisitedOnce
    /\ CopiesApart
    /\ CopiesAwaited
    /\ AuditsHeard
    /\ ReportedMeansLost

-----------------------------------------------------------------------------
(* Types.                                                                  *)

LEMMA ToldTyped ==
    ASSUME NEW task \in Scrub, NEW v, NEW dst \in Nodes, NEW ok \in BOOLEAN
    PROVE  /\ Told(task, v, dst, ok) \in Scrub
           /\ Told(task, v, dst, ok).pc = task.pc
           /\ Told(task, v, dst, ok).rows = task.rows
           /\ Told(task, v, dst, ok).lost = task.lost
           /\ Told(task, v, dst, ok).ver = task.ver
           /\ Told(task, v, dst, ok).donor = task.donor
           /\ Told(task, v, dst, ok).wait = task.wait
           /\ Told(task, v, dst, ok).reply # "none"
                  => task.wait = dst \/ task.reply # "none"
  <1> DEFINE awaited == task.wait = dst /\ task.ver = v /\ task.reply = "none"
  <1>1. CASE ~ awaited
    BY <1>1 DEF Told
  <1>2. CASE awaited
    BY <1>2 DEF Told, Scrub, Replies
  <1> QED BY <1>1, <1>2

(* A step of the task that touches nothing but its own state.              *)
OwnStep ==
    \/ ScrubStart
    \/ AuditStep
    \/ \E n \in Nodes : HealSkip(n)
    \/ HealDone
    \/ ScrubDone
    \/ HealHeard
    \/ HealTimeout

LEMMA OwnStepFrame == OwnStep => UNCHANGED <<vars, copyVars>>
  BY DEF OwnStep, ScrubStart, AuditStep, AuditStart, Verify, VerifyFailed,
         AuditLost, AuditDone, HealSkip, HealDone, ScrubDone, HealHeard,
         HealTimeout, Becomes

(* Where such a step may go.                                               *)
LEMMA OwnStepRows ==
    ASSUME ScrubInv, OwnStep
    PROVE  /\ scrub' \in Scrub
           /\ \A v \in scrub'.rows \cup scrub'.lost : Decided(v)
           /\ scrub'.pc \in {"audit", "heal"} =>
                  scrub'.ver \in Versions /\ Decided(scrub'.ver)
           /\ scrub'.pc = "heal" => scrub'.donor \in Nodes
           /\ AnswersAwaited'
           /\ Restored(scrub') \subseteq Restored(scrub)
  <1> DEFINE SameCall == scrub'.wait = scrub.wait /\ scrub'.reply = scrub.reply
  <1>0. /\ scrub \in Scrub /\ TypeOK
        /\ \A v \in scrub.rows \cup scrub.lost : v \in Versions /\ Decided(v)
        /\ scrub.pc \in {"audit", "heal"} =>
               scrub.ver \in Versions /\ Decided(scrub.ver)
        /\ scrub.pc = "heal" => scrub.donor \in Nodes
        /\ scrub.reply # "none" => scrub.wait # NoNode
    BY DEF ScrubInv, ScrubTypeOK, ScrubsAreOfRows, AnswersAwaited, Consistent,
           TypeOK, Scrub
  <1>1. CASE ScrubStart
    <2> DEFINE latest == UNION {LatestRows(objects, k) : k \in Keys}
               listed == [v \in Versions |-> objects[v].replicas]
    <2>1. latest \subseteq Versions /\ \A v \in latest : Decided(v)
      BY DEF LatestRows, Decided
    <2>2. listed \in [Versions -> SUBSET Nodes]
      BY <1>0 DEF TypeOK, Row
    <2> HIDE DEF latest, listed
    <2>3. scrub' = [NoScrub EXCEPT !.pc = "next", !.rows = latest,
                                   !.listed = listed, !.runs = scrub.runs + 1]
      BY <1>1 DEF ScrubStart, Becomes, latest, listed
    <2> DEFINE runs == scrub.runs + 1
    <2>4. runs \in Nat
      BY <1>0 DEF Scrub
    <2> HIDE DEF runs
    <2>5. scrub' = [NoScrub EXCEPT !.pc = "next", !.rows = latest,
                                   !.listed = listed, !.runs = runs]
      BY <2>3 DEF runs
    <2>6. /\ scrub'.pc = "next" /\ scrub'.rows = latest /\ scrub'.done = {}
          /\ scrub'.lost = {} /\ scrub'.reply = "none"
      BY <2>5 DEF NoScrub
    <2>7. scrub' \in Scrub
      BY <2>1, <2>2, <2>4, <2>5 DEF NoScrub, Scrub, Replies
    <2> QED BY <2>1, <2>6, <2>7 DEF AnswersAwaited, Restored
  <1>2. ASSUME NEW v \in Versions, AuditStart(v)
        PROVE  /\ scrub' \in Scrub /\ scrub'.pc = "audit" /\ scrub'.ver = v
               /\ v \in scrub.rows /\ scrub'.rows = scrub.rows \ {v}
               /\ scrub'.done = {} /\ scrub'.lost = scrub.lost /\ SameCall
    BY <1>0, <1>2 DEF AuditStart, Becomes, Scrub
  <1>3. ASSUME NEW n \in Nodes, Verify(n) \/ VerifyFailed(n)
        PROVE  /\ scrub' \in Scrub /\ scrub'.pc = scrub.pc
               /\ scrub'.ver = scrub.ver /\ scrub'.rows = scrub.rows
               /\ scrub'.done = scrub.done /\ scrub'.lost = scrub.lost
               /\ scrub.pc = "audit" /\ SameCall
    <2>1. scrub.pc = "audit" /\ n \in scrub.todo
      BY <1>3 DEF Verify, VerifyFailed, Auditing
    <2>2. \/ scrub' = [scrub EXCEPT !.todo = @ \ {n}, !.good = @ \cup {n}]
          \/ scrub' = [scrub EXCEPT !.todo = @ \ {n}, !.bad = @ \cup {n}]
          \/ scrub' = [scrub EXCEPT !.todo = @ \ {n}, !.bad = @ \cup {n},
                                    !.silent = @ \cup {n}]
      BY <1>3 DEF Verify, VerifyFailed, Becomes
    <2>3. CASE scrub' = [scrub EXCEPT !.todo = @ \ {n}, !.good = @ \cup {n}]
      BY <1>0, <2>1, <2>3 DEF Scrub
    <2>4. CASE scrub' = [scrub EXCEPT !.todo = @ \ {n}, !.bad = @ \cup {n}]
      BY <1>0, <2>1, <2>4 DEF Scrub
    <2>5. CASE scrub' = [scrub EXCEPT !.todo = @ \ {n}, !.bad = @ \cup {n},
                                      !.silent = @ \cup {n}]
      BY <1>0, <2>1, <2>5 DEF Scrub
    <2> QED BY <2>2, <2>3, <2>4, <2>5
  <1>4. CASE AuditLost
    <2>1. /\ scrub' \in Scrub /\ scrub'.pc = "next"
          /\ scrub'.rows = scrub.rows /\ scrub'.done = scrub.done
          /\ scrub'.lost = scrub.lost \cup {scrub.ver} /\ scrub.pc = "audit"
          /\ SameCall
      BY <1>0, <1>4 DEF AuditLost, Audited, Becomes, Scrub
    <2> QED BY <1>0, <2>1 DEF AnswersAwaited, Restored
  <1>5. ASSUME NEW n \in Nodes, NEW ring \in Rings, AuditDone(n, ring)
        PROVE  /\ scrub' \in Scrub /\ scrub.pc = "audit"
               /\ scrub'.pc = "heal" /\ scrub'.ver = scrub.ver
               /\ scrub'.rows = scrub.rows /\ scrub'.done = scrub.done
               /\ scrub'.donor = n /\ scrub'.lost = scrub.lost /\ SameCall
    BY <1>0, <1>5 DEF AuditDone, Audited, Becomes, Scrub
  <1>6. ASSUME \/ \E n \in Nodes : HealSkip(n)
               \/ HealDone \/ ScrubDone
        PROVE  /\ scrub' \in Scrub /\ scrub'.pc \in {scrub.pc, "next", "idle"}
               /\ scrub'.ver = scrub.ver /\ scrub'.rows = scrub.rows
               /\ scrub'.done = scrub.done /\ scrub'.donor = scrub.donor
               /\ scrub'.lost = scrub.lost /\ SameCall
    BY <1>0, <1>6 DEF HealSkip, HealDone, ScrubDone, Becomes, Scrub
  <1>7. ASSUME HealHeard \/ HealTimeout
        PROVE  /\ scrub' \in Scrub /\ scrub'.pc = scrub.pc
               /\ scrub'.ver = scrub.ver /\ scrub'.rows = scrub.rows
               /\ scrub'.donor = scrub.donor /\ scrub'.lost = scrub.lost
               /\ scrub'.reply = "none"
               /\ scrub'.done \subseteq Restored(scrub)
    <2>1. CASE HealHeard
      <3>1. CASE scrub.reply = "ok"
        BY <1>0, <2>1, <3>1
        DEF HealHeard, Becomes, Counted, Restored, Scrub, Replies
      <3>2. CASE scrub.reply # "ok"
        BY <1>0, <2>1, <3>2
        DEF HealHeard, Becomes, Counted, Restored, Scrub, Replies
      <3> QED BY <3>1, <3>2
    <2>2. CASE HealTimeout
      BY <1>0, <2>2 DEF HealTimeout, Becomes, GivenUp, Restored, Scrub, Replies
    <2> QED BY <1>7, <2>1, <2>2
  <1>8. ASSUME SameCall, scrub'.done \subseteq scrub.done
        PROVE  AnswersAwaited' /\ Restored(scrub') \subseteq Restored(scrub)
    BY <1>0, <1>8 DEF AnswersAwaited, Restored
  <1>9. ASSUME scrub'.reply = "none", scrub'.done \subseteq Restored(scrub)
        PROVE  AnswersAwaited' /\ Restored(scrub') \subseteq Restored(scrub)
    BY <1>9 DEF AnswersAwaited, Restored
  <1> HIDE DEF SameCall
  <1> QED
    BY <1>0, <1>1, <1>2, <1>3, <1>4, <1>5, <1>6, <1>7, <1>8, <1>9
    DEF OwnStep, AuditStep

-----------------------------------------------------------------------------
(* The inductive invariant.                                                *)

LEMMA InitScrubInv == ScrubInit => ScrubInv
  <1> SUFFICES ASSUME ScrubInit PROVE ScrubInv OBVIOUS
  <1>1. Consistent
    BY InitIInv DEF ScrubInit, CopyInit, IInv
  <1>2. ScrubTypeOK
    BY DEF ScrubInit, CopyInit, ScrubTypeOK, CopyTypeOK, Scrub, NoScrub,
           Replies
  <1> QED
    BY <1>1, <1>2
    DEF ScrubInit, CopyInit, ScrubInv, CopiesOfDecided, ScrubsAreOfRows,
        AnswersAwaited, NoScrub

(* Beside the write path, or when it restarts.                             *)
LEMMA WriteScrubInv ==
    ASSUME ScrubInv, [Next]_vars, UNCHANGED copyVars,
           UNCHANGED scrub \/ scrub' = [NoScrub EXCEPT !.runs = scrub.runs]
    PROVE  ScrubInv'
  <1>0. Consistent /\ CopyTypeOK /\ CopiesOfDecided /\ scrub \in Scrub
    BY DEF ScrubInv, ScrubTypeOK
  <1>1. Consistent' /\ CopyTypeOK' /\ CopiesOfDecided'
    BY <1>0, NextConsistent, WriteCopies
  <1>2. scrub' \in Scrub /\ AnswersAwaited'
    BY <1>0 DEF NoScrub, Scrub, Replies, ScrubInv, AnswersAwaited
  <1>3. ScrubsAreOfRows'
    <2>1. CASE UNCHANGED scrub
      <3>1. scrub.rows \cup scrub.lost \subseteq Versions
        BY <1>0 DEF Scrub
      <3> QED
        BY <1>0, <2>1, <3>1, DecidedStays DEF ScrubInv, ScrubsAreOfRows
    <2>2. CASE scrub' = [NoScrub EXCEPT !.runs = scrub.runs]
      BY <2>2 DEF NoScrub, ScrubsAreOfRows
    <2> QED BY <2>1, <2>2
  <1> QED BY <1>1, <1>2, <1>3 DEF ScrubInv, ScrubTypeOK

LEMMA OwnStepInv ==
    ASSUME ScrubInv, OwnStep
    PROVE  ScrubInv'
  <1>1. UNCHANGED <<vars, copyVars>>
    BY OwnStepFrame
  <1>2. Consistent'
    BY <1>1, NextConsistent DEF ScrubInv
  <1>3. CopyTypeOK' /\ CopiesOfDecided' /\ \A v : Decided(v) <=> Decided(v)'
    BY <1>1
    DEF ScrubInv, ScrubTypeOK, CopyTypeOK, CopiesOfDecided, Decided, vars,
        copyVars
  <1> QED
    BY <1>2, <1>3, OwnStepRows DEF ScrubInv, ScrubTypeOK, ScrubsAreOfRows

LEMMA HealSendInv ==
    ASSUME ScrubInv, NEW dst \in Nodes, HealSend(dst)
    PROVE  ScrubInv'
  <1>0. Consistent /\ CopyTypeOK /\ CopiesOfDecided /\ scrub \in Scrub
    BY DEF ScrubInv, ScrubTypeOK
  <1>1. /\ scrub.ver \in Versions /\ Decided(scrub.ver)
        /\ scrub.pc = "heal" /\ scrub.donor \in Nodes
        /\ \A v \in scrub.rows \cup scrub.lost : Decided(v)
    BY DEF HealSend, Healing, ScrubInv, ScrubsAreOfRows
  <1>2. /\ UNCHANGED <<vars, copies>>
        /\ requests' = requests \cup
              {Request(ScrubTask, scrub.ver, scrub.donor, dst)}
    BY DEF HealSend
  <1>3. Consistent' /\ \A v : Decided(v) <=> Decided(v)'
    BY <1>0, <1>2, NextConsistent DEF Decided, vars
  <1>4. CopyTypeOK'
    BY <1>0, <1>1, <1>2, RequestTyped, ScrubAssumption DEF CopyTypeOK
  <1>5. CopiesOfDecided'
    BY <1>0, <1>1, <1>2, <1>3 DEF CopiesOfDecided, Request
  <1>6. /\ scrub' \in Scrub /\ scrub'.pc = scrub.pc /\ scrub'.ver = scrub.ver
        /\ scrub'.rows = scrub.rows /\ scrub'.donor = scrub.donor
        /\ scrub'.lost = scrub.lost /\ scrub'.wait = dst
    BY <1>0 DEF HealSend, Scrub
  <1>7. ScrubsAreOfRows' /\ AnswersAwaited'
    BY <1>1, <1>3, <1>6, NoNodeAssumption DEF ScrubsAreOfRows, AnswersAwaited
  <1> QED BY <1>3, <1>4, <1>5, <1>6, <1>7 DEF ScrubInv, ScrubTypeOK

(* The answers of the donor and of the target.                             *)
LEMMA ToldInv ==
    ASSUME ScrubInv, Consistent', CopyTypeOK', CopiesOfDecided',
           UNCHANGED objects, NEW v, NEW dst \in Nodes, NEW ok \in BOOLEAN,
           UNCHANGED scrub \/ scrub' = Told(scrub, v, dst, ok)
    PROVE  ScrubInv'
  <1>1. /\ scrub' \in Scrub /\ scrub'.pc = scrub.pc /\ scrub'.ver = scrub.ver
        /\ scrub'.rows = scrub.rows /\ scrub'.donor = scrub.donor
        /\ scrub'.lost = scrub.lost /\ scrub'.wait = scrub.wait
        /\ scrub'.reply # "none" => scrub.wait = dst \/ scrub.reply # "none"
    BY ToldTyped DEF ScrubInv, ScrubTypeOK
  <1>2. ScrubsAreOfRows' /\ AnswersAwaited'
    BY <1>1, NoNodeAssumption
    DEF ScrubInv, ScrubsAreOfRows, AnswersAwaited, Decided
  <1> QED BY <1>1, <1>2 DEF ScrubInv, ScrubTypeOK

LEMMA HealRequestInv ==
    ASSUME ScrubInv, NEW req \in requests, HealRequest(req)
    PROVE  ScrubInv'
  <1>0. Consistent /\ CopyTypeOK /\ CopiesOfDecided
    BY DEF ScrubInv, ScrubTypeOK
  <1>1. RequestAnswered(req) /\ UNCHANGED vars
    BY DEF HealRequest, RequestAnswered, Replicate, ReplicateRefused
  <1>2. Consistent' /\ CopyTypeOK' /\ CopiesOfDecided'
    BY <1>0, <1>1, NextConsistent, RequestAnsweredTyped, RequestAnsweredDecided
    DEF Consistent
  <1>3. req.dst \in Nodes
    BY <1>0 DEF CopyTypeOK, Requests
  <1>4. UNCHANGED scrub \/ scrub' = Told(scrub, req.ver, req.dst, FALSE)
    BY DEF HealRequest
  <1> QED BY <1>1, <1>2, <1>3, <1>4, ToldInv DEF vars

LEMMA HealCopyInv ==
    ASSUME ScrubInv, NEW copy \in copies, HealCopy(copy)
    PROVE  ScrubInv'
  <1>0. Consistent /\ CopyTypeOK /\ CopiesOfDecided
    BY DEF ScrubInv, ScrubTypeOK
  <1>1. CopyPut(copy) \/ CopyFailed(copy)
    BY DEF HealCopy
  <1>2. Consistent' /\ CopyTypeOK' /\ CopiesOfDecided' /\ UNCHANGED objects
    BY <1>0, <1>1, CopyConsistent, CopyFrame
  <1>3. copy.dst \in Nodes
    BY <1>0 DEF CopyTypeOK, Copies
  <1>4. PICK ok \in BOOLEAN : scrub' = Told(scrub, copy.ver, copy.dst, ok)
    BY DEF HealCopy, Accepts
  <1> QED BY <1>2, <1>3, <1>4, ToldInv

LEMMA NextScrubInv == ScrubInv /\ [ScrubNext]_scrubVars => ScrubInv'
  <1> SUFFICES ASSUME ScrubInv, [ScrubNext]_scrubVars PROVE ScrubInv'
    OBVIOUS
  <1>1. CASE UNCHANGED scrubVars \/ (WriteNext /\ UNCHANGED <<copyVars, scrub>>)
    BY <1>1, WriteScrubInv DEF scrubVars, Next
  <1>2. CASE ScrubCrash
    BY <1>2, WriteScrubInv DEF ScrubCrash, Next
  <1>3. CASE OwnStep
    BY <1>3, OwnStepInv
  <1>4. ASSUME NEW dst \in Nodes, HealSend(dst) PROVE ScrubInv'
    BY <1>4, HealSendInv
  <1>5. CASE HealAnswer
    BY <1>5, HealRequestInv, HealCopyInv DEF HealAnswer
  <1> QED
    BY <1>1, <1>2, <1>3, <1>4, <1>5 DEF ScrubNext, OwnStep, HealStep

(* The inductive invariant of the scrubber.                                *)
THEOREM ScrubInvariance == ScrubSpec => []ScrubInv
  BY InitScrubInv, NextScrubInv, PTL DEF ScrubSpec

(* The scrubber, its calls and their answers keep their types.             *)
THEOREM ScrubTyping == ScrubSpec => []ScrubTypeOK
  <1>1. ScrubInv => ScrubTypeOK
    BY DEF ScrubInv
  <1> QED BY <1>1, ScrubInvariance, PTL
-----------------------------------------------------------------------------
(* What a step of any kind is to the engine's state.                       *)
LEMMA ScrubSteps ==
    ASSUME ScrubInv, [ScrubNext]_scrubVars
    PROVE  \/ /\ [Next]_vars /\ UNCHANGED copies
              /\ Restored(scrub') \subseteq Restored(scrub)
           \/ \E req \in requests : HealRequest(req)
           \/ \E copy \in copies : HealCopy(copy)
  <1>0. scrub \in Scrub /\ (scrub.reply # "none" => scrub.wait # NoNode)
    BY DEF ScrubInv, ScrubTypeOK, AnswersAwaited
  <1>1. CASE UNCHANGED scrubVars \/ (WriteNext /\ UNCHANGED <<copyVars, scrub>>)
    BY <1>1 DEF scrubVars, copyVars, Next
  <1>2. CASE ScrubCrash
    <2>1. scrub'.done = {} /\ scrub'.reply = "none"
      BY <1>2 DEF ScrubCrash, NoScrub
    <2> QED BY <1>2, <2>1 DEF ScrubCrash, copyVars, Next, Restored
  <1>3. CASE OwnStep
    BY <1>3, OwnStepFrame, OwnStepRows DEF copyVars
  <1>4. ASSUME NEW dst \in Nodes, HealSend(dst)
        PROVE  UNCHANGED <<vars, copies>> /\ Restored(scrub') = Restored(scrub)
    <2>1. /\ UNCHANGED <<vars, copies>> /\ scrub'.done = scrub.done
          /\ scrub'.reply = "none" /\ scrub.reply = "none"
      BY <1>0, <1>4 DEF HealSend, Healing, Scrub
    <2> QED BY <2>1 DEF Restored
  <1> QED
    BY <1>1, <1>2, <1>3, <1>4
    DEF ScrubNext, OwnStep, HealStep, HealAnswer

LEMMA ScrubRegisterStep ==
    ScrubInv /\ ScrubInv' /\ [ScrubNext]_scrubVars
        => [Register!Next]_(Register!vars)
  <1> SUFFICES ASSUME ScrubInv, ScrubInv', [ScrubNext]_scrubVars
               PROVE  [Register!Next]_(Register!vars)
    OBVIOUS
  <1>0. Consistent /\ Consistent'
    BY DEF ScrubInv
  <1>1. CASE [Next]_vars
    BY <1>0, <1>1, RegisterStep
  <1>2. ASSUME NEW req \in requests, HealRequest(req) PROVE UNCHANGED vars
    BY <1>2 DEF HealRequest, Replicate, ReplicateRefused
  <1>3. ASSUME NEW copy \in copies, HealCopy(copy)
        PROVE  UNCHANGED Register!vars
    BY <1>0, <1>3, CopyStutters DEF HealCopy
  <1> QED BY <1>1, <1>2, <1>3, ScrubSteps

(* Scrubs are invisible to the register that the engine implements.        *)
THEOREM ScrubImplementation == ScrubSpec => RegisterSpec
  <1>1. ScrubInit => Register!Init
    BY RegisterInit DEF ScrubInit, CopyInit
  <1> QED
    BY <1>1, ScrubRegisterStep, ScrubInvariance, PTL
    DEF ScrubSpec, RegisterSpec, Register!Spec

-----------------------------------------------------------------------------
(* A scrub spreads no damage.                                              *)

LEMMA InitVerified == ScrubInit => Digested /\ QuorumHolds
  BY InitDigested, InitIInv DEF ScrubInit, CopyInit, IInv

LEMMA NextVerified ==
    ASSUME ScrubInv, Digested, QuorumHolds, "sidecar" \notin Faults,
           [ScrubNext]_scrubVars
    PROVE  Digested' /\ QuorumHolds'
  <1>0. Consistent /\ TypeOK /\ CopyTypeOK /\ CopiesVerified
    BY DigestedVerifies DEF ScrubInv, ScrubTypeOK, Consistent
  <1>1. CASE [Next]_vars /\ UNCHANGED copies
    BY <1>0, <1>1, WriteDigested, NextIInv DEF IInv
  <1>2. ASSUME NEW req \in requests, HealRequest(req)
        PROVE  Digested' /\ QuorumHolds'
    <2>1. RequestAnswered(req) /\ UNCHANGED vars
      BY <1>2 DEF HealRequest, RequestAnswered, Replicate, ReplicateRefused
    <2> QED BY <1>0, <2>1, RequestDigested, NextIInv DEF IInv
  <1>3. ASSUME NEW copy \in copies, HealCopy(copy)
        PROVE  Digested' /\ QuorumHolds'
    <2>1. CopyPut(copy) \/ CopyFailed(copy)
      BY <1>3 DEF HealCopy
    <2> QED BY <1>0, <2>1, CopyDigested, CopyQuorum
  <1> QED BY <1>1, <1>2, <1>3, ScrubSteps

LEMMA Verified ==
    ASSUME "sidecar" \notin Faults
    PROVE  ScrubSpec => [](ScrubInv /\ Digested /\ QuorumHolds)
  <1>1. ScrubInv /\ Digested /\ QuorumHolds /\ [ScrubNext]_scrubVars
            => Digested' /\ QuorumHolds'
    BY NextVerified
  <1> QED BY <1>1, InitVerified, InitScrubInv, NextScrubInv, PTL DEF ScrubSpec

(* However a pass overwrites replicas, some of which only did not answer,  *)
(* a readable version keeps W of them, as long as no sidecar is lost.      *)
THEOREM ScrubDurability ==
    ASSUME "sidecar" \notin Faults
    PROVE  ScrubSpec => []CommittedDurable
  <1>1. ScrubInv /\ QuorumHolds => CommittedDurable
    BY QuorumCounted DEF ScrubInv, IInv
  <1> QED BY <1>1, Verified, PTL

(* As long as no sidecar is lost, nothing but rot damages an intact        *)
(* replica of a readable version: neither a copy from a donor that has     *)
(* rotted since it was verified, nor one that arrives when its pass is     *)
(* long over.                                                              *)
THEOREM Unharmed ==
    ASSUME "sidecar" \notin Faults
    PROVE  ScrubSpec => IntactStays
  <1>1. ASSUME ScrubInv, Digested, [ScrubNext]_scrubVars,
               NEW n \in Nodes, NEW v \in Versions,
               Intact(disk, n, v), objects[v].state = "COMMITTED",
               rotted' = rotted
        PROVE  Intact(disk', n, v)
    <2>0. Consistent /\ TypeOK /\ CopyTypeOK /\ CopiesVerified
      BY <1>1, DigestedVerifies DEF ScrubInv, ScrubTypeOK, Consistent
    <2>1. CASE [Next]_vars
      <3>1. disk'[n][v] = disk[n][v] \/ FileUploaded(n, v)
        BY <1>1, <2>0, <2>1, FileSteps DEF FileRots, FileDeleted, Dead
      <3> QED BY <1>1, <3>1 DEF FileUploaded, Intact
    <2>2. ASSUME NEW req \in requests, HealRequest(req) PROVE UNCHANGED disk
      BY <2>2 DEF HealRequest, Replicate, ReplicateRefused, vars
    <2>3. ASSUME NEW copy \in copies, HealCopy(copy)
          PROVE  disk'[n][v] = disk[n][v] \/ disk'[n][v].data = ContentOf[v]
      <3>1. CopyPut(copy) \/ CopyFailed(copy)
        BY <2>3 DEF HealCopy
      <3> QED BY <2>0, <3>1, CopySteps DEF FileCopied, CopiesVerified
    <2> QED BY <1>1, <2>1, <2>2, <2>3, ScrubSteps DEF Intact
  <1>2. ScrubInv /\ Digested /\ [ScrubNext]_scrubVars =>
            [\A n \in Nodes, v \in Versions :
                Intact(disk, n, v) /\ objects[v].state = "COMMITTED"
                    /\ rotted' = rotted => Intact(disk', n, v)]_scrubVars
    BY <1>1
  <1> QED BY <1>2, Verified, PTL DEF ScrubSpec, IntactStays

(* As long as no sidecar is lost, what a pass counts as a repair, now or   *)
(* when the answer reaches it, was intact when its target gave the answer: *)
(* neither a copy from a donor that has rotted since it was verified nor   *)
(* the answer to another copy, to another node or of another version, is   *)
(* taken for one.                                                          *)
THEOREM Repaired ==
    ASSUME "sidecar" \notin Faults
    PROVE  ScrubSpec => RepairedIsIntact
  <1>1. ASSUME ScrubInv, Digested, [ScrubNext]_scrubVars,
               NEW n \in Restored(scrub') \ Restored(scrub)
        PROVE  Intact(disk', n, scrub'.ver)
    <2>0. TypeOK /\ CopyTypeOK /\ CopiesVerified /\ scrub \in Scrub
      BY <1>1, DigestedVerifies DEF ScrubInv, ScrubTypeOK, Consistent
    <2>1. ASSUME NEW req \in requests, HealRequest(req) PROVE FALSE
      <3>1. scrub' = scrub \/ scrub' = Told(scrub, req.ver, req.dst, FALSE)
        BY <2>1 DEF HealRequest
      <3>2. Restored(scrub') \subseteq Restored(scrub)
        BY <2>0, <3>1 DEF Told, Scrub, Restored
      <3> QED BY <1>1, <3>2
    <2>2. ASSUME NEW copy \in copies, HealCopy(copy)
          PROVE  Intact(disk', n, scrub'.ver)
      <3>1. PICK ok \in BOOLEAN :
                /\ scrub' = Told(scrub, copy.ver, copy.dst, ok)
                /\ ok => CopyPut(copy) /\ Accepts(copy.data, copy.sum)
        BY <2>2 DEF HealCopy, Accepts
      <3>2. ok /\ scrub.ver = copy.ver /\ n = copy.dst /\ scrub'.ver = copy.ver
        BY <1>1, <2>0, <3>1 DEF Told, Scrub, Restored
      <3>3. disk'[n][copy.ver].data = copy.data
        <4>1. copy.ver \in Versions /\ copy.dst \in Nodes
          BY <2>0 DEF CopyTypeOK, Copies
        <4> QED
          BY <2>0, <3>1, <3>2, <4>1 DEF CopyPut, WriteBlob, TypeOK
      <3>4. copy.data = ContentOf[copy.ver]
        BY <2>0, <3>1, <3>2 DEF CopiesVerified
      <3> QED BY <3>2, <3>3, <3>4 DEF Intact
    <2> QED BY <1>1, <2>1, <2>2, ScrubSteps
  <1>2. ScrubInv /\ Digested /\ [ScrubNext]_scrubVars =>
            [\A n \in Restored(scrub') \ Restored(scrub) :
                Intact(disk', n, scrub'.ver)]_scrubVars
    BY <1>1
  <1> QED BY <1>2, Verified, PTL DEF ScrubSpec, RepairedIsIntact
-----------------------------------------------------------------------------
(* What is reported as unrecoverable is.                                   *)

LEMMA InitReport == ScrubInit => ReportInv
  <1> SUFFICES ASSUME ScrubInit PROVE ReportInv OBVIOUS
  <1>1. ScrubInv /\ UploadsOver
    BY InitScrubInv, InitUploadsOver DEF ScrubInit, CopyInit
  <1> QED
    BY <1>1
    DEF ScrubInit, CopyInit, ReportInv, VisitedOnce, CopiesApart,
        CopiesAwaited, AuditsHeard, ReportedMeansLost, NoScrub, NoCopies

(* A replica of a decided row gets its content back by no upload.          *)
LEMMA StaysBad ==
    ASSUME Consistent, UploadsOver, [Next]_vars,
           NEW v \in Versions, Decided(v),
           NEW n \in objects[v].replicas, ~ Intact(disk, n, v)
    PROVE  ~ Intact(disk', n, v)
  <1>1. n \in Nodes
    BY DEF Consistent, TypeOK, Row
  <1>2. ~ FileUploaded(n, v)
    BY <1>1 DEF FileUploaded, UploadsOver, Decided
  <1>3. ContentOf[v] # Rot /\ ContentOf[v] # NoFile
    BY ContentAssumption DEF Contents
  <1>4. disk'[n][v] = disk[n][v] \/ FileRots(n, v) \/ FileDeleted(n, v)
    BY <1>1, <1>2, FileSteps
  <1> QED BY <1>3, <1>4 DEF FileRots, FileDeleted, Intact, Nothing

(* Beside the write path.                                                  *)
LEMMA WriteReport ==
    ASSUME ReportInv, ScrubInv', [Next]_vars, UNCHANGED <<copyVars, scrub>>,
           "timeout" \notin Faults \/ "store" \notin Faults
    PROVE  ReportInv'
  <1>0. /\ Consistent /\ scrub \in Scrub
        /\ \A v \in scrub.rows : v \in Versions /\ Decided(v)
        /\ scrub.pc = "audit" => scrub.ver \in Versions /\ Decided(scrub.ver)
    BY DEF ReportInv, ScrubInv, ScrubTypeOK, ScrubsAreOfRows, Scrub
  <1>1. UploadsOver'
    BY <1>0, NextUploadsOver DEF ReportInv
  <1>2. VisitedOnce' /\ CopiesApart' /\ CopiesAwaited'
    BY DEF ReportInv, VisitedOnce, CopiesApart, CopiesAwaited, NoCopies,
           copyVars
  <1>3. AuditsHeard'
    <2>1. \A v \in scrub.rows : scrub.listed[v] = objects'[v].replicas
      BY <1>0, DecidedRow DEF ReportInv, AuditsHeard
    <2>2. ASSUME scrub.pc = "audit"
          PROVE  /\ objects'[scrub.ver].replicas
                       = scrub.todo \cup scrub.good \cup scrub.bad
                 /\ \/ objects'[scrub.ver].state = "DELETED"
                    \/ \A n \in scrub.bad \ scrub.silent :
                          ~ Intact(disk', n, scrub.ver)
      <3>1. PICK v \in Versions : v = scrub.ver /\ Decided(v)
        BY <1>0, <2>2
      <3>2. /\ objects[v].replicas = scrub.todo \cup scrub.good \cup scrub.bad
            /\ \/ objects[v].state = "DELETED"
               \/ \A n \in scrub.bad \ scrub.silent : ~ Intact(disk, n, v)
        BY <2>2, <3>1 DEF ReportInv, AuditsHeard
      <3>3. /\ objects'[v].replicas = objects[v].replicas
            /\ objects[v].state = "DELETED" => objects'[v].state = "DELETED"
        BY <1>0, <3>1, DecidedRow
      <3>4. \A n \in objects[v].replicas :
                ~ Intact(disk, n, v) => ~ Intact(disk', n, v)
        BY <1>0, <3>1, StaysBad DEF ReportInv
      <3> QED BY <3>1, <3>2, <3>3, <3>4
    <2> QED BY <2>1, <2>2 DEF AuditsHeard
  <1>4. ReportedMeansLost'
    <2> SUFFICES ASSUME scrub.ver \in scrub.lost, scrub.silent = {},
                        objects'[scrub.ver].state # "DELETED",
                        NEW n \in objects'[scrub.ver].replicas
                 PROVE  ~ Intact(disk', n, scrub.ver)
      BY DEF ReportedMeansLost
    <2>1. PICK v \in Versions : v = scrub.ver /\ Decided(v)
      BY <1>0 DEF ReportInv, ScrubInv, ScrubsAreOfRows, Scrub
    <2>2. /\ objects'[v].replicas = objects[v].replicas
          /\ objects[v].state # "DELETED"
      BY <1>0, <2>1, DecidedRow
    <2>3. ~ Intact(disk, n, v)
      BY <2>1, <2>2 DEF ReportInv, ReportedMeansLost
    <2> QED BY <1>0, <2>1, <2>2, <2>3, StaysBad DEF ReportInv
  <1> QED BY <1>1, <1>2, <1>3, <1>4 DEF ReportInv

LEMMA CrashReport ==
    ASSUME ReportInv, ScrubInv', ScrubCrash,
           "timeout" \notin Faults \/ "store" \notin Faults
    PROVE  ReportInv'
  <1>0. Consistent /\ scrub \in Scrub /\ crashes \in Nat
    BY DEF ReportInv, ScrubInv, ScrubTypeOK, Consistent, TypeOK
  <1>1. UploadsOver'
    BY <1>0, NextUploadsOver DEF ReportInv, ScrubCrash, Next
  <1>2. /\ scrub'.pc = "idle" /\ scrub'.rows = {} /\ scrub'.lost = {}
        /\ scrub'.wait = NoNode /\ scrub'.runs = scrub.runs
        /\ UNCHANGED copyVars
    BY DEF ScrubCrash, NoScrub
  <1>3. ~ Prompt
    BY <1>0 DEF Prompt, ScrubCrash, Crash
  <1>4. CopiesAwaited'
    BY <1>2, <1>3 DEF ReportInv, CopiesAwaited, NoCopies, Prompt, copyVars
  <1>5. VisitedOnce' /\ CopiesApart' /\ AuditsHeard' /\ ReportedMeansLost'
    BY <1>2 DEF VisitedOnce, CopiesApart, AuditsHeard, ReportedMeansLost
  <1> QED BY <1>1, <1>4, <1>5 DEF ReportInv

(* The task goes on with what it visits.                                   *)
LEMMA TaskReport ==
    ASSUME ReportInv, ScrubInv', UNCHANGED <<vars, copyVars>>,
           scrub'.ver = scrub.ver, scrub'.rows = scrub.rows,
           scrub'.lost = scrub.lost, scrub'.listed = scrub.listed,
           scrub'.silent = scrub.silent, scrub'.runs = scrub.runs,
           scrub'.pc # "audit", scrub.pc # "idle",
           scrub'.pc = "heal" => scrub.pc \in {"audit", "heal"},
           \/ /\ scrub'.wait = scrub.wait /\ scrub'.reply = scrub.reply
              /\ scrub.wait # NoNode => scrub'.pc = scrub.pc
           \/ scrub'.wait = NoNode /\ (~ Prompt \/ scrub.reply # "none")
    PROVE  ReportInv'
  <1>1. UploadsOver'
    BY DEF ReportInv, UploadsOver, vars
  <1>2. VisitedOnce' /\ CopiesApart'
    BY DEF ReportInv, VisitedOnce, CopiesApart, copyVars
  <1>3. CopiesAwaited'
    BY DEF ReportInv, CopiesAwaited, NoCopies, Prompt, copyVars
  <1>4. AuditsHeard' /\ ReportedMeansLost'
    BY DEF ReportInv, AuditsHeard, ReportedMeansLost, vars
  <1> QED BY <1>1, <1>2, <1>3, <1>4 DEF ReportInv

LEMMA ScrubStartReport ==
    ASSUME ReportInv, ScrubInv', ScrubStart, MaxScrubs <= 1 \/ Prompt
    PROVE  ReportInv'
  <1>0. scrub \in Scrub /\ TypeOK /\ UNCHANGED <<vars, copyVars>>
    BY DEF ReportInv, ScrubInv, ScrubTypeOK, Consistent, ScrubStart, Becomes
  <1>1. /\ scrub'.pc = "next" /\ scrub'.lost = {} /\ scrub'.wait = NoNode
        /\ scrub'.rows \subseteq Versions
        /\ scrub'.listed = [v \in Versions |-> objects[v].replicas]
    BY <1>0 DEF ScrubStart, Becomes, NoScrub, LatestRows
  <1>2. scrub'.runs # 0
    <2>1. scrub'.runs = scrub.runs + 1 /\ scrub.runs \in Nat
      BY <1>0 DEF ScrubStart, Becomes, NoScrub, Scrub
    <2> QED BY <2>1
  <1>3. NoCopies
    <2>1. CASE MaxScrubs <= 1
      <3>1. scrub.runs = 0
        <4>1. scrub.runs \in Nat /\ scrub.runs < MaxScrubs
          BY <1>0 DEF Scrub, ScrubStart
        <4> QED BY <2>1, <4>1, ScrubAssumption
      <3> QED BY <3>1 DEF ReportInv, CopiesAwaited
    <2>2. CASE Prompt
      <3>1. scrub.pc = "idle"
        BY DEF ScrubStart
      <3> QED BY <2>2, <3>1 DEF ReportInv, CopiesAwaited
    <2> QED BY <2>1, <2>2
  <1>4. UploadsOver'
    BY <1>0 DEF ReportInv, UploadsOver, vars
  <1>5. VisitedOnce' /\ CopiesApart' /\ CopiesAwaited'
    BY <1>0, <1>1, <1>2, <1>3
    DEF VisitedOnce, CopiesApart, CopiesAwaited, NoCopies, copyVars
  <1>6. AuditsHeard' /\ ReportedMeansLost'
    BY <1>0, <1>1 DEF AuditsHeard, ReportedMeansLost, vars
  <1> QED BY <1>4, <1>5, <1>6 DEF ReportInv

LEMMA AuditStartReport ==
    ASSUME ReportInv, ScrubInv', NEW v \in Versions, AuditStart(v)
    PROVE  ReportInv'
  <1>0. scrub \in Scrub /\ UNCHANGED <<vars, copyVars>>
    BY DEF ReportInv, ScrubInv, ScrubTypeOK, AuditStart, Becomes
  <1>1. /\ scrub.pc = "next" /\ v \in scrub.rows
        /\ scrub'.pc = "audit" /\ scrub'.ver = v
        /\ scrub'.rows = scrub.rows \ {v} /\ scrub'.lost = scrub.lost
        /\ scrub'.listed = scrub.listed /\ scrub'.runs = scrub.runs
        /\ scrub'.wait = scrub.wait /\ scrub'.reply = scrub.reply
        /\ scrub'.todo = scrub.listed[v] /\ scrub'.good = {}
        /\ scrub'.bad = {}
    BY <1>0 DEF AuditStart, Becomes, Scrub
  <1>2. UploadsOver'
    BY <1>0 DEF ReportInv, UploadsOver, vars
  <1>3. VisitedOnce' /\ CopiesApart'
    BY <1>0, <1>1 DEF ReportInv, VisitedOnce, CopiesApart, copyVars
  <1>4. CopiesAwaited'
    BY <1>0, <1>1 DEF ReportInv, CopiesAwaited, NoCopies, Prompt, copyVars
  <1>5. AuditsHeard'
    BY <1>0, <1>1 DEF ReportInv, AuditsHeard, vars
  <1>6. ReportedMeansLost'
    BY <1>1 DEF ReportInv, VisitedOnce, ReportedMeansLost
  <1> QED BY <1>2, <1>3, <1>4, <1>5, <1>6 DEF ReportInv

LEMMA VerifyReport ==
    ASSUME ReportInv, ScrubInv', NEW n \in Nodes, Verify(n) \/ VerifyFailed(n)
    PROVE  ReportInv'
  <1>0. scrub \in Scrub /\ UNCHANGED <<vars, copyVars>>
    BY DEF ReportInv, ScrubInv, ScrubTypeOK, Verify, VerifyFailed, Becomes
  <1>1. /\ scrub.pc = "audit" /\ n \in scrub.todo
        /\ scrub'.pc = "audit" /\ scrub'.ver = scrub.ver
        /\ scrub'.rows = scrub.rows /\ scrub'.lost = scrub.lost
        /\ scrub'.listed = scrub.listed /\ scrub'.runs = scrub.runs
        /\ scrub'.wait = scrub.wait /\ scrub'.reply = scrub.reply
        /\ scrub'.todo = scrub.todo \ {n}
        /\ \/ /\ scrub'.good = scrub.good \cup {n} /\ scrub'.bad = scrub.bad
              /\ scrub'.silent = scrub.silent
           \/ /\ scrub'.good = scrub.good /\ scrub'.bad = scrub.bad \cup {n}
              /\ \/ /\ scrub'.silent = scrub.silent
                    /\ ~ Intact(disk, n, scrub.ver)
                 \/ scrub'.silent = scrub.silent \cup {n}
    <2>1. CASE Verify(n) /\ Intact(disk, n, scrub.ver)
      <3>1. scrub' = [scrub EXCEPT !.todo = @ \ {n}, !.good = @ \cup {n}]
        BY <2>1 DEF Verify, Becomes
      <3> QED BY <1>0, <2>1, <3>1 DEF Verify, Auditing, Scrub
    <2>2. CASE Verify(n) /\ ~ Intact(disk, n, scrub.ver)
      <3>1. scrub' = [scrub EXCEPT !.todo = @ \ {n}, !.bad = @ \cup {n}]
        BY <2>2 DEF Verify, Becomes
      <3> QED BY <1>0, <2>2, <3>1 DEF Verify, Auditing, Scrub
    <2>3. CASE VerifyFailed(n)
      BY <1>0, <2>3 DEF VerifyFailed, Auditing, Becomes, Scrub
    <2> QED BY <2>1, <2>2, <2>3
  <1>2. UploadsOver'
    BY <1>0 DEF ReportInv, UploadsOver, vars
  <1>3. VisitedOnce' /\ CopiesApart'
    BY <1>0, <1>1 DEF ReportInv, VisitedOnce, CopiesApart, copyVars
  <1>4. CopiesAwaited'
    BY <1>0, <1>1 DEF ReportInv, CopiesAwaited, NoCopies, Prompt, copyVars
  <1>5. AuditsHeard'
    <2>1. /\ \A v \in scrub'.rows : scrub'.listed[v] = objects'[v].replicas
          /\ objects'[scrub'.ver].replicas
                = scrub'.todo \cup scrub'.good \cup scrub'.bad
      BY <1>0, <1>1 DEF ReportInv, AuditsHeard, vars
    <2>2. \A m \in scrub'.bad \ scrub'.silent :
              m \in scrub.bad \ scrub.silent \/ ~ Intact(disk, m, scrub.ver)
      BY <1>1
    <2> QED BY <1>0, <1>1, <2>1, <2>2 DEF ReportInv, AuditsHeard, vars
  <1>6. ReportedMeansLost'
    BY <1>1 DEF ReportInv, VisitedOnce, ReportedMeansLost
  <1> QED BY <1>2, <1>3, <1>4, <1>5, <1>6 DEF ReportInv

LEMMA AuditLostReport ==
    ASSUME ReportInv, ScrubInv', AuditLost
    PROVE  ReportInv'
  <1>0. scrub \in Scrub /\ UNCHANGED <<vars, copyVars>>
    BY DEF ReportInv, ScrubInv, ScrubTypeOK, AuditLost, Becomes
  <1>1. /\ scrub.pc = "audit" /\ scrub.todo = {} /\ scrub.good = {}
        /\ scrub'.pc = "next" /\ scrub'.ver = scrub.ver
        /\ scrub'.rows = scrub.rows
        /\ scrub'.lost = scrub.lost \cup {scrub.ver}
        /\ scrub'.listed = scrub.listed /\ scrub'.runs = scrub.runs
        /\ scrub'.wait = scrub.wait /\ scrub'.reply = scrub.reply
        /\ scrub'.silent = scrub.silent
    BY <1>0 DEF AuditLost, Audited, Becomes, Scrub
  <1>2. UploadsOver'
    BY <1>0 DEF ReportInv, UploadsOver, vars
  <1>3. VisitedOnce' /\ CopiesApart'
    BY <1>0, <1>1 DEF ReportInv, VisitedOnce, CopiesApart, copyVars
  <1>4. CopiesAwaited'
    BY <1>0, <1>1 DEF ReportInv, CopiesAwaited, NoCopies, Prompt, copyVars
  <1>5. AuditsHeard' /\ ReportedMeansLost'
    BY <1>0, <1>1 DEF ReportInv, AuditsHeard, ReportedMeansLost, vars
  <1> QED BY <1>2, <1>3, <1>4, <1>5 DEF ReportInv

LEMMA OwnStepReport ==
    ASSUME ReportInv, ScrubInv', OwnStep, MaxScrubs <= 1 \/ Prompt
    PROVE  ReportInv'
  <1>0. scrub \in Scrub /\ UNCHANGED <<vars, copyVars>>
    BY OwnStepFrame DEF ReportInv, ScrubInv, ScrubTypeOK
  <1>1. ASSUME \/ \E n \in Nodes, ring \in Rings : AuditDone(n, ring)
               \/ \E n \in Nodes : HealSkip(n)
               \/ HealDone \/ ScrubDone \/ HealHeard \/ HealTimeout
        PROVE  ReportInv'
    <2>1. /\ scrub.wait # NoNode => scrub.pc = "heal"
          /\ scrub.reply # "none" => scrub.wait # NoNode
      BY DEF ReportInv, CopiesAwaited, ScrubInv, AnswersAwaited
    <2> DEFINE Kept ==
                 /\ scrub'.ver = scrub.ver /\ scrub'.rows = scrub.rows
                 /\ scrub'.lost = scrub.lost /\ scrub'.listed = scrub.listed
                 /\ scrub'.silent = scrub.silent /\ scrub'.runs = scrub.runs
               SameCall ==
                 scrub'.wait = scrub.wait /\ scrub'.reply = scrub.reply
    <2>2. ASSUME NEW n \in Nodes, NEW ring \in Rings, AuditDone(n, ring)
          PROVE  /\ Kept /\ scrub.pc = "audit" /\ scrub'.pc = "heal"
                 /\ SameCall
      BY <1>0, <2>2 DEF AuditDone, Audited, Becomes, Scrub
    <2>3. ASSUME NEW n \in Nodes, HealSkip(n)
          PROVE  /\ Kept /\ scrub.pc = "heal" /\ scrub'.pc = "heal"
                 /\ SameCall
      BY <1>0, <2>3 DEF HealSkip, Healing, Becomes, Scrub
    <2>4. ASSUME HealDone
          PROVE  /\ Kept /\ scrub.pc = "heal" /\ scrub'.pc = "next"
                 /\ scrub.wait = NoNode /\ SameCall
      BY <1>0, <2>4 DEF HealDone, Healing, Becomes, Scrub
    <2>5. ASSUME ScrubDone
          PROVE  /\ Kept /\ scrub.pc = "next" /\ scrub'.pc = "idle"
                 /\ SameCall
      BY <1>0, <2>5 DEF ScrubDone, Becomes, Scrub
    <2>6. ASSUME HealHeard \/ HealTimeout
          PROVE  /\ Kept /\ scrub.pc = "heal" /\ scrub'.pc = "heal"
                 /\ scrub'.wait = NoNode
                 /\ ~ Prompt \/ scrub.reply # "none"
      BY <1>0, <2>1, <2>6
      DEF HealHeard, HealTimeout, Becomes, Counted, GivenUp, Prompt, Scrub
    <2> HIDE DEF Kept, SameCall
    <2>7. /\ Kept /\ scrub'.pc # "audit" /\ scrub.pc # "idle"
          /\ scrub'.pc = "heal" => scrub.pc \in {"audit", "heal"}
          /\ \/ SameCall /\ (scrub.wait # NoNode => scrub'.pc = scrub.pc)
             \/ scrub'.wait = NoNode /\ (~ Prompt \/ scrub.reply # "none")
      BY <1>1, <2>1, <2>2, <2>3, <2>4, <2>5, <2>6
    <2> QED BY <1>0, <2>7, TaskReport DEF Kept, SameCall
  <1> QED
    BY <1>1, ScrubStartReport, AuditStartReport, VerifyReport, AuditLostReport
    DEF OwnStep, AuditStep

LEMMA HealSendReport ==
    ASSUME ReportInv, ScrubInv', NEW dst \in Nodes, HealSend(dst)
    PROVE  ReportInv'
  <1> DEFINE req == Request(ScrubTask, scrub.ver, scrub.donor, dst)
  <1>0. scrub \in Scrub /\ UNCHANGED <<vars, copies>>
    BY DEF ReportInv, ScrubInv, ScrubTypeOK, HealSend
  <1>1. /\ scrub.pc = "heal" /\ scrub.wait = NoNode
        /\ requests' = requests \cup {req}
        /\ scrub'.pc = "heal" /\ scrub'.wait = dst
        /\ scrub'.ver = scrub.ver /\ scrub'.rows = scrub.rows
        /\ scrub'.lost = scrub.lost /\ scrub'.listed = scrub.listed
        /\ scrub'.runs = scrub.runs /\ scrub'.silent = scrub.silent
        /\ scrub'.reply = scrub.reply /\ scrub.reply = "none"
    BY <1>0 DEF HealSend, Healing, Scrub, ReportInv, ScrubInv, AnswersAwaited
  <1>2. req.ver = scrub.ver /\ req.dst = dst /\ dst # NoNode
    BY NoNodeAssumption DEF Request
  <1> HIDE DEF req
  <1>3. UploadsOver'
    BY <1>0 DEF ReportInv, UploadsOver, vars
  <1>4. VisitedOnce' /\ CopiesApart'
    BY <1>0, <1>1, <1>2 DEF ReportInv, VisitedOnce, CopiesApart
  <1>5. CopiesAwaited'
    BY <1>0, <1>1, <1>2 DEF ReportInv, CopiesAwaited, NoCopies, Prompt
  <1>6. AuditsHeard' /\ ReportedMeansLost'
    BY <1>0, <1>1 DEF ReportInv, AuditsHeard, ReportedMeansLost, vars
  <1> QED BY <1>3, <1>4, <1>5, <1>6 DEF ReportInv

(* What hearing an answer changes in the task.                             *)
LEMMA ToldFacts ==
    ASSUME scrub \in Scrub, NEW v, NEW dst, NEW ok,
           scrub' = Told(scrub, v, dst, ok)
    PROVE  /\ scrub'.ver = scrub.ver /\ scrub'.rows = scrub.rows
           /\ scrub'.lost = scrub.lost /\ scrub'.listed = scrub.listed
           /\ scrub'.runs = scrub.runs /\ scrub'.silent = scrub.silent
           /\ scrub'.pc = scrub.pc /\ scrub'.todo = scrub.todo
           /\ scrub'.good = scrub.good /\ scrub'.bad = scrub.bad
           /\ scrub'.wait = scrub.wait
           /\ IF scrub.wait = dst /\ scrub.ver = v /\ scrub.reply = "none"
              THEN scrub'.reply # "none" ELSE scrub'.reply = scrub.reply
  <1> DEFINE awaited ==
               scrub.wait = dst /\ scrub.ver = v /\ scrub.reply = "none"
  <1>1. CASE ~ awaited
    BY <1>1 DEF Told
  <1>2. CASE awaited
    BY <1>2 DEF Told, Scrub
  <1> QED BY <1>1, <1>2

(* What any answer leaves alone.                                           *)
Heard ==
    /\ scrub'.ver = scrub.ver /\ scrub'.rows = scrub.rows
    /\ scrub'.lost = scrub.lost /\ scrub'.listed = scrub.listed
    /\ scrub'.runs = scrub.runs /\ scrub'.silent = scrub.silent
    /\ scrub'.pc = scrub.pc /\ scrub'.todo = scrub.todo
    /\ scrub'.good = scrub.good /\ scrub'.bad = scrub.bad
    /\ scrub'.wait = scrub.wait

LEMMA HealRequestReport ==
    ASSUME ReportInv, ScrubInv', NEW req \in requests, HealRequest(req)
    PROVE  ReportInv'
  <1>0. scrub \in Scrub /\ UNCHANGED vars /\ requests' = requests \ {req}
    BY DEF ReportInv, ScrubInv, ScrubTypeOK, HealRequest, Replicate,
           ReplicateRefused
  <1> DEFINE copy == CopyOf(req)
  <1>1. copy.ver = req.ver /\ copy.dst = req.dst
    BY DEF CopyOf
  <1> HIDE DEF copy
  <1>2. \/ scrub' = scrub /\ copies' = copies \cup {copy}
        \/ scrub' = Told(scrub, req.ver, req.dst, FALSE) /\ copies' = copies
    BY DEF HealRequest, Replicate, ReplicateRefused, copy
  <1>3. /\ Heard
        /\ \/ scrub'.reply = scrub.reply /\ copies' = copies \cup {copy}
           \/ /\ copies' = copies
              /\ IF /\ scrub.wait = req.dst /\ scrub.ver = req.ver
                    /\ scrub.reply = "none"
                 THEN scrub'.reply # "none" ELSE scrub'.reply = scrub.reply
    <2>1. CASE scrub' = scrub /\ copies' = copies \cup {copy}
      BY <2>1 DEF Heard
    <2>2. CASE /\ scrub' = Told(scrub, req.ver, req.dst, FALSE)
               /\ copies' = copies
      BY <1>0, <2>2, ToldFacts DEF Heard
    <2> QED BY <1>2, <2>1, <2>2
  <1>4. UploadsOver'
    BY <1>0 DEF ReportInv, UploadsOver, vars
  <1>5. VisitedOnce' /\ CopiesApart'
    BY <1>0, <1>1, <1>3 DEF ReportInv, VisitedOnce, CopiesApart, Heard
  <1>6. CopiesAwaited'
    <2>1. /\ scrub'.wait # NoNode => scrub'.pc = "heal"
          /\ scrub'.runs # 0
      BY <1>3 DEF ReportInv, CopiesAwaited, NoCopies, Heard
    <2>2. ASSUME Prompt
          PROVE  \/ /\ NoCopies'
                    /\ scrub'.wait = NoNode \/ scrub'.reply # "none"
                 \/ \E call \in requests' \cup copies' :
                       /\ scrub'.wait # NoNode /\ scrub'.reply = "none"
                       /\ call.ver = scrub'.ver /\ call.dst = scrub'.wait
                       /\ \/ requests' = {call} /\ copies' = {}
                          \/ requests' = {} /\ copies' = {call}
      <3>1. /\ requests = {req} /\ copies = {} /\ scrub.wait # NoNode
            /\ req.ver = scrub.ver /\ req.dst = scrub.wait
            /\ scrub.reply = "none"
        BY <2>2 DEF ReportInv, CopiesAwaited, NoCopies
      <3>2. CASE scrub'.reply = scrub.reply /\ copies' = copies \cup {copy}
        <4>1. requests' = {} /\ copies' = {copy}
          BY <1>0, <3>1, <3>2
        <4> QED BY <1>1, <1>3, <3>1, <3>2, <4>1 DEF Heard
      <3>3. CASE copies' = copies /\ scrub'.reply # "none"
        BY <1>0, <3>1, <3>3 DEF NoCopies
      <3> QED BY <1>3, <3>1, <3>2, <3>3
    <2> QED BY <2>1, <2>2 DEF CopiesAwaited, Prompt
  <1>7. AuditsHeard' /\ ReportedMeansLost'
    BY <1>0, <1>3 DEF ReportInv, AuditsHeard, ReportedMeansLost, Heard, vars
  <1> QED BY <1>4, <1>5, <1>6, <1>7 DEF ReportInv

LEMMA HealCopyReport ==
    ASSUME ReportInv, ScrubInv', NEW copy \in copies, HealCopy(copy)
    PROVE  ReportInv'
  <1>0. scrub \in Scrub /\ TypeOK /\ CopyTypeOK /\ Consistent
    BY DEF ReportInv, ScrubInv, ScrubTypeOK, Consistent
  <1>1. CopyPut(copy) \/ CopyFailed(copy)
    BY DEF HealCopy
  <1>2. /\ copies' = copies \ {copy}
        /\ UNCHANGED <<objects, wire, put, requests>>
    BY <1>1, CopyFrame
  <1>3. PICK ok \in BOOLEAN : scrub' = Told(scrub, copy.ver, copy.dst, ok)
    BY DEF HealCopy, Accepts
  <1>4. /\ Heard
        /\ IF /\ scrub.wait = copy.dst /\ scrub.ver = copy.ver
              /\ scrub.reply = "none"
           THEN scrub'.reply # "none" ELSE scrub'.reply = scrub.reply
    BY <1>0, <1>3, ToldFacts DEF Heard
  <1>5. UploadsOver'
    BY <1>2 DEF ReportInv, UploadsOver
  <1>6. VisitedOnce' /\ CopiesApart'
    BY <1>2, <1>4 DEF ReportInv, VisitedOnce, CopiesApart, Heard
  <1>7. CopiesAwaited'
    <2>1. /\ scrub'.wait # NoNode => scrub'.pc = "heal"
          /\ scrub'.runs # 0
      BY <1>4 DEF ReportInv, CopiesAwaited, NoCopies, Heard
    <2>2. ASSUME Prompt PROVE scrub'.reply # "none" /\ NoCopies'
      <3>1. /\ requests = {} /\ copies = {copy}
            /\ copy.ver = scrub.ver /\ copy.dst = scrub.wait
            /\ scrub.reply = "none"
        BY <2>2 DEF ReportInv, CopiesAwaited, NoCopies
      <3> QED BY <1>2, <1>4, <3>1 DEF NoCopies
    <2> QED BY <2>1, <2>2 DEF CopiesAwaited, Prompt
  <1>8. ASSUME NEW v \in Versions, NEW n \in Nodes, v # copy.ver
        PROVE  disk'[n][v] = disk[n][v]
    BY <1>0, <1>1, <1>8, CopySteps DEF FileCopied
  <1>9. \A v \in Versions : objects[v].replicas \subseteq Nodes
    BY <1>0 DEF TypeOK, Row
  <1>10. AuditsHeard'
    <2>1. CASE scrub.pc = "audit"
      <3>1. /\ scrub.ver \in Versions /\ scrub.ver # copy.ver
            /\ scrub.bad \subseteq Nodes
        BY <1>0, <2>1
        DEF ReportInv, ScrubInv, ScrubsAreOfRows, CopiesApart, Scrub
      <3>2. \A n \in Nodes : disk'[n][scrub.ver] = disk[n][scrub.ver]
        BY <1>8, <3>1
      <3> QED
        BY <1>2, <1>4, <2>1, <3>1, <3>2
        DEF ReportInv, AuditsHeard, Intact, Heard
    <2>2. CASE scrub.pc # "audit"
      BY <1>2, <1>4, <2>2 DEF ReportInv, AuditsHeard, Heard
    <2> QED BY <2>1, <2>2
  <1>11. ReportedMeansLost'
    <2>1. CASE scrub.ver \in scrub.lost
      <3>1. scrub.ver \in Versions /\ scrub.ver # copy.ver
        BY <1>0, <2>1 DEF ReportInv, CopiesApart, Scrub
      <3>2. \A n \in objects[scrub.ver].replicas :
                disk'[n][scrub.ver] = disk[n][scrub.ver]
        BY <1>8, <1>9, <3>1
      <3> QED
        BY <1>2, <1>4, <3>2 DEF ReportInv, ReportedMeansLost, Intact, Heard
    <2>2. CASE scrub.ver \notin scrub.lost
      BY <1>4, <2>2 DEF ReportedMeansLost, Heard
    <2> QED BY <2>1, <2>2
  <1> QED BY <1>5, <1>6, <1>7, <1>10, <1>11 DEF ReportInv

LEMMA NextReport ==
    ASSUME ReportInv, [ScrubNext]_scrubVars,
           "timeout" \notin Faults \/ "store" \notin Faults,
           MaxScrubs <= 1 \/ Prompt
    PROVE  ReportInv'
  <1>1. ScrubInv'
    BY NextScrubInv DEF ReportInv
  <1>2. CASE [Next]_vars /\ UNCHANGED <<copyVars, scrub>>
    BY <1>1, <1>2, WriteReport
  <1>3. CASE OwnStep
    BY <1>1, <1>3, OwnStepReport
  <1>4. ASSUME NEW n \in Nodes, HealSend(n) PROVE ReportInv'
    BY <1>1, <1>4, HealSendReport
  <1>5. ASSUME NEW req \in requests, HealRequest(req) PROVE ReportInv'
    BY <1>1, <1>5, HealRequestReport
  <1>6. ASSUME NEW copy \in copies, HealCopy(copy) PROVE ReportInv'
    BY <1>1, <1>6, HealCopyReport
  <1>7. CASE ScrubCrash
    BY <1>1, <1>7, CrashReport
  <1>8. CASE WriteNext /\ UNCHANGED <<copyVars, scrub>>
    BY <1>2, <1>8 DEF Next
  <1>9. CASE UNCHANGED scrubVars
    BY <1>2, <1>9 DEF scrubVars
  <1> QED
    BY <1>3, <1>4, <1>5, <1>6, <1>7, <1>8, <1>9
    DEF ScrubNext, OwnStep, HealStep, HealAnswer

(* What a pass reports as unrecoverable is lost: no replica of it holds the *)
(* uploaded content.  An answer that comes too late could falsify that, so *)
(* it takes uploads that do not outlast the decision of their put (no call *)
(* times out, or no metadata call fails), and a pass that no copy of an    *)
(* earlier one outlasts.                                                   *)
THEOREM LostAsReported ==
    ASSUME "timeout" \notin Faults \/ "store" \notin Faults,
           MaxScrubs <= 1 \/ Prompt
    PROVE  ScrubSpec => []ReportedMeansLost
  <1>1. ReportInv /\ [ScrubNext]_scrubVars => ReportInv'
    BY NextReport
  <1>2. ReportInv => ReportedMeansLost
    BY DEF ReportInv
  <1> QED BY <1>1, <1>2, InitReport, PTL DEF ScrubSpec
=============================================================================
