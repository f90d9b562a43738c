-------------------------- MODULE MultipartProofs --------------------------
(***************************************************************************)
(* Proofs about Multipart, for every set of nodes, part uploads,           *)
(* completions and abortions, every set of faults and every W and N.       *)
(***************************************************************************)
EXTENDS Multipart, FiniteSetTheorems, TLAPS

-----------------------------------------------------------------------------
(* What the operators return.                                              *)

LEMMA TargetsAreNodes ==
    ASSUME NEW p, NEW ring \in Rings
    PROVE  P!Candidates(p, ring) \subseteq Nodes
  BY PartAssumption DEF P!Candidates, P!Placed, P!Leaders, P!FirstOf

LEMMA QuorumNonEmpty ==
    ASSUME NEW S, P!WriteSucceeds(S)
    PROVE  S # {}
  <1>1. Cardinality(S) >= W
    BY DEF P!WriteSucceeds, P!Cardinality, Cardinality
  <1> QED BY <1>1, PartAssumption, FS_EmptySet

LEMMA NoPartIsRow == NoPart \in PartRow
  BY DEF NoPart, PartRow

LEMMA EndedTyped ==
    ASSUME NEW pc \in CompleteStates
    PROVE  CompleteEnded(pc) \in Completing
  BY NoPartIsRow DEF CompleteEnded, Completing

(* The parts that a contiguous list has are 1 .. Last, and 1 is among them *)
LEMMA ContiguousParts ==
    ASSUME NEW rows, Contiguous(rows)
    PROVE  /\ Last(rows) \in Nat \ {0}
           /\ Listed(rows) = 1 .. Last(rows)
           /\ Listed(rows) \subseteq PartNumbers
  <1>1. IsFiniteSet(Listed(rows))
    <2>1. IsFiniteSet(PartNumbers)
      BY PartAssumption, FS_Interval DEF PartNumbers
    <2> QED BY <2>1, FS_Subset DEF Listed
  <1>2. Last(rows) \in Nat
    BY <1>1, FS_CardinalityType DEF Last
  <1> QED BY <1>2 DEF Contiguous, Listed

LEMMA ChunkTyped ==
    ASSUME MultipartTypeOK, NEW c \in Completions,
           NEW chunk \in Bytes, completing[c].pc = "reading",
           Contiguous(completing[c].list)
    PROVE  WithChunk(c, chunk) \in Completing
  <1> DEFINE call == completing[c]
             next == Current(c) + 1
             more == next <= Last(call.list)
  <1>1. call \in Completing /\ Len(call.got) \in Nat
    BY DEF MultipartTypeOK, Completing
  <1>2. Append(call.got, chunk) \in Seq(Bytes)
    BY <1>1 DEF Completing
  <1>3. more => next \in PartNumbers
    <2>1. Last(call.list) \in Nat /\ 1 .. Last(call.list) \subseteq PartNumbers
      BY ContiguousParts
    <2> QED BY <1>1, <2>1 DEF Current
  <1>4. (IF more THEN call.list[next].replicas ELSE {}) \in SUBSET Nodes
    BY <1>1, <1>3 DEF Completing, PartRow
  <1>5. (IF more THEN "reading" ELSE "putting") \in CompleteStates
    BY DEF CompleteStates
  <1> HIDE DEF more, next
  <1> QED BY <1>1, <1>2, <1>4, <1>5 DEF WithChunk, Completing, more, next

-----------------------------------------------------------------------------
(* Type correctness.                                                       *)

LEMMA InitTyped == MultipartInit => MultipartTypeOK
  <1> SUFFICES ASSUME MultipartInit PROVE MultipartTypeOK OBVIOUS
  <1>1. sending \in [PartUploads -> Sending]
    BY DEF MultipartInit, Sending
  <1>2. completing \in [Completions -> Completing]
    BY EndedTyped DEF MultipartInit, CompleteStates
  <1>3. parts \in [PartNumbers -> PartRow]
    BY NoPartIsRow DEF MultipartInit
  <1> QED BY <1>1, <1>2, <1>3 DEF MultipartInit, MultipartTypeOK, NoObject

LEMMA PartStepTyped ==
    ASSUME MultipartTypeOK, NEW u \in PartUploads, PartStep(u)
    PROVE  MultipartTypeOK'
  <1> USE DEF MultipartTypeOK
  <1>0. NumberOf[u] \in PartNumbers /\ DataOf[u] \in Contents
    BY PartAssumption DEF Contents
  <1>1. ASSUME NEW ring \in Rings, PartStart(u, ring) PROVE MultipartTypeOK'
    <2> DEFINE targets == P!Candidates(NumberOf[u], ring)
    <2>1. targets \subseteq Nodes
      BY TargetsAreNodes
    <2>2. [pc |-> "uploading", left |-> targets, acks |-> {}] \in Sending
      BY <2>1 DEF Sending
    <2>3. {u} \X targets \subseteq PartUploads \X Nodes
      BY <2>1
    <2> HIDE DEF targets
    <2> QED BY <1>1, <2>2, <2>3
        DEF PartStart, targets, rowVars, endVars
  <1>2. ASSUME NEW pc \in {"ok", "failed"}, SendAnswered(u, pc)
        PROVE  sending' \in [PartUploads -> Sending]
    <2>1. [pc |-> pc, left |-> {}, acks |-> {}] \in Sending
      BY DEF Sending
    <2> QED BY <1>2, <2>1 DEF SendAnswered
  <1>3. CASE PartInactive(u)
    BY <1>2, <1>3 DEF PartInactive, rowVars, nodeVars, endVars
  <1>4. CASE PartRecorded(u)
    <2>1. [data |-> DataOf[u], replicas |-> sending[u].acks] \in PartRow
      BY <1>0 DEF PartRow, Sending
    <2>2. parts' \in [PartNumbers -> PartRow]
      BY <1>4, <2>1 DEF PartRecorded
    <2> QED BY <1>2, <1>4, <2>2 DEF PartRecorded, nodeVars, endVars
  <1>5. CASE PartFailed(u)
    BY <1>2, <1>5 DEF PartFailed, rowVars, nodeVars, endVars
  <1> QED BY <1>1, <1>3, <1>4, <1>5 DEF PartStep, PartFinish

(* What the answer of node n changes in the calls.                         *)
LEMMA RefusedFacts ==
    ASSUME sending \in [PartUploads -> Sending],
           NEW v \in PartUploads, NEW n \in Nodes,
           sending' = [sending EXCEPT ![v].left = @ \ {n}],
           NEW u \in PartUploads
    PROVE  /\ sending'[u].pc = sending[u].pc
           /\ sending'[u].acks = sending[u].acks
           /\ sending'[u].left \subseteq sending[u].left
  <1>1. CASE u = v
    BY <1>1 DEF Sending
  <1>2. CASE u # v
    BY <1>2 DEF Sending
  <1> QED BY <1>1, <1>2

LEMMA StoredFacts ==
    ASSUME sending \in [PartUploads -> Sending],
           NEW v \in PartUploads, NEW n \in Nodes,
           sending' = [sending EXCEPT ![v].left = @ \ {n},
                                      ![v].acks = @ \cup {n}],
           NEW u \in PartUploads
    PROVE  /\ sending'[u].pc = sending[u].pc
           /\ u # v => sending'[u] = sending[u]
           /\ sending'[v].acks = sending[v].acks \cup {n}
  <1>1. CASE u = v
    BY <1>1 DEF Sending
  <1>2. CASE u # v
    BY <1>2 DEF Sending
  <1> QED BY <1>1, <1>2

LEMMA PutStepTyped ==
    ASSUME MultipartTypeOK, NEW u \in PartUploads, NEW n \in Nodes,
           PutAnswered(u, n) \/ PartTimeout(u, n)
    PROVE  MultipartTypeOK'
  <1> USE DEF MultipartTypeOK
  <1>0. NumberOf[u] \in PartNumbers /\ DataOf[u] \in Contents
    BY PartAssumption DEF Contents
  <1>1. /\ [sending EXCEPT ![u].left = @ \ {n}] \in [PartUploads -> Sending]
        /\ [sending EXCEPT ![u].left = @ \ {n}, ![u].acks = @ \cup {n}]
              \in [PartUploads -> Sending]
    BY DEF Sending
  <1>2. CASE NodePartPut(u, n)
    <2>1. files' \in [Nodes -> [PartNumbers -> Bytes \cup {NoFile}]]
      BY <1>0, <1>2 DEF NodePartPut, Bytes
    <2>2. sending' \in [PartUploads -> Sending]
      BY <1>1, <1>2 DEF NodePartPut
    <2> QED BY <1>2, <2>1, <2>2 DEF NodePartPut, rowVars, endVars
  <1>3. CASE PartPutRefused(u, n)
    BY <1>1, <1>3 DEF PartPutRefused, rowVars, endVars
  <1>4. CASE PartTimeout(u, n)
    BY <1>1, <1>4 DEF PartTimeout, rowVars, nodeVars, endVars
  <1> QED BY <1>2, <1>3, <1>4 DEF PutAnswered

LEMMA CompleteStepTyped ==
    ASSUME MultipartTypeOK, NEW c \in Completions, CompleteStep(c)
    PROVE  MultipartTypeOK'
  <1> USE DEF MultipartTypeOK
  <1>1. ASSUME NEW pc \in CompleteStates, CompleteAnswered(c, pc)
        PROVE  completing' \in [Completions -> Completing]
    BY <1>1, EndedTyped DEF CompleteAnswered
  <1>2. {"failed", "unreadable", "ok"} \subseteq CompleteStates
    BY DEF CompleteStates
  <1>3. completing[c].got \in Seq(Bytes)
    BY DEF Completing
  <1>4. CASE CompleteStart(c)
    <2>1. 1 \in PartNumbers
      BY <1>4, ContiguousParts DEF CompleteStart
    <2>2. [pc |-> "reading", list |-> parts, left |-> parts[1].replicas,
           got |-> <<>>] \in Completing
      BY <2>1 DEF Completing, CompleteStates, PartRow
    <2> QED BY <1>4, <2>2 DEF CompleteStart, rowVars, nodeVars, endVars
  <1>5. CASE CompleteRefused(c)
    BY <1>1, <1>2, <1>5 DEF CompleteRefused, rowVars, nodeVars, endVars
  <1>6. CASE CompleteUnreadable(c)
    BY <1>1, <1>2, <1>6 DEF CompleteUnreadable, rowVars, nodeVars, endVars
  <1>7. CASE CompleteDone(c)
    <2>1. cleanup' \in [Enders -> SUBSET (PartNumbers \X Nodes)]
      BY <1>7 DEF CompleteDone, Blobs
    <2> QED BY <1>1, <1>2, <1>3, <1>7, <2>1 DEF CompleteDone, nodeVars
  <1>8. CASE CompleteFailed(c)
    BY <1>1, <1>2, <1>3, <1>8 DEF CompleteFailed, rowVars, nodeVars
  <1> QED BY <1>4, <1>5, <1>6, <1>7, <1>8 DEF CompleteStep, CompleteFinish

LEMMA ReadStepTyped ==
    ASSUME MultipartTypeOK, ReadsProgress,
           NEW c \in Completions, NEW n \in Nodes, ReadStep(c, n)
    PROVE  MultipartTypeOK'
  <1> USE DEF MultipartTypeOK
  <1>1. CASE PartRead(c, n)
    <2>1. Contiguous(completing[c].list) /\ Current(c) \in PartNumbers
      BY <1>1 DEF PartRead, ReadsProgress, Progress, Listed
    <2>2. files[n][Current(c)] \in Bytes
      BY <1>1, <2>1 DEF PartRead
    <2>3. WithChunk(c, files[n][Current(c)]) \in Completing
      BY <1>1, <2>1, <2>2, ChunkTyped DEF PartRead
    <2> QED BY <1>1, <2>3 DEF PartRead, rowVars, nodeVars, endVars
  <1>2. CASE PartUnread(c, n)
    <2>1. completing' \in [Completions -> Completing]
      BY <1>2 DEF PartUnread, Completing
    <2> QED BY <1>2, <2>1 DEF PartUnread, rowVars, nodeVars, endVars
  <1> QED BY <1>1, <1>2 DEF ReadStep

LEMMA AbortTyped ==
    ASSUME MultipartTypeOK, NEW a \in Aborts, Abort(a)
    PROVE  MultipartTypeOK'
  <1>1. parts' \in [PartNumbers -> PartRow]
    BY NoPartIsRow DEF Abort
  <1>2. cleanup' \in [Enders -> SUBSET (PartNumbers \X Nodes)]
    BY DEF Abort, Blobs, MultipartTypeOK
  <1> QED BY <1>1, <1>2 DEF Abort, MultipartTypeOK, nodeVars

LEMMA BlobStepTyped ==
    ASSUME MultipartTypeOK, NEW e \in Enders, NEW p \in PartNumbers,
           NEW n \in Nodes, BlobStep(e, p, n)
    PROVE  MultipartTypeOK'
  <1> USE DEF MultipartTypeOK
  <1>1. CASE CleanupPart(e, p, n)
    BY <1>1 DEF CleanupPart, rowVars
  <1>2. CASE NodePartDelete(e, p, n)
    BY <1>2 DEF NodePartDelete, rowVars, endVars
  <1>3. CASE PartDeleteRefused(e, p, n)
    BY <1>3 DEF PartDeleteRefused, rowVars, endVars
  <1> QED BY <1>1, <1>2, <1>3 DEF BlobStep, DeleteAnswered

LEMMA CrashTyped ==
    ASSUME MultipartTypeOK, EngineCrash
    PROVE  MultipartTypeOK'
  <1> USE DEF MultipartTypeOK
  <1>1. sending' \in [PartUploads -> Sending]
    BY DEF EngineCrash, Sending
  <1>2. completing' \in [Completions -> Completing]
    BY EndedTyped DEF EngineCrash, CompleteStates
  <1> QED BY <1>1, <1>2 DEF EngineCrash, rowVars, nodeVars

LEMMA StepTyped ==
    MultipartTypeOK /\ ReadsProgress /\ [MultipartNext]_partVars
        => MultipartTypeOK'
  <1> SUFFICES ASSUME MultipartTypeOK, ReadsProgress,
                      [MultipartNext]_partVars
               PROVE  MultipartTypeOK'
    OBVIOUS
  <1>1. CASE Initiate
    BY <1>1 DEF Initiate, MultipartTypeOK, nodeVars, endVars
  <1>2. CASE UNCHANGED partVars
    BY <1>2 DEF MultipartTypeOK, partVars, rowVars, nodeVars, endVars
  <1> QED
    BY <1>1, <1>2, PartStepTyped, PutStepTyped, CompleteStepTyped,
       ReadStepTyped, AbortTyped, BlobStepTyped, CrashTyped
    DEF MultipartNext

-----------------------------------------------------------------------------
(* What every step leaves true.                                            *)

(* An upload that is over stays over.                                      *)
LEMMA OverForGood ==
    ASSUME MultipartTypeOK, [MultipartNext]_partVars, Active'
    PROVE  Active
  <1> USE DEF Active
  <1>1. \/ upload' = upload
        \/ upload = "ABSENT"
        \/ upload' \in {"COMPLETED", "ABORTED"}
    BY DEF MultipartNext, Initiate, PartStep, PartStart, PartInactive,
           PartFinish, PartRecorded, PartFailed, PutAnswered, NodePartPut,
           PartPutRefused, PartTimeout, CompleteStep, CompleteStart,
           CompleteRefused, CompleteUnreadable, CompleteFinish, CompleteDone,
           CompleteFailed, ReadStep, PartRead, PartUnread, Abort, BlobStep,
           CleanupPart, DeleteAnswered, NodePartDelete, PartDeleteRefused,
           EngineCrash, partVars, rowVars
  <1> QED BY <1>1

(* A call of upload_part that has begun is never forgotten.                *)
LEMMA SentStays ==
    ASSUME MultipartTypeOK, [MultipartNext]_partVars, NEW u \in PartUploads,
           sending[u].pc # "idle"
    PROVE  sending'[u].pc # "idle"
  <1> USE DEF MultipartTypeOK
  <1>1. ASSUME NEW v \in PartUploads, PartStep(v)
        PROVE  sending'[u].pc # "idle"
    BY <1>1 DEF PartStep, PartStart, PartInactive, PartFinish, PartRecorded,
                PartFailed, SendAnswered
  <1>2. ASSUME NEW v \in PartUploads, NEW n \in Nodes,
               PutAnswered(v, n) \/ PartTimeout(v, n)
        PROVE  sending'[u].pc # "idle"
    <2>1. CASE sending' = sending
      BY <2>1
    <2>2. CASE sending' = [sending EXCEPT ![v].left = @ \ {n}]
      BY <2>2, RefusedFacts
    <2>3. CASE sending' = [sending EXCEPT ![v].left = @ \ {n},
                                         ![v].acks = @ \cup {n}]
      BY <2>3, StoredFacts
    <2> QED
      BY <1>2, <2>1, <2>2, <2>3
      DEF PutAnswered, NodePartPut, PartPutRefused, PartTimeout
  <1>3. CASE EngineCrash
    BY <1>3 DEF EngineCrash
  <1>4. CASE UNCHANGED sending
    BY <1>4
  <1> QED
    BY <1>1, <1>2, <1>3, <1>4
    DEF MultipartNext, Initiate, CompleteStep, CompleteStart,
        CompleteRefused, CompleteUnreadable, CompleteFinish, CompleteDone,
        CompleteFailed, ReadStep, PartRead, PartUnread, Abort, BlobStep,
        CleanupPart, DeleteAnswered, NodePartDelete, PartDeleteRefused,
        partVars

LEMMA SentGrows ==
    ASSUME MultipartTypeOK, [MultipartNext]_partVars, NEW p
    PROVE  SentAs(p) \subseteq SentAs(p)'
  BY SentStays DEF SentAs

(* A file is replaced by bytes that were uploaded as its part; it vanishes *)
(* only from an upload that is over.                                       *)
LEMMA FileStep ==
    ASSUME MultipartTypeOK, CleanupAfterEnd, FilesWereSent,
           [MultipartNext]_partVars, NEW n \in Nodes, NEW p \in PartNumbers
    PROVE  \/ files'[n][p] = files[n][p]
           \/ files'[n][p] \in SentAs(p)
           \/ files'[n][p] = NoFile /\ ~ Active
  <1> USE DEF MultipartTypeOK
  <1>1. ASSUME NEW u \in PartUploads, NEW m \in Nodes, NodePartPut(u, m)
        PROVE  files'[n][p] = files[n][p] \/ files'[n][p] \in SentAs(p)
    <2>1. sending[u].pc # "idle" /\ NumberOf[u] \in PartNumbers
      BY <1>1, PartAssumption DEF NodePartPut, FilesWereSent
    <2>2. DataOf[u] \in SentAs(NumberOf[u])
      BY <2>1 DEF SentAs
    <2> QED BY <1>1, <2>1, <2>2 DEF NodePartPut
  <1>2. ASSUME NEW e \in Enders, NEW q \in PartNumbers, NEW m \in Nodes,
               NodePartDelete(e, q, m)
        PROVE  \/ files'[n][p] = files[n][p]
               \/ files'[n][p] = NoFile /\ ~ Active
    BY <1>2 DEF NodePartDelete, CleanupAfterEnd
  <1> QED
    BY <1>1, <1>2
    DEF MultipartNext, Initiate, PartStep, PartStart, PartInactive,
        PartFinish, PartRecorded, PartFailed, PutAnswered, PartPutRefused,
        PartTimeout, CompleteStep, CompleteStart, CompleteRefused,
        CompleteUnreadable, CompleteFinish, CompleteDone, CompleteFailed,
        ReadStep, PartRead, PartUnread, Abort, BlobStep, CleanupPart,
        DeleteAnswered, PartDeleteRefused, EngineCrash, partVars, nodeVars

(* While the upload is active, a node that holds a part goes on doing so.  *)
LEMMA HoldsStep ==
    ASSUME MultipartTypeOK, CleanupAfterEnd, FilesWereSent,
           [MultipartNext]_partVars, Active',
           NEW n \in Nodes, NEW p \in PartNumbers, Holds(n, p)
    PROVE  Holds(n, p)'
  <1>1. Active
    BY OverForGood
  <1>2. SentAs(p) \subseteq SentAs(p)'
    BY SentGrows
  <1>3. files'[n][p] \in SentAs(p)
    BY <1>1, FileStep DEF Holds
  <1> QED BY <1>2, <1>3 DEF Holds

-----------------------------------------------------------------------------
(* The invariant: each step preserves each of its parts.                   *)

LEMMA InitInvariant == MultipartInit => PartsInv
  <1> SUFFICES ASSUME MultipartInit PROVE PartsInv OBVIOUS
  <1>1. CleanupAfterEnd
    BY DEF MultipartInit, CleanupAfterEnd
  <1>2. FilesWereSent
    BY DEF MultipartInit, FilesWereSent
  <1>3. AcksHeld
    BY DEF MultipartInit, AcksHeld
  <1>4. RowsHeld(parts)
    BY DEF MultipartInit, RowsHeld, Listed
  <1>5. ReadsProgress
    BY DEF MultipartInit, ReadsProgress, Progress, CompleteEnded
  <1>6. UnreadableMeansEnded
    BY DEF MultipartInit, UnreadableMeansEnded, CompleteEnded
  <1> QED
    BY InitTyped, <1>1, <1>2, <1>3, <1>4, <1>5, <1>6 DEF PartsInv

LEMMA CleanupStep ==
    ASSUME MultipartTypeOK, CleanupAfterEnd, [MultipartNext]_partVars
    PROVE  CleanupAfterEnd'
  <1> SUFFICES ASSUME Active'
               PROVE  deletes' = {} /\ \A e \in Enders : cleanup'[e] = {}
    BY DEF CleanupAfterEnd
  <1>1. deletes = {} /\ \A e \in Enders : cleanup[e] = {}
    BY OverForGood DEF CleanupAfterEnd
  <1>2. cleanup' = cleanup \/ cleanup' = [e \in Enders |-> {}]
    BY <1>1
    DEF MultipartNext, Active, Initiate, PartStep, PartStart, PartInactive,
        PartFinish, PartRecorded, PartFailed, PutAnswered, NodePartPut,
        PartPutRefused, PartTimeout, CompleteStep, CompleteStart,
        CompleteRefused, CompleteUnreadable, CompleteFinish, CompleteDone,
        CompleteFailed, ReadStep, PartRead, PartUnread, Abort, BlobStep,
        CleanupPart, DeleteAnswered, NodePartDelete, PartDeleteRefused,
        EngineCrash, partVars, endVars
  <1>3. deletes' = {}
    BY <1>1
    DEF MultipartNext, Active, Initiate, PartStep, PartStart, PartInactive,
        PartFinish, PartRecorded, PartFailed, PutAnswered, NodePartPut,
        PartPutRefused, PartTimeout, CompleteStep, CompleteStart,
        CompleteRefused, CompleteUnreadable, CompleteFinish, CompleteDone,
        CompleteFailed, ReadStep, PartRead, PartUnread, Abort, BlobStep,
        CleanupPart, DeleteAnswered, NodePartDelete, PartDeleteRefused,
        EngineCrash, partVars, nodeVars
  <1> QED BY <1>1, <1>2, <1>3

LEMMA FilesStep ==
    ASSUME MultipartTypeOK, CleanupAfterEnd, FilesWereSent,
           [MultipartNext]_partVars
    PROVE  FilesWereSent'
  <1>1. ASSUME NEW call \in puts' PROVE sending'[call[1]].pc # "idle"
    <2>1. CASE call \in puts
      <3>1. call[1] \in PartUploads
        BY <2>1 DEF MultipartTypeOK
      <3> QED BY <2>1, <3>1, SentStays DEF FilesWereSent
    <2>2. CASE call \notin puts
      <3>1. PICK u \in PartUploads, ring \in Rings :
                /\ PartStart(u, ring)
                /\ call \in {u} \X P!Candidates(NumberOf[u], ring)
        BY <1>1, <2>2
        DEF MultipartNext, Initiate, PartStep, PartStart, PartInactive,
            PartFinish, PartRecorded, PartFailed, PutAnswered, NodePartPut,
            PartPutRefused, PartTimeout, CompleteStep, CompleteStart,
            CompleteRefused, CompleteUnreadable, CompleteFinish,
            CompleteDone, CompleteFailed, ReadStep, PartRead, PartUnread,
            Abort, BlobStep, CleanupPart, DeleteAnswered, NodePartDelete,
            PartDeleteRefused, EngineCrash, partVars, nodeVars
      <3>2. call[1] = u
        BY <3>1
      <3>3. sending'[u].pc = "uploading"
        BY <3>1 DEF PartStart, MultipartTypeOK
      <3> QED BY <3>2, <3>3
    <2> QED BY <2>1, <2>2
  <1>2. ASSUME NEW n \in Nodes, NEW p \in PartNumbers
        PROVE  files'[n][p] = NoFile \/ Holds(n, p)'
    <2>1. SentAs(p) \subseteq SentAs(p)'
      BY SentGrows
    <2> QED BY <2>1, FileStep DEF FilesWereSent, Holds
  <1> QED BY <1>1, <1>2 DEF FilesWereSent

LEMMA AcksStep ==
    ASSUME MultipartTypeOK, CleanupAfterEnd, FilesWereSent, AcksHeld,
           [MultipartNext]_partVars
    PROVE  AcksHeld'
  <1> USE DEF MultipartTypeOK
  <1>1. ASSUME Active', NEW u \in PartUploads, NEW n \in sending[u].acks
        PROVE  Holds(n, NumberOf[u])'
    <2>1. Active /\ n \in Nodes /\ NumberOf[u] \in PartNumbers
      BY <1>1, OverForGood, PartAssumption DEF Sending
    <2> QED BY <1>1, <2>1, HoldsStep DEF AcksHeld
  (* It is enough that a call keeps its acknowledgements, or has none, or  *)
  (* gains the node that has just stored the part.                         *)
  <1>2. SUFFICES
          ASSUME NEW u \in PartUploads
          PROVE  /\ sending'[u].pc # "uploading" =>
                       sending'[u].left = {} /\ sending'[u].acks = {}
                 /\ \A n \in sending'[u].acks \ sending[u].acks :
                       Active' => Holds(n, NumberOf[u])'
    BY <1>1 DEF AcksHeld
  <1>3. ASSUME NEW v \in PartUploads, PartStep(v)
        PROVE  \/ sending'[u] = sending[u]
               \/ sending'[u].pc = "uploading" /\ sending'[u].acks = {}
               \/ sending'[u].left = {} /\ sending'[u].acks = {}
    BY <1>3 DEF PartStep, PartStart, PartInactive, PartFinish, PartRecorded,
                PartFailed, SendAnswered
  <1>4. ASSUME NEW v \in PartUploads, NEW n \in Nodes, NodePartPut(v, n)
        PROVE  /\ sending'[u].pc # "uploading" =>
                       sending'[u].left = {} /\ sending'[u].acks = {}
               /\ \A m \in sending'[u].acks \ sending[u].acks :
                       Holds(m, NumberOf[u])'
    <2>1. CASE sending' = sending
      BY <2>1 DEF AcksHeld
    <2>2. CASE /\ n \in sending[v].left
               /\ sending' = [sending EXCEPT ![v].left = @ \ {n},
                                             ![v].acks = @ \cup {n}]
      <3>1. sending[v].pc = "uploading"
        BY <2>2 DEF AcksHeld
      <3>2. files'[n][NumberOf[v]] = DataOf[v]
        BY <1>4, PartAssumption DEF NodePartPut
      <3>3. DataOf[v] \in SentAs(NumberOf[v])'
        <4>1. sending'[v].pc = sending[v].pc
          BY <2>2, StoredFacts
        <4> QED BY <3>1, <4>1 DEF SentAs
      <3>4. Holds(n, NumberOf[v])'
        BY <3>2, <3>3 DEF Holds
      <3>5. CASE u = v
        <4>1. /\ sending'[v].pc = "uploading"
              /\ sending'[v].acks = sending[v].acks \cup {n}
          BY <2>2, <3>1, StoredFacts
        <4> QED BY <3>4, <3>5, <4>1 DEF Holds, SentAs
      <3>6. CASE u # v
        BY <2>2, <3>6, StoredFacts DEF AcksHeld
      <3> QED BY <3>5, <3>6
    <2> QED BY <1>4, <2>1, <2>2 DEF NodePartPut
  <1>5. ASSUME NEW v \in PartUploads, NEW n \in Nodes,
               PartPutRefused(v, n) \/ PartTimeout(v, n)
        PROVE  /\ sending'[u].pc = sending[u].pc
               /\ sending'[u].acks = sending[u].acks
               /\ sending'[u].left \subseteq sending[u].left
    BY <1>5, RefusedFacts DEF PartPutRefused, PartTimeout
  <1>6. CASE EngineCrash
    BY <1>6 DEF EngineCrash, AcksHeld
  <1>7. CASE UNCHANGED sending
    BY <1>7 DEF AcksHeld
  <1> QED
    BY <1>3, <1>4, <1>5, <1>6, <1>7
    DEF AcksHeld, MultipartNext, Initiate, PutAnswered, CompleteStep,
        CompleteStart, CompleteRefused, CompleteUnreadable, CompleteFinish,
        CompleteDone, CompleteFailed, ReadStep, PartRead, PartUnread, Abort,
        BlobStep, CleanupPart, DeleteAnswered, NodePartDelete,
        PartDeleteRefused, partVars

LEMMA RowsStep ==
    ASSUME MultipartTypeOK, CleanupAfterEnd, FilesWereSent, AcksHeld,
           RowsHeld(parts), [MultipartNext]_partVars
    PROVE  RowsHeld(parts)'
  <1> USE DEF MultipartTypeOK
  <1>1. SUFFICES
          ASSUME NEW p \in PartNumbers, parts'[p] # NoPart
          PROVE  /\ P!WriteSucceeds(parts'[p].replicas)
                 /\ Active' => \A n \in parts'[p].replicas : Holds(n, p)'
    BY DEF RowsHeld, Listed
  <1>2. CASE parts'[p] = parts[p]
    <2>1. /\ P!WriteSucceeds(parts[p].replicas)
          /\ Active => \A n \in parts[p].replicas : Holds(n, p)
      BY <1>1, <1>2 DEF RowsHeld, Listed
    <2>2. parts[p].replicas \subseteq Nodes
      BY DEF PartRow
    <2> QED BY <1>2, <2>1, <2>2, HoldsStep, OverForGood
  <1>3. ASSUME NEW u \in PartUploads, PartRecorded(u), NumberOf[u] = p
        PROVE  /\ P!WriteSucceeds(parts'[p].replicas)
               /\ Active' => \A n \in parts'[p].replicas : Holds(n, p)'
    <2>1. parts'[p].replicas = sending[u].acks
      BY <1>3 DEF PartRecorded
    <2>2. sending[u].acks \subseteq Nodes
      BY DEF Sending
    <2>3. P!WriteSucceeds(sending[u].acks)
      BY <1>3 DEF PartRecorded
    <2> QED BY <1>3, <2>1, <2>2, <2>3, HoldsStep, OverForGood DEF AcksHeld
  <1>4. \/ parts'[p] = parts[p]
        \/ \E u \in PartUploads : PartRecorded(u) /\ NumberOf[u] = p
    BY <1>1
    DEF MultipartNext, Initiate, PartStep, PartStart, PartInactive,
        PartFinish, PartRecorded, PartFailed, PutAnswered, NodePartPut,
        PartPutRefused, PartTimeout, CompleteStep, CompleteStart,
        CompleteRefused, CompleteUnreadable, CompleteFinish, CompleteDone,
        CompleteFailed, ReadStep, PartRead, PartUnread, Abort, BlobStep,
        CleanupPart, DeleteAnswered, NodePartDelete, PartDeleteRefused,
        EngineCrash, partVars, rowVars
  <1> QED BY <1>2, <1>3, <1>4

(* The rows that a completion has listed stay held while it goes on.       *)
LEMMA ListStays ==
    ASSUME MultipartTypeOK, CleanupAfterEnd, FilesWereSent,
           [MultipartNext]_partVars, NEW c \in Completions,
           completing'[c].list = completing[c].list,
           RowsHeld(completing[c].list)
    PROVE  RowsHeld(completing[c].list)'
  <1> DEFINE rows == completing[c].list
  <1>1. rows \in [PartNumbers -> PartRow]
    BY DEF MultipartTypeOK, Completing
  <1>2. SUFFICES
          ASSUME NEW p \in PartNumbers, rows[p] # NoPart
          PROVE  /\ P!WriteSucceeds(rows[p].replicas)
                 /\ Active' => \A n \in rows[p].replicas : Holds(n, p)'
    BY DEF RowsHeld, Listed
  <1>3. /\ P!WriteSucceeds(rows[p].replicas)
        /\ Active => \A n \in rows[p].replicas : Holds(n, p)
    BY <1>2 DEF RowsHeld, Listed
  <1>4. rows[p].replicas \subseteq Nodes
    BY <1>1 DEF PartRow
  <1> QED BY <1>3, <1>4, HoldsStep, OverForGood

LEMMA ProgressStays ==
    ASSUME MultipartTypeOK, CleanupAfterEnd, FilesWereSent,
           [MultipartNext]_partVars, NEW c \in Completions,
           completing'[c] = completing[c], Progress(c)
    PROVE  Progress(c)'
  <1>1. completing[c].pc \in {"reading", "putting"} =>
            /\ RowsHeld(completing[c].list)'
            /\ \A p \in DOMAIN completing[c].got :
                  completing[c].got[p] \in SentAs(p)'
    BY ListStays, SentGrows DEF Progress
  <1>2. Active' => Active
    BY OverForGood
  <1> QED BY <1>1, <1>2 DEF Progress, Current

LEMMA StartProgress ==
    ASSUME MultipartTypeOK, RowsHeld(parts)', NEW c \in Completions,
           CompleteStart(c)
    PROVE  Progress(c)'
  <1>1. completing'[c] = [pc |-> "reading", list |-> parts,
                          left |-> parts[1].replicas, got |-> <<>>]
    BY DEF CompleteStart, MultipartTypeOK
  <1>2. parts' = parts /\ Contiguous(parts)
    BY DEF CompleteStart, rowVars
  <1>3. RowsHeld(completing[c].list)'
    BY <1>1, <1>2 DEF RowsHeld, Listed
  <1>4. 1 \in Listed(parts)
    BY <1>2, ContiguousParts
  <1>5. Current(c)' = 1
    BY <1>1 DEF Current
  <1> QED BY <1>1, <1>2, <1>3, <1>4, <1>5 DEF Progress

(* What a chunk that has been read changes in the call.                    *)
LEMMA ChunkFacts ==
    ASSUME MultipartTypeOK, NEW c \in Completions, NEW chunk,
           completing' = [completing EXCEPT ![c] = WithChunk(c, chunk)]
    PROVE  LET next == Current(c) + 1
               more == next <= Last(completing[c].list)
           IN  /\ completing'[c].list = completing[c].list
               /\ completing'[c].got = Append(completing[c].got, chunk)
               /\ completing'[c].pc = IF more THEN "reading" ELSE "putting"
               /\ more => completing'[c].left =
                              completing[c].list[next].replicas
  BY DEF WithChunk, MultipartTypeOK, Completing

LEMMA ReadProgress ==
    ASSUME MultipartTypeOK, CleanupAfterEnd, FilesWereSent,
           [MultipartNext]_partVars, NEW c \in Completions,
           NEW n \in Nodes, PartRead(c, n), Progress(c)
    PROVE  Progress(c)'
  <1> DEFINE call == completing[c]
             here == Current(c)
             chunk == files[n][here]
  <1>1. /\ Contiguous(call.list) /\ RowsHeld(call.list)
        /\ \A p \in DOMAIN call.got : call.got[p] \in SentAs(p)
        /\ here \in Listed(call.list)
    BY DEF PartRead, Progress
  <1>2. /\ Last(call.list) \in Nat
        /\ Listed(call.list) = 1 .. Last(call.list)
        /\ here \in PartNumbers
    BY <1>1, ContiguousParts
  <1>3. /\ completing'[c].list = call.list
        /\ completing'[c].got = Append(call.got, chunk)
        /\ completing'[c].pc = IF here + 1 <= Last(call.list)
                               THEN "reading" ELSE "putting"
        /\ here + 1 <= Last(call.list) =>
              completing'[c].left = call.list[here + 1].replicas
    BY ChunkFacts DEF PartRead
  <1>4. call.got \in Seq(Bytes) /\ Len(call.got) \in Nat
    BY DEF MultipartTypeOK, Completing
  <1>5. chunk \in SentAs(here)
    BY <1>2 DEF PartRead, FilesWereSent, Holds
  <1>6. /\ DOMAIN completing'[c].got = 1 .. here
        /\ Len(completing'[c].got) = here
        /\ \A p \in 1 .. here :
              completing'[c].got[p] = IF p = here THEN chunk ELSE call.got[p]
    BY <1>3, <1>4 DEF Current
  <1>7. \A p \in DOMAIN completing'[c].got :
            completing'[c].got[p] \in SentAs(p)'
    <2>1. ASSUME NEW p \in 1 .. here
          PROVE  completing'[c].got[p] \in SentAs(p)
      <3>1. CASE p = here
        BY <1>5, <1>6, <3>1
      <3>2. CASE p # here
        <4>1. p \in DOMAIN call.got
          BY <1>4, <3>2 DEF Current
        <4> QED BY <1>1, <1>6, <3>2, <4>1
      <3> QED BY <3>1, <3>2
    <2> QED BY <1>6, <2>1, SentGrows
  <1>8. RowsHeld(completing[c].list)'
    BY <1>1, <1>3, ListStays
  <1>9. Current(c)' = here + 1
    BY <1>6 DEF Current
  <1>10. here \in Nat
    BY <1>4 DEF Current
  <1>11. CASE here + 1 <= Last(call.list)
    <2>1. here + 1 \in Listed(call.list)
      BY <1>2, <1>10, <1>11
    <2> QED BY <1>1, <1>3, <1>7, <1>8, <1>9, <1>11, <2>1 DEF Progress
  <1>12. CASE ~ (here + 1 <= Last(call.list))
    <2>1. DOMAIN completing'[c].got = Listed(call.list)
      BY <1>1, <1>2, <1>6, <1>10, <1>12
    <2> QED BY <1>1, <1>3, <1>7, <1>8, <1>12, <2>1 DEF Progress
  <1> QED BY <1>11, <1>12

LEMMA UnreadProgress ==
    ASSUME MultipartTypeOK, CleanupAfterEnd, FilesWereSent,
           [MultipartNext]_partVars, NEW c \in Completions,
           NEW n \in Nodes, PartUnread(c, n), Progress(c)
    PROVE  Progress(c)'
  <1> DEFINE call == completing[c]
             here == Current(c)
  <1>1. /\ completing'[c].pc = "reading" /\ call.pc = "reading"
        /\ completing'[c].list = call.list
        /\ completing'[c].got = call.got
        /\ completing'[c].left = call.left \ {n}
    BY DEF PartUnread, MultipartTypeOK, Completing
  <1>2. RowsHeld(completing[c].list)'
    BY <1>1, ListStays DEF Progress
  <1>3. \A p \in DOMAIN call.got : call.got[p] \in SentAs(p)'
    BY <1>1, SentGrows DEF Progress
  <1>4. Current(c)' = here
    BY <1>1 DEF Current
  (* The part was there, so the answer is the fault of a node or a ring.   *)
  <1>5. \/ ~ Active \/ "unread" \in Faults
        \/ \E ring \in Rings : ring # Nodes
    <2>1. here \in Listed(call.list) /\ n \in call.list[here].replicas
      BY <1>1 DEF PartUnread, Progress
    <2>2. Active => Holds(n, here)
      BY <1>1, <2>1 DEF Progress, RowsHeld
    <2>3. Holds(n, here) => files[n][here] # NoFile
      BY PartAssumption DEF Holds, SentAs, Contents
    <2> QED BY <2>2, <2>3 DEF PartUnread
  <1>6. ~ Active => ~ Active'
    BY OverForGood
  <1> QED BY <1>1, <1>2, <1>3, <1>4, <1>5, <1>6 DEF Progress

(* What a step makes of a completion.                                      *)
LEMMA CompletionStep ==
    ASSUME MultipartTypeOK, [MultipartNext]_partVars, NEW c \in Completions
    PROVE  \/ completing'[c] = completing[c]
           \/ CompleteStart(c)
           \/ \E n \in Nodes : ReadStep(c, n)
           \/ CompleteUnreadable(c)
           \/ completing'[c].pc \in {"ok", "failed"}
  <1> USE DEF MultipartTypeOK
  <1>1. ASSUME NEW d \in Completions, CompleteStep(d)
        PROVE  \/ completing'[c] = completing[c]
               \/ CompleteStart(c) \/ CompleteUnreadable(c)
               \/ completing'[c].pc \in {"ok", "failed"}
    <2>1. CASE d = c
      BY <1>1, <2>1
      DEF CompleteStep, CompleteRefused, CompleteFinish, CompleteDone,
          CompleteFailed, CompleteAnswered, CompleteEnded
    <2>2. CASE d # c
      BY <1>1, <2>2
      DEF CompleteStep, CompleteStart, CompleteRefused, CompleteUnreadable,
          CompleteFinish, CompleteDone, CompleteFailed, CompleteAnswered
    <2> QED BY <2>1, <2>2
  <1>2. ASSUME NEW d \in Completions, NEW n \in Nodes, ReadStep(d, n), d # c
        PROVE  completing'[c] = completing[c]
    BY <1>2 DEF ReadStep, PartRead, PartUnread
  <1>3. CASE EngineCrash
    BY <1>3 DEF EngineCrash, CompleteEnded
  <1> QED
    BY <1>1, <1>2, <1>3
    DEF MultipartNext, Initiate, PartStep, PartStart, PartInactive,
        PartFinish, PartRecorded, PartFailed, PutAnswered, NodePartPut,
        PartPutRefused, PartTimeout, Abort, BlobStep, CleanupPart,
        DeleteAnswered, NodePartDelete, PartDeleteRefused, partVars

LEMMA ProgressStep ==
    ASSUME MultipartTypeOK, CleanupAfterEnd, FilesWereSent, RowsHeld(parts)',
           ReadsProgress, [MultipartNext]_partVars
    PROVE  ReadsProgress'
  <1> SUFFICES ASSUME NEW c \in Completions PROVE Progress(c)'
    BY DEF ReadsProgress
  <1>1. Progress(c)
    BY DEF ReadsProgress
  <1>2. CASE completing'[c] = completing[c]
    BY <1>1, <1>2, ProgressStays
  <1>3. CASE CompleteStart(c)
    BY <1>3, StartProgress
  <1>4. ASSUME NEW n \in Nodes, ReadStep(c, n) PROVE Progress(c)'
    BY <1>1, <1>4, ReadProgress, UnreadProgress DEF ReadStep
  <1>5. CASE completing'[c].pc \in {"ok", "failed", "unreadable"}
    BY <1>5 DEF Progress
  <1>6. CASE CompleteUnreadable(c)
    BY <1>5, <1>6
    DEF CompleteUnreadable, CompleteAnswered, CompleteEnded, MultipartTypeOK
  <1> QED BY <1>2, <1>3, <1>4, <1>5, <1>6, CompletionStep

LEMMA UnreadableStep ==
    ASSUME MultipartTypeOK, ReadsProgress, UnreadableMeansEnded,
           [MultipartNext]_partVars, MultipartTypeOK'
    PROVE  UnreadableMeansEnded'
  <1> SUFFICES ASSUME NEW c \in Completions,
                      completing'[c].pc = "unreadable",
                      "unread" \notin Faults
               PROVE  ~ Active' \/ \E ring \in Rings : ring # Nodes
    BY DEF UnreadableMeansEnded, Active, MultipartTypeOK
  <1>1. CASE completing[c].pc = "unreadable"
    BY <1>1, OverForGood DEF UnreadableMeansEnded, Active
  <1>2. CASE CompleteUnreadable(c)
    <2>1. P!WriteSucceeds(completing[c].list[Current(c)].replicas)
      BY <1>2
      DEF CompleteUnreadable, ReadsProgress, Progress, RowsHeld
    <2>2. completing[c].left # completing[c].list[Current(c)].replicas
      BY <1>2, <2>1, QuorumNonEmpty DEF CompleteUnreadable
    <2>3. ~ Active \/ \E ring \in Rings : ring # Nodes
      BY <1>2, <2>2 DEF CompleteUnreadable, ReadsProgress, Progress
    <2> QED BY <2>3, OverForGood
  <1>3. CompleteStart(c) => completing'[c].pc = "reading"
    BY DEF CompleteStart, MultipartTypeOK
  <1>4. ASSUME NEW n \in Nodes, ReadStep(c, n)
        PROVE  completing'[c].pc \in {"reading", "putting"}
    <2>1. CASE PartRead(c, n)
      BY <2>1, ChunkFacts DEF PartRead
    <2>2. CASE PartUnread(c, n)
      BY <2>2 DEF PartUnread, MultipartTypeOK, Completing
    <2> QED BY <1>4, <2>1, <2>2 DEF ReadStep
  <1> QED BY <1>1, <1>2, <1>3, <1>4, CompletionStep

LEMMA StepInvariant == PartsInv /\ [MultipartNext]_partVars => PartsInv'
  <1> SUFFICES ASSUME PartsInv, [MultipartNext]_partVars PROVE PartsInv'
    OBVIOUS
  <1> USE DEF PartsInv
  <1>1. MultipartTypeOK'
    BY StepTyped
  <1>2. CleanupAfterEnd'
    BY CleanupStep
  <1>3. FilesWereSent'
    BY FilesStep
  <1>4. AcksHeld'
    BY AcksStep
  <1>5. RowsHeld(parts)'
    BY RowsStep
  <1>6. ReadsProgress'
    BY <1>5, ProgressStep
  <1>7. UnreadableMeansEnded'
    BY <1>1, UnreadableStep
  <1> QED BY <1>1, <1>2, <1>3, <1>4, <1>5, <1>6, <1>7

(* The invariant holds of every multipart upload.                          *)
THEOREM PartsInvariance == MultipartSpec => []PartsInv
  BY InitInvariant, StepInvariant, PTL DEF MultipartSpec

-----------------------------------------------------------------------------
(* What it is for.                                                         *)

(* While an upload is active, every recorded part is on W nodes and more,  *)
(* whichever uploads of it overlapped, failed or were answered late.       *)
THEOREM PartsDurable == MultipartSpec => []RecordedPartsHeld
  <1>1. PartsInv => RecordedPartsHeld
    BY DEF PartsInv, RowsHeld, RecordedPartsHeld, Active
  <1> QED BY <1>1, PartsInvariance, PTL

(* A completion that finds a part nowhere has lost against another ending  *)
(* of the upload, or a fault or a deregistered node keeps it from reading. *)
THEOREM PartsReadable == MultipartSpec => []UnreadableMeansEnded
  BY PartsInvariance, PTL DEF PartsInv

LEMMA AssemblyStep ==
    PartsInv /\ [MultipartNext]_partVars
        => [object' # object => \E c \in Completions : Assembled(c)]_partVars
  <1> SUFFICES ASSUME PartsInv, [MultipartNext]_partVars, object' # object
               PROVE  \E c \in Completions : Assembled(c)
    OBVIOUS
  <1>1. PICK c \in Completions :
            completing[c].pc = "putting" /\ object' = completing[c].got
    BY DEF MultipartNext, Initiate, PartStep, PartStart, PartInactive,
           PartFinish, PartRecorded, PartFailed, PutAnswered, NodePartPut,
           PartPutRefused, PartTimeout, CompleteStep, CompleteStart,
           CompleteRefused, CompleteUnreadable, CompleteFinish,
           CompleteDone, CompleteFailed, ReadStep, PartRead, PartUnread,
           Abort, BlobStep, CleanupPart, DeleteAnswered, NodePartDelete,
           PartDeleteRefused, EngineCrash, partVars, endVars
  <1>2. Progress(c)
    BY DEF PartsInv, ReadsProgress
  <1> QED BY <1>1, <1>2 DEF Assembled, Progress

(* The object that a completion commits has the listed parts in order,     *)
(* each with bytes that were uploaded as that part.                        *)
THEOREM Assembly == MultipartSpec => AssembledInOrder
  BY PartsInvariance, AssemblyStep, PTL DEF MultipartSpec, AssembledInOrder
=============================================================================
