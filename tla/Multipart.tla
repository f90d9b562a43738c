----------------------------- MODULE Multipart -----------------------------
(***************************************************************************)
(* One multipart upload: initiate, upload_part, complete and abort of      *)
(* VaultEngine (vault/engine.py) over the multipart tables of the metadata *)
(* store and the storage nodes.  Uploads share nothing but the object they *)
(* write: rows and blobs are named by the upload's id.                     *)
(*                                                                         *)
(* Clients of the REST API call the operations in any order and overlap.   *)
(* A part's blob is named by its number alone, so two uploads of one part  *)
(* write the same files.  put_object, which completion calls, is reduced   *)
(* to what WritePathProofs!Implementation says of it: after an await it    *)
(* has committed one new version, or it raises.                            *)
(***************************************************************************)
EXTENDS Naturals, Sequences, FiniteSets

CONSTANTS
    PartUploads,  \* calls of upload_part
    NumberOf,     \* NumberOf[u]: the part that u uploads
    DataOf,       \* DataOf[u]: its bytes, and so their SHA-256
    MaxPart,      \* part numbers are 1 .. MaxPart
    Completions,  \* calls of complete_multipart_upload
    Aborts,       \* calls of abort_multipart_upload
    Nodes, N, W, RingRank, Rack,   \* as in Placement
    Rings,        \* the sets of nodes that may be registered in the ring
    Faults,       \* what can go wrong: a subset of FaultKinds
    MaxCrashes,   \* bound: restarts of the engine
    Rot, NoFile   \* damaged bytes; no blob

FaultKinds == {"late",     \* a PUT outlives the engine's patience
               "refused",  \* a PUT or a DELETE fails or is lost
               "unread",   \* a GET fails or is lost
               "put",      \* put_object raises
               "store"}    \* a metadata call raises an SQLite error

PartNumbers == 1 .. MaxPart

Contents == {DataOf[u] : u \in PartUploads}

ASSUME PartAssumption ==
    /\ MaxPart \in Nat
    /\ NumberOf \in [PartUploads -> PartNumbers]
    /\ DOMAIN DataOf = PartUploads
    /\ Rot \notin Contents /\ NoFile \notin Contents /\ Rot # NoFile
    /\ IsFiniteSet(Nodes)
    /\ W \in Nat /\ N \in Nat /\ 1 <= W /\ W <= N
    /\ Completions \cap Aborts = {}
    /\ Rings \subseteq SUBSET Nodes
    /\ Faults \subseteq FaultKinds
    /\ MaxCrashes \in Nat

(* A part is placed under a key of its own.                                *)
P == INSTANCE Placement WITH
    Keys <- PartNumbers, Versions <- PartUploads,
    KeyOf <- NumberOf, ContentOf <- DataOf

VARIABLES
    upload,      \* the state column of the multipart_uploads row
    parts,       \* parts[p]: the multipart_parts row of part p
    files,       \* files[n][p]: the blob of part p on node n
    puts,        \* PUT calls <<u, n>> on their way to a node
    deletes,     \* DELETE calls <<e, p, n>> on their way to a node
    sending,     \* sending[u]: the upload_part call u
    completing,  \* completing[c]: the complete_multipart_upload call c
    object,      \* the payload that a completion committed last, in chunks
    aborted,     \* the abort_multipart_upload calls that have been made
    cleanup,     \* cleanup[e]: the blobs that the cleanup task of e has to
                 \* visit yet
    crashes      \* restarts of the engine so far

rowVars == <<upload, parts>>
nodeVars == <<files, puts, deletes>>
endVars == <<object, aborted, cleanup>>
partVars == <<rowVars, nodeVars, endVars, sending, completing, crashes>>

Enders == Completions \cup Aborts

Bytes == Contents \cup {Rot}

PartRow == [data : Contents \cup {NoFile}, replicas : SUBSET Nodes]

NoPart == [data |-> NoFile, replicas |-> {}]

NoObject == <<>>

Sending == [pc : {"idle", "uploading", "ok", "failed"},
            left : SUBSET Nodes, acks : SUBSET Nodes]

(* "unreadable" is the error for a part with no blob left, "failed" is any *)
(* other error.                                                            *)
CompleteStates == {"idle", "reading", "putting", "ok", "unreadable", "failed"}

Completing == [pc : CompleteStates,
               list : [PartNumbers -> PartRow],  \* list_parts at the start
               left : SUBSET Nodes,  \* replicas of the part to read, untried
               got : Seq(Bytes)]     \* assembled_chunks

(* A call that is not under way.                                           *)
CompleteEnded(pc) ==
    [pc |-> pc, list |-> [p \in PartNumbers |-> NoPart], left |-> {},
     got |-> <<>>]

MultipartTypeOK ==
    /\ upload \in {"ABSENT", "INITIATED", "COMPLETED", "ABORTED"}
    /\ parts \in [PartNumbers -> PartRow]
    /\ files \in [Nodes -> [PartNumbers -> Bytes \cup {NoFile}]]
    /\ puts \subseteq PartUploads \X Nodes
    /\ deletes \subseteq Enders \X PartNumbers \X Nodes
    /\ sending \in [PartUploads -> Sending]
    /\ completing \in [Completions -> Completing]
    /\ object \in Seq(Bytes)
    /\ aborted \subseteq Aborts
    /\ cleanup \in [Enders -> SUBSET (PartNumbers \X Nodes)]
    /\ crashes \in Nat

MultipartInit ==
    /\ upload = "ABSENT"
    /\ parts = [p \in PartNumbers |-> NoPart]
    /\ files = [n \in Nodes |-> [p \in PartNumbers |-> NoFile]]
    /\ puts = {} /\ deletes = {}
    /\ sending = [u \in PartUploads |->
                    [pc |-> "idle", left |-> {}, acks |-> {}]]
    /\ completing = [c \in Completions |-> CompleteEnded("idle")]
    /\ object = NoObject
    /\ aborted = {}
    /\ cleanup = [e \in Enders |-> {}]
    /\ crashes = 0

-----------------------------------------------------------------------------
Initiate ==
    /\ upload = "ABSENT"
    /\ upload' = "INITIATED"
    /\ UNCHANGED <<parts, nodeVars, sending, completing, endVars, crashes>>

(* upload_part up to its await: no node is excluded for its health, and    *)
(* nothing asks whether W nodes are there.                                 *)
PartStart(u, ring) ==
    LET targets == P!Candidates(NumberOf[u], ring)
    IN  /\ sending[u].pc = "idle"
        /\ upload = "INITIATED"
        /\ sending' = [sending EXCEPT ![u] =
                         [pc |-> "uploading", left |-> targets, acks |-> {}]]
        /\ puts' = puts \cup ({u} \X targets)
        /\ UNCHANGED <<rowVars, files, deletes, completing, endVars, crashes>>

SendAnswered(u, pc) ==
    sending' = [sending EXCEPT ![u] = [pc |-> pc, left |-> {}, acks |-> {}]]

PartInactive(u) ==
    /\ sending[u].pc = "idle"
    /\ upload # "INITIATED"
    /\ SendAnswered(u, "failed")
    /\ UNCHANGED <<rowVars, nodeVars, completing, endVars, crashes>>

(* handle_put_object on node n: whatever was under the part's name is      *)
(* replaced.  A node that then fails to write the sidecar differs from a   *)
(* late answer in nothing that a part's readers look at.                   *)
NodePartPut(u, n) ==
    /\ <<u, n>> \in puts
    /\ puts' = puts \ {<<u, n>>}
    /\ files' = [files EXCEPT ![n][NumberOf[u]] = DataOf[u]]
    /\ sending' = IF n \in sending[u].left
                  THEN [sending EXCEPT ![u].left = @ \ {n},
                                       ![u].acks = @ \cup {n}]
                  ELSE sending
    /\ UNCHANGED <<rowVars, deletes, completing, endVars, crashes>>

PartPutRefused(u, n) ==
    /\ "refused" \in Faults
    /\ <<u, n>> \in puts
    /\ puts' = puts \ {<<u, n>>}
    /\ sending' = [sending EXCEPT ![u].left = @ \ {n}]
    /\ UNCHANGED <<rowVars, files, deletes, completing, endVars, crashes>>

(* Mutant: a call that timed out is taken for an acknowledgement.          *)
PartTimeoutCounted(u, n) ==
    /\ "late" \in Faults
    /\ n \in sending[u].left
    /\ sending' = [sending EXCEPT ![u].left = @ \ {n}, ![u].acks = @ \cup {n}]
    /\ UNCHANGED <<rowVars, nodeVars, completing, endVars, crashes>>

PartTimeout(u, n) ==
    /\ "late" \in Faults
    /\ n \in sending[u].left
    /\ sending' = [sending EXCEPT ![u].left = @ \ {n}]
    /\ UNCHANGED <<rowVars, nodeVars, completing, endVars, crashes>>

-----------------------------------------------------------------------------
PartSent(u) == sending[u].pc = "uploading" /\ sending[u].left = {}

(* record_part inserts or replaces the row, whatever has become of the     *)
(* upload during the await.                                                *)
PartRecorded(u) ==
    /\ PartSent(u)
    /\ P!WriteSucceeds(sending[u].acks)
    /\ parts' = [parts EXCEPT ![NumberOf[u]] =
                   [data |-> DataOf[u], replicas |-> sending[u].acks]]
    /\ SendAnswered(u, "ok")
    /\ UNCHANGED <<upload, nodeVars, completing, endVars, crashes>>

(* The quorum is missed and nothing is cleaned up, or record_part raises.  *)
PartFailed(u) ==
    /\ PartSent(u)
    /\ ~ P!WriteSucceeds(sending[u].acks) \/ "store" \in Faults
    /\ SendAnswered(u, "failed")
    /\ UNCHANGED <<rowVars, nodeVars, completing, endVars, crashes>>

-----------------------------------------------------------------------------
Listed(rows) == {p \in PartNumbers : rows[p] # NoPart}

Last(rows) == Cardinality(Listed(rows))

Contiguous(rows) == Listed(rows) # {} /\ Listed(rows) = 1 .. Last(rows)

(* complete_multipart_upload up to its first await.                        *)
CompleteStart(c) ==
    /\ completing[c].pc = "idle"
    /\ upload = "INITIATED"
    /\ Contiguous(parts)
    /\ completing' = [completing EXCEPT ![c] =
                        [pc |-> "reading", list |-> parts,
                         left |-> parts[1].replicas, got |-> <<>>]]
    /\ UNCHANGED <<rowVars, nodeVars, sending, endVars, crashes>>

CompleteAnswered(c, pc) ==
    completing' = [completing EXCEPT ![c] = CompleteEnded(pc)]

CompleteRefused(c) ==
    /\ completing[c].pc = "idle"
    /\ ~ (upload = "INITIATED" /\ Contiguous(parts))
    /\ CompleteAnswered(c, "failed")
    /\ UNCHANGED <<rowVars, nodeVars, sending, endVars, crashes>>

(* The part that c reads now.                                              *)
Current(c) == Len(completing[c].got) + 1

(* Mutant: the last part is left out.                                      *)
WithChunkButLast(c, chunk) ==
    LET next == Current(c) + 1
        more == next < Last(completing[c].list)
    IN  [completing[c] EXCEPT
            !.got = Append(@, chunk),
            !.left = IF more THEN completing[c].list[next].replicas ELSE {},
            !.pc = IF more THEN "reading" ELSE "putting"]

(* The call when a chunk has been read.                                    *)
WithChunk(c, chunk) ==
    LET next == Current(c) + 1
        more == next <= Last(completing[c].list)
    IN  [completing[c] EXCEPT
            !.got = Append(@, chunk),
            !.left = IF more THEN completing[c].list[next].replicas ELSE {},
            !.pc = IF more THEN "reading" ELSE "putting"]

(* Mutant: a 404 is taken for an empty part.                               *)
PartReadBlindly(c, n) ==
    /\ completing[c].pc = "reading"
    /\ n \in completing[c].left
    /\ completing' = [completing EXCEPT ![c] =
                        WithChunk(c, files[n][Current(c)])]
    /\ UNCHANGED <<rowVars, nodeVars, sending, endVars, crashes>>

(* A replica answers 200 with whatever it holds: the bytes are compared    *)
(* with no digest, though the row has one.                                 *)
PartRead(c, n) ==
    /\ completing[c].pc = "reading"
    /\ n \in completing[c].left
    /\ files[n][Current(c)] # NoFile
    /\ completing' = [completing EXCEPT ![c] =
                        WithChunk(c, files[n][Current(c)])]
    /\ UNCHANGED <<rowVars, nodeVars, sending, endVars, crashes>>

(* A 404, an error, or a node that is registered no more.                  *)
PartUnread(c, n) ==
    /\ completing[c].pc = "reading"
    /\ n \in completing[c].left
    /\ \/ files[n][Current(c)] = NoFile
       \/ "unread" \in Faults
       \/ \E ring \in Rings : n \notin ring
    /\ completing' = [completing EXCEPT ![c].left = @ \ {n}]
    /\ UNCHANGED <<rowVars, nodeVars, sending, endVars, crashes>>

CompleteUnreadable(c) ==
    /\ completing[c].pc = "reading"
    /\ completing[c].left = {}
    /\ CompleteAnswered(c, "unreadable")
    /\ UNCHANGED <<rowVars, nodeVars, sending, endVars, crashes>>

Blobs(rows) == {b \in PartNumbers \X Nodes : b[2] \in rows[b[1]].replicas}

(* put_object has committed, and with no await after the commit the upload *)
(* is marked and the cleanup task created.                                 *)
CompleteDone(c) ==
    /\ completing[c].pc = "putting"
    /\ object' = completing[c].got
    /\ CompleteAnswered(c, "ok")
    /\ upload' = "COMPLETED"
    /\ cleanup' = [cleanup EXCEPT ![c] = Blobs(completing[c].list)]
    /\ UNCHANGED <<parts, nodeVars, sending, aborted, crashes>>

(* Mutant: the part blobs are cleaned up whether put_object succeeds or    *)
(* not.                                                                    *)
CompleteFailedCleaning(c) ==
    /\ completing[c].pc = "putting"
    /\ UNCHANGED object
    /\ CompleteAnswered(c, "failed")
    /\ cleanup' = [cleanup EXCEPT ![c] = Blobs(completing[c].list)]
    /\ UNCHANGED <<rowVars, nodeVars, sending, aborted, crashes>>

(* put_object raises, or a metadata call after its commit does.            *)
CompleteFailed(c) ==
    /\ completing[c].pc = "putting"
    /\ \/ /\ "put" \in Faults
          /\ UNCHANGED object
       \/ /\ "store" \in Faults
          /\ object' = completing[c].got
    /\ CompleteAnswered(c, "failed")
    /\ UNCHANGED <<rowVars, nodeVars, sending, aborted, cleanup, crashes>>

-----------------------------------------------------------------------------
(* abort_multipart_upload has no await: whatever the upload's state, the   *)
(* row is marked, the part rows are deleted and the cleanup task created.  *)
Abort(a) ==
    /\ a \notin aborted
    /\ upload # "ABSENT"
    /\ aborted' = aborted \cup {a}
    /\ upload' = "ABORTED"
    /\ parts' = [p \in PartNumbers |-> NoPart]
    /\ cleanup' = [cleanup EXCEPT ![a] = Blobs(parts)]
    /\ UNCHANGED <<nodeVars, sending, completing, object, crashes>>

(* _cleanup_multipart_parts visits one blob at a time.                     *)
CleanupPart(e, p, n) ==
    /\ <<p, n>> \in cleanup[e]
    /\ \/ \A del \in deletes : del[1] # e
       \/ "late" \in Faults
    /\ cleanup' = [cleanup EXCEPT ![e] = @ \ {<<p, n>>}]
    /\ deletes' = deletes \cup {<<e, p, n>>}
    /\ UNCHANGED <<rowVars, files, puts, sending, completing, object,
                   aborted, crashes>>

NodePartDelete(e, p, n) ==
    /\ <<e, p, n>> \in deletes
    /\ deletes' = deletes \ {<<e, p, n>>}
    /\ files' = [files EXCEPT ![n][p] = NoFile]
    /\ UNCHANGED <<rowVars, puts, sending, completing, endVars, crashes>>

PartDeleteRefused(e, p, n) ==
    /\ "refused" \in Faults
    /\ <<e, p, n>> \in deletes
    /\ deletes' = deletes \ {<<e, p, n>>}
    /\ UNCHANGED <<rowVars, files, puts, sending, completing, endVars,
                   crashes>>

-----------------------------------------------------------------------------
(* The engine restarts: its calls and tasks are gone.                      *)
EngineCrash ==
    /\ crashes < MaxCrashes
    /\ crashes' = crashes + 1
    /\ sending' = [u \in PartUploads |->
                     IF sending[u].pc = "uploading"
                     THEN [pc |-> "failed", left |-> {}, acks |-> {}]
                     ELSE sending[u]]
    /\ completing' = [c \in Completions |->
                        IF completing[c].pc \in {"reading", "putting"}
                        THEN CompleteEnded("failed")
                        ELSE completing[c]]
    /\ cleanup' = [e \in Enders |-> {}]
    /\ UNCHANGED <<rowVars, nodeVars, object, aborted>>

-----------------------------------------------------------------------------
PartFinish(u) == PartRecorded(u) \/ PartFailed(u)

PartStep(u) ==
    \/ \E ring \in Rings : PartStart(u, ring)
    \/ PartInactive(u)
    \/ PartFinish(u)

PutAnswered(u, n) == NodePartPut(u, n) \/ PartPutRefused(u, n)

ReadStep(c, n) == PartRead(c, n) \/ PartUnread(c, n)

CompleteFinish(c) == CompleteDone(c) \/ CompleteFailed(c)

CompleteStep(c) ==
    CompleteStart(c) \/ CompleteRefused(c)
        \/ CompleteUnreadable(c) \/ CompleteFinish(c)

DeleteAnswered(e, p, n) == NodePartDelete(e, p, n) \/ PartDeleteRefused(e, p, n)

BlobStep(e, p, n) == CleanupPart(e, p, n) \/ DeleteAnswered(e, p, n)

MultipartNext ==
    \/ Initiate
    \/ \E u \in PartUploads : PartStep(u)
    \/ \E u \in PartUploads, n \in Nodes : PutAnswered(u, n) \/ PartTimeout(u, n)
    \/ \E c \in Completions : CompleteStep(c)
    \/ \E c \in Completions, n \in Nodes : ReadStep(c, n)
    \/ \E a \in Aborts : Abort(a)
    \/ \E e \in Enders, p \in PartNumbers, n \in Nodes : BlobStep(e, p, n)
    \/ EngineCrash

MultipartSpec == MultipartInit /\ [][MultipartNext]_partVars

-----------------------------------------------------------------------------
(* The bytes that some call has uploaded as part p.                        *)
SentAs(p) == {DataOf[u] : u \in {v \in PartUploads :
                                   NumberOf[v] = p /\ sending[v].pc # "idle"}}

Holds(n, p) == files[n][p] \in SentAs(p)

(* As long as an upload is active, the replicas in a part's row are W at   *)
(* least, and each still has a blob that was uploaded as that part: part   *)
(* uploads that overlap, fail or answer late take nothing away.            *)
RecordedPartsHeld ==
    upload = "INITIATED" =>
        \A p \in Listed(parts) :
            /\ P!WriteSucceeds(parts[p].replicas)
            /\ \A n \in parts[p].replicas : Holds(n, p)

(* "Validates all contiguous parts, stitches them into a final object      *)
(* blob": a committed object has a chunk for each part that was listed     *)
(* when its completion began, in order, each one uploaded as that part.    *)
Assembled(c) ==
    /\ completing[c].pc = "putting"
    /\ DOMAIN object' = Listed(completing[c].list)
    /\ \A p \in DOMAIN object' : object'[p] \in SentAs(p)

AssembledInOrder ==
    [][object' # object => \E c \in Completions : Assembled(c)]_partVars

(* A completion finds no replica of a part only if nodes or rings fail it, *)
(* or another call has ended the upload and cleaned up.                    *)
UnreadableMeansEnded ==
    \A c \in Completions :
        completing[c].pc = "unreadable" /\ "unread" \notin Faults =>
            \/ upload \in {"COMPLETED", "ABORTED"}
            \/ \E ring \in Rings : ring # Nodes

-----------------------------------------------------------------------------
(* The inductive invariant behind these properties.                        *)
Active == upload \in {"ABSENT", "INITIATED"}

(* Blobs are deleted of an upload that is over, and only such.             *)
CleanupAfterEnd ==
    Active => deletes = {} /\ \A e \in Enders : cleanup[e] = {}

(* A part's file holds what was uploaded as that part.                     *)
FilesWereSent ==
    /\ \A call \in puts : sending[call[1]].pc # "idle"
    /\ \A n \in Nodes, p \in PartNumbers : files[n][p] = NoFile \/ Holds(n, p)

AcksHeld ==
    /\ \A u \in PartUploads :
           sending[u].pc # "uploading" =>
               sending[u].left = {} /\ sending[u].acks = {}
    /\ Active =>
           \A u \in PartUploads : \A n \in sending[u].acks : Holds(n, NumberOf[u])

RowsHeld(rows) ==
    \A p \in Listed(rows) :
        /\ P!WriteSucceeds(rows[p].replicas)
        /\ Active => \A n \in rows[p].replicas : Holds(n, p)

(* A completion has all parts that it listed before it, or behind it; a    *)
(* read of a part goes on finding it until the upload is over.             *)
Progress(c) ==
    LET call == completing[c]
    IN  /\ call.pc \in {"reading", "putting"} =>
               /\ Contiguous(call.list)
               /\ RowsHeld(call.list)
               /\ \A p \in DOMAIN call.got : call.got[p] \in SentAs(p)
        /\ call.pc = "reading" =>
               /\ Current(c) \in Listed(call.list)
               /\ call.left \subseteq call.list[Current(c)].replicas
               /\ \/ call.left = call.list[Current(c)].replicas
                  \/ ~ Active \/ "unread" \in Faults
                  \/ \E ring \in Rings : ring # Nodes
        /\ call.pc = "putting" => DOMAIN call.got = Listed(call.list)

ReadsProgress == \A c \in Completions : Progress(c)

PartsInv ==
    /\ MultipartTypeOK
    /\ CleanupAfterEnd
    /\ FilesWereSent
    /\ AcksHeld
    /\ RowsHeld(parts)
    /\ ReadsProgress
    /\ UnreadableMeansEnded
=============================================================================
