---------------------------- MODULE LargeUpload ----------------------------
(***************************************************************************)
(* VaultClient.upload_large_file (vault/client.py): the SDK uploads the    *)
(* chunks of a file one after the other, completes the upload, and aborts  *)
(* it whatever goes wrong.  The SDK stops waiting for an answer after 30   *)
(* seconds (httpx), while the gateway carries on with the call.            *)
(*                                                                         *)
(* The file is cut into the chunks 1 .. MaxPart: chunk p is what the one   *)
(* upload of part p sends.                                                 *)
(***************************************************************************)
EXTENDS Multipart

CONSTANTS
    ClientFaults,   \* {"gone"} if the SDK may lose an answer, or {}
    MaxRot          \* bound: part blobs that are damaged at one time

VARIABLE sdk   \* sdk.pc, and sdk.next, the next chunk to send

sdkVars == <<partVars, sdk>>

Sdk == [pc : {"start", "sending", "waiting", "completing", "aborting",
              "returned", "raised"},
        next : 1 .. MaxPart + 1]

SdkInit == MultipartInit /\ sdk = [pc |-> "start", next |-> 1]

ChunkUpload(p) == CHOOSE u \in PartUploads : NumberOf[u] = p

SdkGoes(pc) == sdk' = [sdk EXCEPT !.pc = pc]

Gone == "gone" \in ClientFaults

-----------------------------------------------------------------------------
(* POST /multipart/init: outside of the try block.                         *)
SdkInitiate ==
    /\ sdk.pc = "start"
    /\ Initiate
    /\ SdkGoes("sending") \/ (Gone /\ SdkGoes("raised"))

SdkSend(ring) ==
    /\ sdk.pc = "sending"
    /\ sdk.next <= MaxPart
    /\ PartStart(ChunkUpload(sdk.next), ring)
    /\ SdkGoes("waiting")

SdkSent ==
    /\ sdk.pc = "waiting"
    /\ sending[ChunkUpload(sdk.next)].pc = "ok"
    /\ sdk' = [pc |-> "sending", next |-> sdk.next + 1]
    /\ UNCHANGED partVars

(* An error status, or no answer in time.                                  *)
SdkSendFailed ==
    /\ sdk.pc = "waiting"
    /\ sending[ChunkUpload(sdk.next)].pc = "failed" \/ Gone
    /\ SdkGoes("aborting")
    /\ UNCHANGED partVars

SdkComplete(c) ==
    /\ sdk.pc = "sending"
    /\ sdk.next > MaxPart
    /\ CompleteStart(c) \/ CompleteRefused(c)
    /\ SdkGoes("completing")

SdkCompleted(c) ==
    /\ sdk.pc = "completing"
    /\ completing[c].pc = "ok"
    /\ SdkGoes("returned")
    /\ UNCHANGED partVars

SdkCompleteFailed(c) ==
    /\ sdk.pc = "completing"
    /\ completing[c].pc \in {"failed", "unreadable"} \/ Gone
    /\ SdkGoes("aborting")
    /\ UNCHANGED partVars

(* The except clause: the DELETE, which may not get through, and the       *)
(* VaultClientError.                                                       *)
SdkAbort(a) ==
    /\ sdk.pc = "aborting"
    /\ Abort(a) \/ (Gone /\ UNCHANGED partVars)
    /\ SdkGoes("raised")

(* Bit rot reaches the blob of a part.                                     *)
RotPart(n, p) ==
    /\ Cardinality({b \in Nodes \X PartNumbers : files[b[1]][b[2]] = Rot})
           < MaxRot
    /\ files[n][p] \in Contents
    /\ files' = [files EXCEPT ![n][p] = Rot]
    /\ UNCHANGED <<rowVars, puts, deletes, sending, completing, endVars,
                   crashes, sdk>>

(* What the gateway and the nodes do by themselves.                        *)
ServerStep ==
    \/ \E u \in PartUploads : PartFinish(u)
    \/ \E u \in PartUploads, n \in Nodes : PutAnswered(u, n) \/ PartTimeout(u, n)
    \/ \E c \in Completions : CompleteUnreadable(c) \/ CompleteFinish(c)
    \/ \E c \in Completions, n \in Nodes : ReadStep(c, n)
    \/ \E e \in Enders, p \in PartNumbers, n \in Nodes : BlobStep(e, p, n)
    \/ EngineCrash

SdkNext ==
    \/ SdkInitiate
    \/ \E ring \in Rings : SdkSend(ring)
    \/ SdkSent
    \/ SdkSendFailed
    \/ \E c \in Completions :
           SdkComplete(c) \/ SdkCompleted(c) \/ SdkCompleteFailed(c)
    \/ \E a \in Aborts : SdkAbort(a)
    \/ \E n \in Nodes, p \in PartNumbers : RotPart(n, p)
    \/ ServerStep /\ UNCHANGED sdk

SdkSpec == SdkInit /\ [][SdkNext]_sdkVars

-----------------------------------------------------------------------------
TheFile == [p \in PartNumbers |-> DataOf[ChunkUpload(p)]]

(* The object that upload_large_file returns is the file: "Validates all   *)
(* contiguous parts, stitches them into a final object blob, and           *)
(* atomically commits object metadata" (complete_multipart_upload).        *)
ReturnedIsTheFile == sdk.pc = "returned" => object = TheFile
=============================================================================
