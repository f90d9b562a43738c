---------------------------- MODULE StorageNode ----------------------------
(***************************************************************************)
(* StorageNodeServer (vault/node.py): the blobs on the nodes' disks and    *)
(* what each handler does to them, as functions on `disk`.                 *)
(*                                                                         *)
(* A file is the blob's bytes and the digest in its .meta sidecar.  Bytes  *)
(* and digests are compared for equality only, so a digest is named by the *)
(* bytes it is the digest of.  A blob's path holds its version id, so a    *)
(* file is named by a node and a version.                                  *)
(***************************************************************************)
EXTENDS VaultData

CONSTANTS
    Rot,     \* bytes damaged on disk: no upload's content
    NoFile   \* no blob, or no readable sidecar

ASSUME ContentAssumption ==
    Rot \notin Contents /\ NoFile \notin Contents /\ Rot # NoFile

Bytes == Contents \cup {Rot}

File == [data : Bytes \cup {NoFile}, sum : Bytes \cup {NoFile}]

Nothing == [data |-> NoFile, sum |-> NoFile]

EmptyDisks == [n \in Nodes |-> [v \in Versions |-> Nothing]]

-----------------------------------------------------------------------------
HasFile(d, n, v) == d[n][v].data # NoFile

Intact(d, n, v) == d[n][v].data = ContentOf[v]

(* handle_put_object compares the received bytes with the digest header,   *)
(* when there is one.                                                      *)
Accepts(data, sum) == sum = NoFile \/ sum = data

(* The staged file replaces the blob and the sidecar records the digest of *)
(* what was received; no await separates the two.                          *)
WriteBlob(d, n, v, data) == [d EXCEPT ![n][v] = [data |-> data, sum |-> data]]

(* The blob is in place and writing the sidecar fails, or the process dies *)
(* there: the old sidecar survives or is left unreadable.                  *)
WriteBlobOnly(d, n, v, data, sum) ==
    [d EXCEPT ![n][v] = [data |-> data, sum |-> sum]]

SidecarsLeft(d, n, v) == {d[n][v].sum, NoFile}

(* A DELETE of a blob that is not there answers 404 and touches nothing.   *)
RemoveBlob(d, n, v) ==
    IF HasFile(d, n, v) THEN [d EXCEPT ![n][v] = Nothing] ELSE d

(* Bit rot, or its injection: the bytes change, the sidecar does not.      *)
RotBlob(d, n, v) == [d EXCEPT ![n][v].data = Rot]
=============================================================================
