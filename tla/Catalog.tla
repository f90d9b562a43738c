------------------------------ MODULE Catalog ------------------------------
(***************************************************************************)
(* MetadataStore (vault/metadata.py): the objects table and the            *)
(* transactions on it, each as a function from the table before it to the  *)
(* table after it.  Every call is synchronous and runs on the one event    *)
(* loop, so between two awaits of the engine each one is atomic.           *)
(*                                                                         *)
(* A table is a function from Versions to rows.  A version identifies one  *)
(* upload: uuid4 version ids are never reused.                             *)
(***************************************************************************)
EXTENDS VaultData

CONSTANT NoEtag    \* the If-Match header is absent

ASSUME EtagAssumption == NoEtag \notin Contents

RowStates == {"ABSENT", "PENDING", "COMMITTED", "DELETED"}

Row == [state : RowStates, latest : BOOLEAN, replicas : SUBSET Nodes]

NoRow == [state |-> "ABSENT", latest |-> FALSE, replicas |-> {}]

EmptyCatalog == [v \in Versions |-> NoRow]

(* The ETag is a prefix of the SHA-256: equal contents have equal ETags.   *)
Etag(v) == ContentOf[v]

-----------------------------------------------------------------------------
(* The rows that get_object without a version id selects for key k.        *)
LatestRows(tab, k) ==
    {v \in Versions :
        KeyOf[v] = k /\ tab[v].latest /\ tab[v].state = "COMMITTED"}

(* Mutant: an If-Match put may create the object.                          *)
PreconditionUpserts(tab, v, cond) ==
    LET current == LatestRows(tab, KeyOf[v])
    IN  /\ cond.ifNoneMatch => current = {}
        /\ cond.ifMatch # NoEtag => \A u \in current : Etag(u) = cond.ifMatch

(* The optimistic concurrency check inside the commit transaction.         *)
PreconditionHolds(tab, v, cond) ==
    LET current == LatestRows(tab, KeyOf[v])
    IN  /\ cond.ifNoneMatch => current = {}
        /\ cond.ifMatch # NoEtag => \E u \in current : Etag(u) = cond.ifMatch

PrepareObject(tab, v, nodes) ==
    [tab EXCEPT ![v] = [state |-> "PENDING", latest |-> FALSE,
                        replicas |-> nodes]]

(* Mutant: the previous latest row is not demoted.                         *)
CommitWithoutDemotion(tab, v) ==
    [tab EXCEPT ![v].state = "COMMITTED", ![v].latest = TRUE]

(* Demote every row of the key, then promote v.                            *)
CommitObject(tab, v) ==
    [u \in Versions |->
        IF u = v
        THEN [tab[u] EXCEPT !.state = "COMMITTED", !.latest = TRUE]
        ELSE [tab[u] EXCEPT !.latest = @ /\ KeyOf[u] # KeyOf[v]]]

(* Mutant: the row is marked, as the docstring says, and stays.            *)
AbortByMarking(tab, v) ==
    IF tab[v].state = "PENDING" THEN [tab EXCEPT ![v].state = "ABORTED"] ELSE tab

(* The row is deleted, and only if it is PENDING.                          *)
AbortObject(tab, v) ==
    IF tab[v].state = "PENDING" THEN [tab EXCEPT ![v] = NoRow] ELSE tab

(* The tombstone; v is the row that LatestRows selected.                   *)
TombstoneObject(tab, v) ==
    [tab EXCEPT ![v].state = "DELETED", ![v].latest = FALSE]

(* No condition on the row's state: the UPDATE matches it by its name.     *)
UpdateObjectReplicas(tab, v, nodes) == [tab EXCEPT ![v].replicas = nodes]
=============================================================================
