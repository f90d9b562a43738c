------------------------------- MODULE Client -------------------------------
(***************************************************************************)
(* Users of the SDK (VaultClient and AsyncVaultClient, vault/client.py)    *)
(* against the store that WritePath implements: one register per object    *)
(* (ObjectRegister), to which put_object, get_object and delete_object of  *)
(* the SDK go through the gateway (vault/gateway.py).                      *)
(*                                                                         *)
(* Shared objects are updated in the way the ETag is there for: a caller   *)
(* gets the object and puts what it made of it on the condition that it is *)
(* still the same, or creates it on the condition that there is none.      *)
(* Others are uploaded with no condition.  Meanwhile a pager reads the     *)
(* listing of the bucket page by page (list_objects).                      *)
(***************************************************************************)
EXTENDS Naturals, FiniteSets, SequencesExt

CONSTANTS
    Keys,      \* the keys of a bucket, numbered in their binary order
    Versions,  \* the uploads that callers may make
    KeyOf,     \* KeyOf[v]: the object that v is uploaded to
    Count,     \* Count[v]: its content, the number of updates it results from
    Callers,
    Shared,    \* the keys that all callers update on condition only
    Matching,  \* the keys that LIKE '<prefix>%' selects
    FolderOf,  \* FolderOf[k]: its common prefix under the delimiter
    NoFolder,  \* there is no delimiter after the prefix
    Limit,     \* the page size
    NoVersion, NoEtag

ASSUME ClientAssumption ==
    /\ Keys \subseteq Nat \ {0} /\ IsFiniteSet(Keys)
    /\ KeyOf \in [Versions -> Keys]
    /\ Count \in [Versions -> Nat \ {0}]
    /\ Matching \subseteq Keys /\ Shared \subseteq Keys
    /\ DOMAIN FolderOf = Keys
    /\ Limit \in Nat \ {0}      \* Query(ge=1)
    /\ NoVersion \notin Versions /\ NoEtag \notin Nat

VARIABLES
    current, status, wants,  \* the register, as in ObjectRegister
    holds,    \* holds[c]: what caller c has got, as a set of at most one
    updates,  \* history: updates[k] counts the puts since k last came to be
    page,     \* the listing in progress
    steady    \* history: the keys that have existed all along the listing

regVars == <<current, status, wants>>
pageVars == <<page, steady>>
clientVars == <<regVars, holds, updates, pageVars>>

Store == INSTANCE ObjectRegister WITH ContentOf <- Count, Nodes <- {}

Versioned == Versions \cup {NoVersion}

(* What a caller's get returned: the version, or a 404.                    *)
Held == [key : Keys, base : Versioned]

Page == [pc : {"idle", "listing", "done"},
         marker : Keys \cup {0},            \* 0 is no marker
         listed : Seq(Keys),                \* the objects of all pages so far
         folders : SUBSET {FolderOf[k] : k \in Keys}]

UpdatesTypeOK ==
    /\ current \in [Keys -> Versioned]
    /\ status \in [Versions ->
                     {"new", "asked", "installed", "refused", "removed"}]
    /\ wants \in [Versions -> Store!Cond]
    /\ holds \in [Callers -> {{}} \cup {{held} : held \in Held}]
    /\ updates \in [Keys -> Nat]

ClientTypeOK ==
    /\ UpdatesTypeOK
    /\ page \in Page
    /\ steady \subseteq Keys

ClientInit ==
    /\ Store!Init
    /\ holds = [c \in Callers |-> {}]
    /\ updates = [k \in Keys |-> 0]
    /\ page = [pc |-> "idle", marker |-> 0, listed |-> <<>>, folders |-> {}]
    /\ steady = {}

Existing == {k \in Keys : current[k] # NoVersion}

-----------------------------------------------------------------------------
(* get_object: the row, its ETag and the bytes are of one version, or the  *)
(* answer is 404.                                                          *)
CallerGet(c, k) ==
    /\ k \in Shared
    /\ holds' = [holds EXCEPT ![c] = {[key |-> k, base |-> current[k]]}]
    /\ UNCHANGED <<regVars, updates, pageVars>>

(* Mutant: an object that was not found is created unconditionally.        *)
HeadersIfFound(base) ==
    [ifMatch |-> IF base = NoVersion THEN NoEtag ELSE Count[base],
     ifNoneMatch |-> FALSE]

(* The headers of put_object for the version that the caller started from. *)
Headers(base) ==
    [ifMatch |-> IF base = NoVersion THEN NoEtag ELSE Count[base],
     ifNoneMatch |-> base = NoVersion]

(* v is what the caller makes of what it holds: one more than it found.    *)
IsUpdateOf(v, held) ==
    /\ KeyOf[v] = held.key
    /\ Count[v] = IF held.base = NoVersion THEN 1 ELSE Count[held.base] + 1

(* put_object: whether it is answered 201, 412 or 503, or the SDK's own    *)
(* timeout leaves the outcome unknown, the caller starts over from a get.  *)
CallerPut(c, v) ==
    /\ \E held \in holds[c] :
           /\ IsUpdateOf(v, held)
           /\ \/ Store!Ask(v, Headers(held.base))
              \/ Store!RefuseAtOnce(v, Headers(held.base))
    /\ holds' = [holds EXCEPT ![c] = {}]
    /\ UNCHANGED <<updates, pageVars>>

(* put_object and upload_file without a condition, by anyone.              *)
NoCondition == [ifMatch |-> NoEtag, ifNoneMatch |-> FALSE]

Upload(v) ==
    /\ KeyOf[v] \notin Shared
    /\ Store!Ask(v, NoCondition) \/ Store!RefuseAtOnce(v, NoCondition)
    /\ UNCHANGED <<holds, updates, pageVars>>

-----------------------------------------------------------------------------
(* The store commits an upload.                                            *)
StoreInstall(v) ==
    /\ Store!Install(v)
    /\ updates' = [updates EXCEPT ![KeyOf[v]] = @ + 1]
    /\ UNCHANGED <<holds, page, steady>>

StoreRefuse(v) ==
    /\ Store!Refuse(v)
    /\ UNCHANGED <<holds, updates, pageVars>>

(* delete_object of the SDK, by anyone: it has no precondition.            *)
Delete(v) ==
    /\ Store!Remove(v)
    /\ updates' = [updates EXCEPT ![KeyOf[v]] = 0]
    /\ steady' = steady \ {KeyOf[v]}
    /\ UNCHANGED <<holds, page>>

-----------------------------------------------------------------------------
ListStart ==
    /\ page.pc = "idle"
    /\ page' = [page EXCEPT !.pc = "listing"]
    /\ steady' = Existing
    /\ UNCHANGED <<regVars, holds, updates>>

(* Mutant: the page begins with the marker itself.                         *)
SelectedFrom(marker) == {k \in Existing \cap Matching : k >= marker}

(* The WHERE clause of list_objects: rows that are latest and COMMITTED.   *)
Selected(marker) == {k \in Existing \cap Matching : k > marker}

(* ORDER BY key ASC.                                                       *)
Ascending(S) ==
    CHOOSE seq \in [1 .. Cardinality(S) -> S] :
        \A i, j \in 1 .. Cardinality(S) : i < j => seq[i] < seq[j]

(* LIMIT n, in that order.                                                 *)
FirstOf(S, n) == {k \in S : Cardinality({j \in S : j < k}) < n}

(* Mutants: the marker of the next page is the last row's common prefix;   *)
(* the marker is the row that did not fit.                                 *)
NextMarkerFolder(rows, marker) ==
    IF FolderOf[Max(rows)] = NoFolder THEN Max(rows) ELSE FolderOf[Max(rows)]

NextMarkerBeyond(rows, marker) == Max(FirstOf(Selected(marker), Limit + 1))

(* next_marker: the last row of the page; there are more.                  *)
NextMarker(rows, marker) == Max(rows)

(* One call of list_objects: a page of rows, the objects among them and    *)
(* the common prefixes of the others.  The pager passes next_marker on.    *)
ListPage ==
    LET rows    == FirstOf(Selected(page.marker), Limit)
        more    == Cardinality(Selected(page.marker)) > Limit
        objects == {k \in rows : FolderOf[k] = NoFolder}
    IN  /\ page.pc = "listing"
        /\ page' = [pc |-> IF more THEN "listing" ELSE "done",
                    marker |-> IF more THEN NextMarker(rows, page.marker) ELSE 0,
                    listed |-> page.listed \o Ascending(objects),
                    folders |-> page.folders
                                  \cup {FolderOf[k] : k \in rows \ objects}]
        /\ UNCHANGED <<regVars, holds, updates, steady>>

-----------------------------------------------------------------------------
CallerStep(c) ==
    \/ \E k \in Keys : CallerGet(c, k)
    \/ \E v \in Versions : CallerPut(c, v)

StoreStep(v) ==
    Upload(v) \/ StoreInstall(v) \/ StoreRefuse(v) \/ Delete(v)

ClientNext ==
    \/ \E c \in Callers : CallerStep(c)
    \/ \E v \in Versions : StoreStep(v)
    \/ ListStart
    \/ ListPage

(* The pager asks for the next page as long as there is one.               *)
ClientSpec == ClientInit /\ [][ClientNext]_clientVars /\ WF_clientVars(ListPage)

-----------------------------------------------------------------------------
(* "Prevents lost updates using `If-Match: <etag>` and `If-None-Match: *`  *)
(* headers": however callers interleave, give up, and delete and create    *)
(* objects anew, a shared object's content is the number of puts that went *)
(* into it, none of them lost and each made on what it replaces.           *)
NoLostUpdate ==
    \A k \in Existing \cap Shared : Count[current[k]] = updates[k]

(* The pages of a listing are in the order of the keys, across pages too,  *)
(* and so list no object twice, whatever is put and deleted meanwhile.     *)
ListedInOrder ==
    \A i, j \in DOMAIN page.listed :
        i < j => page.listed[i] < page.listed[j]

Recorded(k) == IF FolderOf[k] = NoFolder THEN k \in ToSet(page.listed)
                                         ELSE FolderOf[k] \in page.folders

(* A listing that has ended has every object that matches and has existed  *)
(* all along, as itself or in its common prefix, though it may have been   *)
(* replaced.                                                               *)
ListingComplete ==
    page.pc = "done" => \A k \in steady \cap Matching : Recorded(k)

(* A listing ends, however many objects are created ahead of it.           *)
ListingEnds == page.pc = "listing" ~> page.pc = "done"
=============================================================================
