--------------------------- MODULE ObjectRegister ---------------------------
(***************************************************************************)
(* What the store promises the writers of an object, with no nodes, no     *)
(* quorums and no messages: every object is a register that holds at most  *)
(* one current version.  An upload is asked for, and is then installed in  *)
(* one step that checks its precondition against the version it replaces,  *)
(* or is refused and never seen, or stays undecided for ever.              *)
(***************************************************************************)
EXTENDS VaultData

CONSTANTS
    NoEtag,      \* no If-Match precondition
    NoVersion    \* the object does not exist

VARIABLES
    current,   \* current[k]: the version that a read of k returns
    status,    \* status[v]: what has become of the upload
    wants      \* wants[v]: the precondition it came with

Cond == [ifMatch : Contents \cup {NoEtag}, ifNoneMatch : BOOLEAN]

Init ==
    /\ current = [k \in Keys |-> NoVersion]
    /\ status = [v \in Versions |-> "new"]
    /\ wants = [v \in Versions |->
                  [ifMatch |-> NoEtag, ifNoneMatch |-> FALSE]]

Ask(v, cond) ==
    /\ status[v] = "new"
    /\ status' = [status EXCEPT ![v] = "asked"]
    /\ wants' = [wants EXCEPT ![v] = cond]
    /\ UNCHANGED current

Allowed(v) ==
    LET cur == current[KeyOf[v]]
    IN  /\ wants[v].ifNoneMatch => cur = NoVersion
        /\ wants[v].ifMatch # NoEtag =>
               cur # NoVersion /\ ContentOf[cur] = wants[v].ifMatch

Install(v) ==
    /\ status[v] = "asked"
    /\ Allowed(v)
    /\ status' = [status EXCEPT ![v] = "installed"]
    /\ current' = [current EXCEPT ![KeyOf[v]] = v]
    /\ UNCHANGED wants

(* The system may refuse an upload it has not installed, whatever the      *)
(* reason: too few nodes, a precondition that does not hold.               *)
Refuse(v) ==
    /\ status[v] = "asked"
    /\ status' = [status EXCEPT ![v] = "refused"]
    /\ UNCHANGED <<current, wants>>

RefuseAtOnce(v, cond) ==
    /\ status[v] = "new"
    /\ status' = [status EXCEPT ![v] = "refused"]
    /\ wants' = [wants EXCEPT ![v] = cond]
    /\ UNCHANGED current

(* Deleting removes the current version and uncovers no older one.         *)
Remove(v) ==
    /\ current[KeyOf[v]] = v
    /\ current' = [current EXCEPT ![KeyOf[v]] = NoVersion]
    /\ status' = [status EXCEPT ![v] = "removed"]
    /\ UNCHANGED wants

Next ==
    \E v \in Versions :
        \/ \E cond \in Cond : Ask(v, cond) \/ RefuseAtOnce(v, cond)
        \/ Install(v)
        \/ Refuse(v)
        \/ Remove(v)

vars == <<current, status, wants>>

Spec == Init /\ [][Next]_vars
=============================================================================
