-------------------------- MODULE FailureDetector --------------------------
(***************************************************************************)
(* ClusterManager (vault/cluster.py): which storage nodes are registered,  *)
(* and the heartbeats by which it takes them for HEALTHY, SUSPECT or DEAD. *)
(*                                                                         *)
(* check_all_nodes pings every registered node at once and returns when    *)
(* all have been answered.  The heartbeat loop calls it for ever, and the  *)
(* gateway's check_nodes and toggle_offline endpoints may call it at the   *)
(* same time.  A ping holds on to the NodeState it was started for: nodes  *)
(* leave and join again while it is under way.                             *)
(***************************************************************************)
EXTENDS Naturals, FiniteSets

CONSTANTS
    Nodes,         \* storage nodes
    Checkers,      \* the callers of check_all_nodes
    Loop,          \* of these, the heartbeat loop
    SuspectAfter,  \* suspect_threshold_misses
    DeadAfter,     \* dead_threshold_misses
    MaxJoins       \* bound: how often a node is registered

ASSUME DetectorAssumption ==
    /\ Loop \in Checkers
    /\ SuspectAfter \in Nat \ {0}
    /\ DeadAfter \in Nat \ {0}
    /\ MaxJoins \in Nat \ {0}

VARIABLES
    health,    \* what a node does with heartbeats: the environment
    members,   \* the keys of ClusterManager.nodes
    joins,     \* joins[n]: registrations of n, each with a new NodeState
    failures,  \* consecutive_failures of the latest NodeState of n
    status,    \* its status
    pings,     \* heartbeat requests under way
    checking   \* the calls of check_all_nodes under way

vars == <<health, members, joins, failures, status, pings, checking>>

Statuses == {"HEALTHY", "SUSPECT", "DEAD"}

Healths == {"up", "slow", "down"}

Ping == [by : Checkers, node : Nodes, join : 1..MaxJoins,
         reply : {"none", "ok", "failed"}]

TypeOK ==
    /\ health \in [Nodes -> Healths]
    /\ members \subseteq Nodes
    /\ joins \in [Nodes -> 1..MaxJoins]
    /\ failures \in [Nodes -> 0..DeadAfter]
    /\ status \in [Nodes -> Statuses]
    /\ pings \subseteq Ping
    /\ checking \subseteq Checkers

Init ==
    /\ health \in [Nodes -> {"up", "down"}]
    /\ members = Nodes
    /\ joins = [n \in Nodes |-> 1]
    /\ failures = [n \in Nodes |-> 0]
    /\ status = [n \in Nodes |-> "HEALTHY"]
    /\ pings = {}
    /\ checking = {}

-----------------------------------------------------------------------------
(* check_all_nodes: a ping for each registered node, and the gather.       *)
CheckStart(c) ==
    /\ c \notin checking
    /\ checking' = checking \cup {c}
    /\ pings' = pings \cup
          {[by |-> c, node |-> n, join |-> joins[n], reply |-> "none"] :
               n \in members}
    /\ UNCHANGED <<health, members, joins, failures, status>>

CheckDone(c) ==
    /\ c \in checking
    /\ \A p \in pings : p.by # c
    /\ checking' = checking \ {c}
    /\ UNCHANGED <<health, members, joins, failures, status, pings>>

(* The request is answered 200, or with another status, or refused, or     *)
(* times out.  The answer of a slow node may be in time or not.            *)
Reply(p) ==
    /\ p.reply = "none"
    /\ \E reply \in (CASE health[p.node] = "up" -> {"ok"}
                       [] health[p.node] = "down" -> {"failed"}
                       [] OTHER -> {"ok", "failed"}) :
           pings' = (pings \ {p}) \cup {[p EXCEPT !.reply = reply]}
    /\ UNCHANGED <<health, members, joins, failures, status, checking>>

(* Mutant: the state is looked up by id when the answer is there.          *)
CurrentById(p) == p.node \in members

(* The NodeState that p holds is the one under its node's id, if the node  *)
(* has not left since; otherwise nobody sees it any more.                  *)
Current(p) == p.node \in members /\ p.join = joins[p.node]

(* Mutant: the counter is not reset.                                       *)
PingAnsweredNoReset(p) ==
    /\ p.reply = "ok"
    /\ pings' = pings \ {p}
    /\ status' = IF Current(p) THEN [status EXCEPT ![p.node] = "HEALTHY"]
                               ELSE status
    /\ UNCHANGED <<health, members, joins, failures, checking>>

(* Mutant: only a SUSPECT node recovers.                                   *)
PingAnsweredDeadStays(p) ==
    /\ p.reply = "ok"
    /\ pings' = pings \ {p}
    /\ IF Current(p) /\ status[p.node] # "DEAD"
       THEN /\ failures' = [failures EXCEPT ![p.node] = 0]
            /\ status' = [status EXCEPT ![p.node] = "HEALTHY"]
       ELSE UNCHANGED <<failures, status>>
    /\ UNCHANGED <<health, members, joins, checking>>

(* _ping_node after the await: the node answered.                          *)
PingAnswered(p) ==
    /\ p.reply = "ok"
    /\ pings' = pings \ {p}
    /\ IF Current(p)
       THEN /\ failures' = [failures EXCEPT ![p.node] = 0]
            /\ status' = [status EXCEPT ![p.node] = "HEALTHY"]
       ELSE UNCHANGED <<failures, status>>
    /\ UNCHANGED <<health, members, joins, checking>>

(* The count stops at DeadAfter: no comparison tells more misses apart.    *)
Missed(count) == IF count < DeadAfter THEN count + 1 ELSE count

(* Mutant: the thresholds are compared in the other order.                 *)
JudgedSuspectFirst(old, count) ==
    CASE count >= SuspectAfter -> "SUSPECT"
      [] count >= DeadAfter /\ count < SuspectAfter -> "DEAD"
      [] OTHER -> old

Judged(old, count) ==
    CASE count >= DeadAfter -> "DEAD"
      [] count >= SuspectAfter /\ count < DeadAfter -> "SUSPECT"
      [] OTHER -> old

(* _ping_node's except clause.                                             *)
PingMissed(p) ==
    /\ p.reply = "failed"
    /\ pings' = pings \ {p}
    /\ IF Current(p)
       THEN /\ failures' = [failures EXCEPT ![p.node] = Missed(@)]
            /\ status' = [status EXCEPT ![p.node] =
                             Judged(@, failures'[p.node])]
       ELSE UNCHANGED <<failures, status>>
    /\ UNCHANGED <<health, members, joins, checking>>

-----------------------------------------------------------------------------
(* register_node and deregister_node.                                      *)
Register(n) ==
    /\ n \notin members
    /\ joins[n] < MaxJoins
    /\ members' = members \cup {n}
    /\ joins' = [joins EXCEPT ![n] = @ + 1]
    /\ failures' = [failures EXCEPT ![n] = 0]
    /\ status' = [status EXCEPT ![n] = "HEALTHY"]
    /\ UNCHANGED <<health, pings, checking>>

Deregister(n) ==
    /\ n \in members
    /\ members' = members \ {n}
    /\ UNCHANGED <<health, joins, failures, status, pings, checking>>

(* A node starts, stops, or slows down.                                    *)
Turn(n, h) ==
    /\ health' = [health EXCEPT ![n] = h]
    /\ UNCHANGED <<members, joins, failures, status, pings, checking>>

-----------------------------------------------------------------------------
PingStep(p) == Reply(p) \/ PingAnswered(p) \/ PingMissed(p)

Next ==
    \/ \E c \in Checkers : CheckStart(c) \/ CheckDone(c)
    \/ \E p \in pings : PingStep(p)
    \/ \E n \in Nodes :
           \/ Register(n)
           \/ Deregister(n)
           \/ \E h \in Healths \ {health[n]} : Turn(n, h)

Spec == Init /\ [][Next]_vars

(* The heartbeat loop comes round again for ever, every request ends - the *)
(* session has a timeout - and the event loop resumes every coroutine.  An *)
(* administrator's check is made or not.                                   *)
Fairness ==
    /\ WF_vars(CheckStart(Loop))
    /\ \A c \in Checkers :
           /\ WF_vars(CheckDone(c))
           /\ \A n \in Nodes :
                  WF_vars(\E p \in pings : p.by = c /\ p.node = n /\ PingStep(p))

FairSpec == Spec /\ Fairness

-----------------------------------------------------------------------------
(* Properties                                                              *)

(* A node's status says what its count of misses says, in every            *)
(* interleaving of the loop's answers, an administrator's and the node's   *)
(* leaving and joining again: README, "SUSPECT: Missed >= 2 consecutive    *)
(* heartbeats", "DEAD: Missed >= 5 consecutive heartbeats".                *)
StatusMatchesMisses ==
    \A n \in Nodes :
        /\ status[n] = "DEAD" <=> failures[n] >= DeadAfter
        /\ status[n] = "SUSPECT" <=>
               failures[n] >= SuspectAfter /\ failures[n] < DeadAfter

(* A NodeState is judged by its own pings alone: a ping that was sent      *)
(* before its node left never moves the state the node has now.            *)
OwnPings ==
    [][\A n \in Nodes :
          (failures'[n] # failures[n] \/ status'[n] # status[n])
              /\ joins'[n] = joins[n] =>
            \E p \in pings \ pings' : p.node = n /\ p.join = joins[n]]_vars

(* Completeness.  A node that goes down for good and stays registered is   *)
(* DEAD in the end, and stays DEAD.                                        *)
DownNodesDead ==
    \A n \in Nodes :
        <>[](n \in members /\ health[n] = "down") =>
            <>[](status[n] = "DEAD")

(* Accuracy.  A node that answers for good and stays registered is HEALTHY *)
(* in the end, however it was judged before: placement trusts it again.    *)
UpNodesHealthy ==
    \A n \in Nodes :
        <>[](n \in members /\ health[n] = "up") =>
            <>[](status[n] = "HEALTHY")
=============================================================================
