----------------------- MODULE FailureDetectorProofs -----------------------
(***************************************************************************)
(* That the failure detector's status and count of misses agree, for any   *)
(* nodes, any number of concurrent checks and any thresholds.              *)
(***************************************************************************)
EXTENDS FailureDetector, TLAPS

LEMMA InitTyped == Init => TypeOK
  BY DetectorAssumption DEF Init, TypeOK, Statuses, Healths, Ping

(* An answer is taken for a ping that is still one.                        *)
LEMMA ReplyTyped ==
    ASSUME TypeOK, NEW p \in pings, Reply(p)
    PROVE  pings' \subseteq Ping
  <1>1. p \in Ping
    BY DEF TypeOK
  <1>2. \A reply \in {"ok", "failed"} : [p EXCEPT !.reply = reply] \in Ping
    BY <1>1 DEF Ping
  <1>3. PICK reply \in {"ok", "failed"} :
            pings' = (pings \ {p}) \cup {[p EXCEPT !.reply = reply]}
    BY DEF Reply
  <1>. QED
    BY <1>2, <1>3 DEF TypeOK

(* What the except clause computes has its type, and fits the count.       *)
LEMMA MissJudged ==
    ASSUME NEW count \in 0..DeadAfter, NEW old \in Statuses,
           old = "DEAD" <=> count >= DeadAfter,
           old = "SUSPECT" <=> count >= SuspectAfter /\ count < DeadAfter
    PROVE  LET next == Missed(count)
               judged == Judged(old, next)
           IN  /\ next \in 0..DeadAfter
               /\ judged \in Statuses
               /\ judged = "DEAD" <=> next >= DeadAfter
               /\ judged = "SUSPECT" <=>
                      next >= SuspectAfter /\ next < DeadAfter
  <1>. DEFINE next == Missed(count)
  <1>1. next \in 0..DeadAfter /\ next >= count
    BY DetectorAssumption DEF Missed
  <1>2. CASE next >= DeadAfter
    BY <1>1, <1>2, DetectorAssumption DEF Judged, Statuses
  <1>3. CASE next >= SuspectAfter /\ next < DeadAfter
    BY <1>1, <1>3, DetectorAssumption DEF Judged, Statuses
  <1>4. CASE next < SuspectAfter /\ next < DeadAfter
    BY <1>1, <1>4, DetectorAssumption DEF Judged, Statuses
  <1>. QED
    BY <1>1, <1>2, <1>3, <1>4, DetectorAssumption

DetectorInv == TypeOK /\ StatusMatchesMisses

LEMMA InitDetectorInv == Init => DetectorInv
  BY InitTyped, DetectorAssumption DEF DetectorInv, StatusMatchesMisses, Init

LEMMA PingMissedInv ==
    ASSUME DetectorInv, NEW p \in pings, PingMissed(p)
    PROVE  DetectorInv'
  <1>. USE DEF DetectorInv
  <1>1. p.node \in Nodes
    BY DEF TypeOK, Ping
  <1>2. CASE Current(p)
    <2>. DEFINE n == p.node
    <2>1. /\ failures' = [failures EXCEPT ![n] = Missed(failures[n])]
          /\ status' = [status EXCEPT ![n] = Judged(status[n], failures'[n])]
      BY <1>2 DEF PingMissed
    <2>2. /\ failures[n] \in 0..DeadAfter
          /\ status[n] \in Statuses
      BY <1>1 DEF TypeOK
    <2>3. failures'[n] = Missed(failures[n])
      BY <1>1, <2>1 DEF TypeOK
    <2>4. status'[n] = Judged(status[n], Missed(failures[n]))
      BY <1>1, <2>1, <2>3 DEF TypeOK
    <2>5. /\ failures'[n] \in 0..DeadAfter
          /\ status'[n] \in Statuses
          /\ status'[n] = "DEAD" <=> failures'[n] >= DeadAfter
          /\ status'[n] = "SUSPECT" <=>
                 failures'[n] >= SuspectAfter /\ failures'[n] < DeadAfter
      BY <1>1, <2>2, <2>3, <2>4, MissJudged DEF StatusMatchesMisses
    <2>6. TypeOK'
      BY <1>1, <2>1, <2>5 DEF TypeOK, PingMissed
    <2>7. StatusMatchesMisses'
      <3>1. \A m \in Nodes \ {n} :
                failures'[m] = failures[m] /\ status'[m] = status[m]
        BY <2>1 DEF TypeOK
      <3>. QED
        BY <2>5, <3>1 DEF StatusMatchesMisses
    <2>. QED
      BY <2>6, <2>7
  <1>3. CASE ~ Current(p)
    BY <1>3 DEF PingMissed, TypeOK, StatusMatchesMisses
  <1>. QED
    BY <1>2, <1>3

LEMMA PingAnsweredInv ==
    ASSUME DetectorInv, NEW p \in pings, PingAnswered(p)
    PROVE  DetectorInv'
  <1>. USE DEF DetectorInv
  <1>1. p.node \in Nodes
    BY DEF TypeOK, Ping
  <1>2. TypeOK'
    BY <1>1, DetectorAssumption DEF TypeOK, PingAnswered, Statuses
  <1>3. StatusMatchesMisses'
    BY <1>1, DetectorAssumption
    DEF StatusMatchesMisses, TypeOK, PingAnswered
  <1>. QED
    BY <1>2, <1>3

LEMMA NextDetectorInv == DetectorInv /\ [Next]_vars => DetectorInv'
  <1>. SUFFICES ASSUME DetectorInv, [Next]_vars PROVE DetectorInv'
    OBVIOUS
  <1>. USE DEF DetectorInv
  <1>1. ASSUME NEW c \in Checkers, CheckStart(c) PROVE DetectorInv'
    <2>1. \A n \in members :
              [by |-> c, node |-> n, join |-> joins[n], reply |-> "none"]
                  \in Ping
      BY DEF TypeOK, Ping
    <2>. QED
      BY <1>1, <2>1 DEF CheckStart, TypeOK, StatusMatchesMisses
  <1>2. ASSUME NEW c \in Checkers, CheckDone(c) PROVE DetectorInv'
    BY <1>2 DEF CheckDone, TypeOK, StatusMatchesMisses
  <1>3. ASSUME NEW p \in pings, PingStep(p) PROVE DetectorInv'
    <2>1. CASE Reply(p)
      BY <2>1, ReplyTyped DEF Reply, TypeOK, StatusMatchesMisses
    <2>. QED
      BY <1>3, <2>1, PingAnsweredInv, PingMissedInv DEF PingStep
  <1>4. ASSUME NEW n \in Nodes, Register(n) PROVE DetectorInv'
    BY <1>4, DetectorAssumption
    DEF Register, TypeOK, StatusMatchesMisses, Statuses
  <1>5. ASSUME NEW n \in Nodes, Deregister(n) PROVE DetectorInv'
    BY <1>5 DEF Deregister, TypeOK, StatusMatchesMisses
  <1>6. ASSUME NEW n \in Nodes, NEW h \in Healths, Turn(n, h)
        PROVE  DetectorInv'
    BY <1>6 DEF Turn, TypeOK, StatusMatchesMisses
  <1>7. CASE UNCHANGED vars
    BY <1>7 DEF vars, TypeOK, StatusMatchesMisses
  <1>. QED
    BY <1>1, <1>2, <1>3, <1>4, <1>5, <1>6, <1>7 DEF Next

(* At every moment a node is DEAD or SUSPECT exactly when its count of     *)
(* consecutive misses has reached the threshold: the concurrent answers of *)
(* several checks never leave the two apart.                               *)
THEOREM StatusAgrees == Spec => []StatusMatchesMisses
  <1>1. DetectorInv => StatusMatchesMisses
    BY DEF DetectorInv
  <1>. QED
    BY <1>1, InitDetectorInv, NextDetectorInv, PTL DEF Spec

(* A ping moves the state of its own node's current registration, and of   *)
(* nothing else: no step but Register touches a state by another way.      *)
THEOREM JudgedByOwnPings == Spec => OwnPings
  <1>. DEFINE Own == \A n \in Nodes :
                (failures'[n] # failures[n] \/ status'[n] # status[n])
                    /\ joins'[n] = joins[n] =>
                  \E p \in pings \ pings' : p.node = n /\ p.join = joins[n]
  <1>1. ASSUME TypeOK, [Next]_vars PROVE [Own]_vars
    <2>1. ASSUME NEW p \in pings, PingStep(p) PROVE Own
      <3>1. CASE Reply(p)
        BY <3>1 DEF Reply
      <3>2. CASE PingAnswered(p) \/ PingMissed(p)
        <4>1. p \in pings \ pings'
          BY <3>2 DEF PingAnswered, PingMissed
        <4>2. CASE Current(p)
          <5>1. PICK count, verdict :
                    /\ failures' = [failures EXCEPT ![p.node] = count]
                    /\ status' = [status EXCEPT ![p.node] = verdict]
            BY <3>2, <4>2, Zenon DEF PingAnswered, PingMissed
          <5>2. \A n \in Nodes : n # p.node =>
                    failures'[n] = failures[n] /\ status'[n] = status[n]
            BY <1>1, <5>1 DEF TypeOK
          <5>. QED
            BY <4>1, <4>2, <5>2 DEF Current
        <4>3. CASE ~ Current(p)
          BY <3>2, <4>3 DEF PingAnswered, PingMissed
        <4>. QED
          BY <4>2, <4>3
      <3>. QED
        BY <2>1, <3>1, <3>2 DEF PingStep
    <2>2. ASSUME NEW n \in Nodes, Register(n) PROVE Own
      <3>1. joins'[n] # joins[n]
        BY <1>1, <2>2, DetectorAssumption DEF Register, TypeOK
      <3>. QED
        BY <1>1, <2>2, <3>1 DEF Register, TypeOK
    <2>3. CASE UNCHANGED <<failures, status>>
      BY <2>3
    <2>. QED
      BY <1>1, <2>1, <2>2, <2>3
      DEF Next, CheckStart, CheckDone, Deregister, Turn, vars
  <1>2. Init /\ [][Next]_vars => []TypeOK
    <2>1. DetectorInv => TypeOK
      BY DEF DetectorInv
    <2>. QED
      BY <2>1, InitDetectorInv, NextDetectorInv, PTL
  <1>. QED
    BY <1>1, <1>2, PTL DEF Spec, OwnPings
=============================================================================
