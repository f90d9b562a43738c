-------------------------- MODULE RebalancerProofs --------------------------
(***************************************************************************)
(* What Rebalancer keeps, for every cluster, every placement, every plan   *)
(* and any number of runs.                                                 *)
(***************************************************************************)
EXTENDS Rebalancer, WritePathProofs

-----------------------------------------------------------------------------
(* The inductive invariants behind ListedHaveBlob and SomeReplicaHeld.     *)

(* A rebalance migrates versions that are or were readable.                *)
MovesAreOfRows ==
    /\ \A v \in move.rows : Decided(v)
    /\ move.pc \in {"copy", "prune"} =>
           move.ver \in Versions /\ Decided(move.ver)
    /\ move.pc = "copy" => move.donor \in Nodes
    /\ \A call \in prunes : Decided(call.ver)

(* An answer is on its way only while it is awaited.                       *)
AnswersAwaited == move.reply # "none" => move.wait # NoNode

MoveInv ==
    /\ Consistent
    /\ MoveTypeOK
    /\ CopiesOfDecided
    /\ MovesAreOfRows
    /\ AnswersAwaited

(* The versions whose replica list is still the planned one.               *)
Planned == move.rows \cup (IF move.pc = "copy" THEN {move.ver} ELSE {})

PlansHold ==
    /\ move.pc \in {"copy", "prune"} => move.ver \notin move.rows
    /\ \A v \in Planned : move.listed[v] = objects[v].replicas

(* A DELETE goes where the list no longer points.                          *)
PrunesAreUnlisted ==
    /\ \A call \in prunes :
           /\ call.ver \notin Planned
           /\ call.node \notin objects[call.ver].replicas
    /\ move.pc = "prune" => move.todo \cap objects[move.ver].replicas = {}

(* A copy that counts, or is about to, has arrived where it was needed.    *)
CopiesArrive ==
    move.pc = "copy" =>
        /\ move.todo \cup move.done \cup ({move.wait} \ {NoNode})
               \subseteq Needed(move.ver)
        /\ objects[move.ver].state = "COMMITTED" =>
               \A n \in Restored(move) : HasFile(disk, n, move.ver)

(* While an answer is awaited, the call or its answer is on its way.       *)
CallsAwaited ==
    /\ move.wait # NoNode => move.pc \in {"copy", "prune"}
    /\ Prompt =>
           \/ /\ NoCopies /\ prunes = {}
              /\ move.wait = NoNode \/ move.reply # "none"
           \/ \E call \in requests \cup copies :
                 /\ move.pc = "copy"
                 /\ move.wait # NoNode /\ move.reply = "none"
                 /\ call.ver = move.ver /\ call.dst = move.wait
                 /\ \/ requests = {call} /\ copies = {}
                    \/ requests = {} /\ copies = {call}
                 /\ prunes = {}
           \/ \E call \in prunes :
                 /\ move.pc = "prune"
                 /\ move.wait # NoNode /\ move.reply = "none"
                 /\ call.ver = move.ver /\ call.node = move.wait
                 /\ prunes = {call} /\ NoCopies

ListedInv ==
    /\ MoveInv
    /\ PlansHold
    /\ PrunesAreUnlisted
    /\ CopiesArrive
    /\ CallsAwaited
    /\ ListedHaveBlob

(* The same for SomeReplicaHeld.                                           *)
DoneHeld ==
    move.pc = "copy" /\ objects[move.ver].state = "COMMITTED" =>
        \A n \in Restored(move) : Held(n, move.ver)

HeldInv == ListedInv /\ Digested /\ DoneHeld /\ SomeReplicaHeld

-----------------------------------------------------------------------------
(* The steps of the task that touch nothing but its own state, but for     *)
(* those that begin something.                                             *)
Goes ==
    \/ \E v \in Versions : MigrateSkip(v)
    \/ \E n \in Nodes : MoveSkip(n)
    \/ MigrateNothing
    \/ PruneDone
    \/ RebalanceDone
    \/ MoveHeard
    \/ MoveTimeout

Begins ==
    \/ \E ring \in Rings : \E healthy \in SUBSET ring : RebalanceStart(healthy)
    \/ \E v \in Versions, n \in Nodes : MigrateStart(v, n)

(* The task gives up: a restart, or an SQLite error.                       *)
Forgets == move' = [NoMove EXCEPT !.runs = move.runs]

LEMMA OwnFrame ==
    Goes \/ Begins \/ MigrateStoreError => UNCHANGED <<vars, copyVars, prunes>>
  BY DEF Goes, Begins, MigrateStoreError, MigrateSkip, MoveSkip,
         MigrateNothing, PruneDone, RebalanceDone, MoveHeard, MoveTimeout,
         RebalanceStart, MigrateStart, MoveTo

LEMMA RestoredNodes ==
    ASSUME move \in Move, AnswersAwaited
    PROVE  Restored(move) \subseteq Nodes
  BY DEF Restored, AnswersAwaited, Move

(* The call awaited is awaited still, or no longer.                        *)
SameCall ==
    move'.wait = move.wait /\ move'.reply = move.reply /\ move'.done = move.done

CallOver ==
    /\ move'.wait = NoNode /\ move'.reply = "none"
    /\ move'.done \subseteq Restored(move)
    /\ ~ Prompt \/ move.reply # "none"

LEMMA CallGoesOn ==
    ASSUME SameCall \/ CallOver
    PROVE  /\ move'.wait = move.wait \/ move'.wait = NoNode
           /\ Restored(move') \subseteq Restored(move)
  BY DEF SameCall, CallOver, Restored

LEMMA GoesOn ==
    ASSUME move \in Move, AnswersAwaited, Goes
    PROVE  /\ move' \in Move
           /\ move'.listed = move.listed /\ move'.target = move.target
           /\ move'.ver = move.ver /\ move'.donor = move.donor
           /\ move'.rows \subseteq move.rows
           /\ move'.todo \subseteq move.todo
           /\ \/ move'.pc = move.pc
              \/ /\ move'.pc \in {"next", "idle"} /\ move.pc # "idle"
                 /\ move.wait = NoNode \/ move.pc = "next"
           /\ SameCall \/ CallOver
  <1>1. ASSUME NEW v \in Versions, MigrateSkip(v)
        PROVE  move' = [move EXCEPT !.rows = @ \ {v}]
    BY <1>1 DEF MigrateSkip, MoveTo
  <1>2. ASSUME NEW n \in Nodes, MoveSkip(n)
        PROVE  move' = [move EXCEPT !.todo = @ \ {n}]
    BY <1>2 DEF MoveSkip, MoveTo
  <1>3. CASE MigrateNothing \/ PruneDone
    BY <1>3 DEF MigrateNothing, Copied, PruneDone, MoveTo, Move, SameCall
  <1>4. CASE RebalanceDone
    BY <1>4 DEF RebalanceDone, MoveTo, Move, SameCall
  <1>5. CASE MoveHeard \/ MoveTimeout
    <2>1. PICK done \in SUBSET Nodes :
              /\ move' = [move EXCEPT !.wait = NoNode, !.reply = "none",
                                      !.done = done]
              /\ done \subseteq Restored(move)
      <3>1. Restored(move) \subseteq Nodes /\ move.done \subseteq Restored(move)
        BY RestoredNodes DEF Restored
      <3>2. CASE MoveHeard
        BY <3>1, <3>2 DEF MoveHeard, MoveTo, Counted, Restored, Move
      <3>3. CASE MoveTimeout
        <4>1. move' = [move EXCEPT !.wait = NoNode, !.reply = "none",
                                   !.done = move.done]
          BY <3>3 DEF MoveTimeout, MoveTo, GivenUp, Move
        <4> QED BY <3>1, <4>1
      <3> QED BY <1>5, <3>2, <3>3
    <2>2. ~ Prompt \/ move.reply # "none"
      BY <1>5 DEF MoveHeard, MoveTimeout, Prompt
    <2>3. /\ move' \in Move
          /\ move'.rows = move.rows /\ move'.todo = move.todo
          /\ move'.listed = move.listed /\ move'.target = move.target
          /\ move'.ver = move.ver /\ move'.donor = move.donor
          /\ move'.pc = move.pc /\ move'.wait = NoNode
          /\ move'.reply = "none" /\ move'.done = done
      BY <2>1 DEF Move, Replies
    <2> QED BY <2>1, <2>2, <2>3 DEF CallOver
  <1>6. ASSUME NEW v \in Versions, move' = [move EXCEPT !.rows = @ \ {v}]
        PROVE  /\ move' \in Move
               /\ move'.rows = move.rows \ {v} /\ move'.todo = move.todo
               /\ move'.listed = move.listed /\ move'.target = move.target
               /\ move'.ver = move.ver /\ move'.donor = move.donor
               /\ move'.pc = move.pc /\ SameCall
    BY <1>6 DEF Move, SameCall
  <1>7. ASSUME NEW n \in Nodes, move' = [move EXCEPT !.todo = @ \ {n}]
        PROVE  /\ move' \in Move
               /\ move'.todo = move.todo \ {n} /\ move'.rows = move.rows
               /\ move'.listed = move.listed /\ move'.target = move.target
               /\ move'.ver = move.ver /\ move'.donor = move.donor
               /\ move'.pc = move.pc /\ SameCall
    BY <1>7 DEF Move, SameCall
  <1>8. ASSUME NEW v \in Versions, MigrateSkip(v)
        PROVE  /\ move' \in Move
               /\ move'.rows \subseteq move.rows /\ move'.todo = move.todo
               /\ move'.listed = move.listed /\ move'.target = move.target
               /\ move'.ver = move.ver /\ move'.donor = move.donor
               /\ move'.pc = move.pc /\ SameCall
    BY <1>1, <1>6, <1>8
  <1>9. ASSUME NEW n \in Nodes, MoveSkip(n)
        PROVE  /\ move' \in Move
               /\ move'.todo \subseteq move.todo /\ move'.rows = move.rows
               /\ move'.listed = move.listed /\ move'.target = move.target
               /\ move'.ver = move.ver /\ move'.donor = move.donor
               /\ move'.pc = move.pc /\ SameCall
    BY <1>2, <1>7, <1>9
  <1> QED BY <1>3, <1>4, <1>5, <1>8, <1>9 DEF Goes

LEMMA Forgotten ==
    ASSUME move \in Move, Forgets
    PROVE  /\ move' \in Move
           /\ move'.pc = "idle" /\ move'.rows = {} /\ move'.wait = NoNode
           /\ move'.reply = "none"
  BY DEF Forgets, NoMove, Move, Replies

LEMMA Planning ==
    ASSUME TypeOK, move \in Move, NEW ring \in Rings,
           NEW healthy \in SUBSET ring, RebalanceStart(healthy)
    PROVE  /\ move' \in Move
           /\ move.pc = "idle" /\ move'.pc = "next" /\ move'.wait = NoNode
           /\ move'.reply = "none"
           /\ \A v \in move'.rows : v \in Versions /\ Decided(v)
           /\ move'.listed = [v \in Versions |-> objects[v].replicas]
           /\ LateCalls \/ prunes = {}
  <1> DEFINE latest == UNION {LatestRows(objects, k) : k \in Keys}
             target == [v \in Versions |-> Candidates(KeyOf[v], healthy)]
             rows == {v \in latest : ~ target[v] \subseteq objects[v].replicas}
             listed == [v \in Versions |-> objects[v].replicas]
             runs == move.runs + 1
  <1>1. rows \subseteq Versions /\ \A v \in rows : Decided(v)
    BY DEF LatestRows, Decided
  <1>2. listed \in [Versions -> SUBSET Nodes]
    BY DEF TypeOK, Row
  <1>3. healthy \subseteq Nodes /\ target \in [Versions -> SUBSET Nodes]
    <2>1. healthy \subseteq Nodes
      BY FaultAssumption
    <2> QED BY <2>1, CandidatesAreEligible
  <1>4. runs \in Nat
    BY DEF Move
  <1>5. move' = [NoMove EXCEPT !.pc = "next", !.rows = rows,
                               !.listed = listed, !.target = target,
                               !.healthy = healthy, !.runs = runs]
    BY DEF RebalanceStart, MoveTo
  <1>6. move.pc = "idle" /\ (LateCalls \/ prunes = {})
    BY DEF RebalanceStart
  <1> HIDE DEF rows, target, runs, listed
  <1>7. /\ move' \in Move
        /\ move'.pc = "next" /\ move'.wait = NoNode /\ move'.reply = "none"
        /\ move'.rows = rows /\ move'.listed = listed
    BY <1>1, <1>2, <1>3, <1>4, <1>5 DEF NoMove, Move, Replies
  <1> QED BY <1>1, <1>6, <1>7 DEF listed

LEMMA Visiting ==
    ASSUME move \in Move, NEW v \in Versions, NEW n \in Nodes,
           MigrateStart(v, n)
    PROVE  /\ move' \in Move
           /\ move.pc = "next" /\ v \in move.rows /\ move'.pc = "copy"
           /\ move'.ver = v /\ move'.donor = n
           /\ move'.rows = move.rows \ {v}
           /\ move'.listed = move.listed /\ move'.target = move.target
           /\ move'.todo = move.target[v] \ move.listed[v]
           /\ move'.done = {} /\ move'.wait = move.wait
           /\ move'.reply = move.reply
  BY DEF MigrateStart, MoveTo, Needed, Move

LEMMA Sending ==
    ASSUME move \in Move, NEW n \in Nodes, MoveSend(n) \/ PruneSend(n)
    PROVE  /\ move' \in Move
           /\ move.wait = NoNode /\ n \in move.todo /\ move'.wait = n
           /\ move'.todo = move.todo \ {n}
           /\ move'.pc = move.pc /\ move'.rows = move.rows
           /\ move'.listed = move.listed /\ move'.target = move.target
           /\ move'.ver = move.ver /\ move'.donor = move.donor
           /\ move'.done = move.done /\ move'.reply = move.reply
  <1>1. CASE MoveSend(n)
    BY <1>1 DEF MoveSend, Move
  <1>2. CASE PruneSend(n)
    BY <1>2 DEF PruneSend, Move
  <1> QED BY <1>1, <1>2

LEMMA Committing ==
    ASSUME TypeOK, move \in Move, move.ver \in Versions, MigrateCommit
    PROVE  /\ move' \in Move
           /\ move.pc = "copy" /\ move.wait = NoNode /\ move.todo = {}
           /\ move.done # {}
           /\ move'.pc = "prune" /\ move'.wait = NoNode
           /\ move'.reply = move.reply
           /\ move'.todo = move.listed[move.ver] \ move.target[move.ver]
           /\ move'.rows = move.rows /\ move'.listed = move.listed
           /\ move'.target = move.target /\ move'.ver = move.ver
           /\ objects' \in [Versions -> Row]
           /\ objects'[move.ver].replicas =
                 (move.listed[move.ver] \cup move.done)
                     \ (move.listed[move.ver] \ move.target[move.ver])
           /\ objects'[move.ver].state = objects[move.ver].state
           /\ objects'[move.ver].latest = objects[move.ver].latest
           /\ \A v \in Versions \ {move.ver} : objects'[v] = objects[v]
           /\ UNCHANGED <<disk, rotted, wire, put, del, cleanup, queue,
                          crashes, copyVars, prunes>>
  <1> DEFINE u == move.ver
             list == (move.listed[u] \cup move.done) \ Surplus(u)
  <1>1. /\ Copied /\ move.done # {}
        /\ objects' = [objects EXCEPT ![u].replicas = list]
        /\ move' = [move EXCEPT !.pc = "prune", !.todo = Surplus(u)]
        /\ UNCHANGED <<disk, rotted, wire, put, del, cleanup, queue, crashes,
                       copyVars, prunes>>
    BY DEF MigrateCommit, UpdateObjectReplicas
  <1>2. /\ list \subseteq Nodes /\ Surplus(u) \subseteq Nodes
    BY DEF Surplus, Move
  <1>3. objects \in [Versions -> Row]
    BY DEF TypeOK
  <1>4. /\ objects' \in [Versions -> Row]
        /\ objects'[u].replicas = list
        /\ objects'[u].state = objects[u].state
        /\ objects'[u].latest = objects[u].latest
        /\ \A v \in Versions \ {u} : objects'[v] = objects[v]
    BY <1>1, <1>2, <1>3 DEF Row
  <1>5. /\ move' \in Move /\ move'.wait = move.wait /\ move'.pc = "prune"
        /\ move'.reply = move.reply
        /\ move'.todo = Surplus(u) /\ move'.rows = move.rows
        /\ move'.listed = move.listed /\ move'.target = move.target
        /\ move'.ver = move.ver
    BY <1>1, <1>2 DEF Move
  <1> QED BY <1>1, <1>4, <1>5 DEF Copied, Surplus

(* An answer that is awaited is on its way from then on, and counts if it  *)
(* is a success.                                                           *)
LEMMA Hearing ==
    ASSUME move \in Move, NEW v, NEW n \in Nodes, NEW ok \in BOOLEAN,
           move' = Told(move, v, n, ok)
    PROVE  /\ move' \in Move
           /\ move'.pc = move.pc /\ move'.rows = move.rows
           /\ move'.listed = move.listed /\ move'.target = move.target
           /\ move'.ver = move.ver /\ move'.donor = move.donor
           /\ move'.todo = move.todo /\ move'.done = move.done
           /\ move'.wait = move.wait
           /\ IF move.wait = n /\ move.ver = v /\ move.reply = "none"
              THEN move'.reply # "none" ELSE move'.reply = move.reply
           /\ \/ Restored(move') \subseteq Restored(move)
              \/ /\ ok /\ move.wait = n /\ move.ver = v
                 /\ Restored(move') \subseteq Restored(move) \cup {n}
  <1> DEFINE awaited == move.wait = n /\ move.ver = v /\ move.reply = "none"
  <1>1. CASE ~ awaited
    BY <1>1 DEF Told
  <1>2. CASE awaited /\ ok
    <2>1. move' = [move EXCEPT !.reply = "ok"]
      BY <1>2 DEF Told
    <2> QED BY <1>2, <2>1 DEF Move, Replies, Restored
  <1>3. CASE awaited /\ ~ ok
    <2>1. move' = [move EXCEPT !.reply = "failed"]
      BY <1>3 DEF Told
    <2> QED BY <1>3, <2>1 DEF Move, Replies, Restored
  <1> QED BY <1>1, <1>2, <1>3

-----------------------------------------------------------------------------
(* The inductive invariant of the task, and with it the refinement.        *)

LEMMA InitMoveInv == MoveInit => MoveInv
  <1> SUFFICES ASSUME MoveInit PROVE MoveInv OBVIOUS
  <1>1. Consistent
    BY InitIInv DEF MoveInit, CopyInit, IInv
  <1>2. MoveTypeOK
    BY DEF MoveInit, CopyInit, MoveTypeOK, CopyTypeOK, Move, NoMove, Replies
  <1> QED
    BY <1>1, <1>2
    DEF MoveInit, CopyInit, MoveInv, CopiesOfDecided, MovesAreOfRows,
        AnswersAwaited, NoMove

(* Beside the write path, or when it restarts.                             *)
LEMMA WriteMoveInv ==
    ASSUME MoveInv, [Next]_vars, UNCHANGED <<copyVars, prunes>>,
           UNCHANGED move \/ Forgets
    PROVE  MoveInv'
  <1>0. /\ Consistent /\ CopyTypeOK /\ CopiesOfDecided /\ move \in Move
        /\ prunes \subseteq Prunes
    BY DEF MoveInv, MoveTypeOK
  <1>1. Consistent' /\ CopyTypeOK' /\ CopiesOfDecided'
    BY <1>0, NextConsistent, WriteCopies
  <1>2. \A v \in Versions : Decided(v) => Decided(v)'
    BY <1>0, DecidedStays
  <1>3. \A call \in prunes : call.ver \in Versions
    BY <1>0 DEF Prunes
  <1>4. CASE UNCHANGED move
    <2>1. move.rows \subseteq Versions
      BY <1>0 DEF Move
    <2> QED
      BY <1>0, <1>1, <1>2, <1>3, <1>4, <2>1
      DEF MoveInv, MoveTypeOK, MovesAreOfRows, AnswersAwaited
  <1>5. CASE Forgets
    <2>1. /\ move' \in Move /\ move'.pc = "idle" /\ move'.rows = {}
          /\ move'.reply = "none"
      BY <1>0, <1>5, Forgotten
    <2> QED
      BY <1>0, <1>1, <1>2, <1>3, <2>1
      DEF MoveInv, MoveTypeOK, MovesAreOfRows, AnswersAwaited
  <1> QED BY <1>4, <1>5

LEMMA OwnMoveInv ==
    ASSUME MoveInv, Goes \/ Begins \/ MigrateStoreError
    PROVE  MoveInv'
  <1>0. /\ Consistent /\ TypeOK /\ move \in Move /\ AnswersAwaited
    BY DEF MoveInv, MoveTypeOK, Consistent
  <1>1. UNCHANGED <<vars, copyVars, prunes>>
    BY OwnFrame
  <1>2. Consistent'
    BY <1>0, <1>1, NextConsistent
  <1>3. \A v : Decided(v) <=> Decided(v)'
    BY <1>1 DEF Decided, vars
  <1>4. CopyTypeOK' /\ CopiesOfDecided' /\ prunes' \subseteq Prunes
    BY <1>1 DEF MoveInv, MoveTypeOK, CopyTypeOK, CopiesOfDecided, Decided,
                vars, copyVars
  <1>5. /\ move' \in Move
        /\ \A v \in move'.rows : Decided(v)
        /\ move'.pc \in {"copy", "prune"} =>
               move'.ver \in Versions /\ Decided(move'.ver)
        /\ move'.pc = "copy" => move'.donor \in Nodes
        /\ AnswersAwaited'
    <2>1. CASE Goes
      BY <1>0, <2>1, GoesOn
      DEF MoveInv, MovesAreOfRows, AnswersAwaited, SameCall, CallOver
    <2>2. CASE MigrateStoreError
      BY <1>0, <2>2, Forgotten
      DEF MigrateStoreError, MoveTo, Forgets, AnswersAwaited
    <2>3. ASSUME NEW ring \in Rings, NEW healthy \in SUBSET ring,
                 RebalanceStart(healthy)
          PROVE  /\ move' \in Move /\ move'.pc = "next"
                 /\ \A v \in move'.rows : Decided(v)
                 /\ AnswersAwaited'
      BY <1>0, <2>3, Planning DEF AnswersAwaited
    <2>4. ASSUME NEW v \in Versions, NEW n \in Nodes, MigrateStart(v, n)
          PROVE  /\ move' \in Move
                 /\ \A u \in move'.rows : Decided(u)
                 /\ move'.ver \in Versions /\ Decided(move'.ver)
                 /\ move'.donor \in Nodes /\ AnswersAwaited'
      BY <1>0, <2>4, Visiting DEF MoveInv, MovesAreOfRows, AnswersAwaited
    <2> QED BY <2>1, <2>2, <2>3, <2>4 DEF Begins
  <1> QED
    BY <1>1, <1>2, <1>3, <1>4, <1>5 DEF MoveInv, MoveTypeOK, MovesAreOfRows

LEMMA SendMoveInv ==
    ASSUME MoveInv, NEW n \in Nodes, MoveSend(n) \/ PruneSend(n)
    PROVE  MoveInv'
  <1>0. /\ Consistent /\ CopyTypeOK /\ CopiesOfDecided /\ move \in Move
        /\ prunes \subseteq Prunes
    BY DEF MoveInv, MoveTypeOK
  <1>1. /\ move.ver \in Versions /\ Decided(move.ver)
        /\ move.pc = "copy" => move.donor \in Nodes
        /\ \A v \in move.rows : Decided(v)
        /\ \A call \in prunes : Decided(call.ver)
    BY DEF MoveInv, MovesAreOfRows, MoveSend, PruneSend
  <1>2. UNCHANGED <<vars, copies>>
    BY DEF MoveSend, PruneSend, copyVars
  <1>3. Consistent' /\ \A v : Decided(v) <=> Decided(v)'
    BY <1>0, <1>2, NextConsistent DEF Decided, vars
  <1>4. /\ move' \in Move
        /\ move'.pc = move.pc /\ move'.rows = move.rows
        /\ move'.ver = move.ver /\ move'.donor = move.donor
        /\ AnswersAwaited'
    BY <1>0, Sending, NoNodeAssumption DEF AnswersAwaited
  <1>5. CASE MoveSend(n)
    <2> DEFINE req == Request(RebalanceTask, move.ver, move.donor, n)
    <2>1. /\ move.donor \in Nodes /\ requests' = requests \cup {req}
          /\ UNCHANGED prunes
      BY <1>1, <1>5 DEF MoveSend
    <2>2. req \in Requests /\ req.ver = move.ver
      BY <1>1, <2>1, RequestTyped, RebalanceAssumption DEF Request
    <2> HIDE DEF req
    <2>3. CopyTypeOK' /\ CopiesOfDecided'
      BY <1>0, <1>1, <1>2, <1>3, <2>1, <2>2 DEF CopyTypeOK, CopiesOfDecided
    <2> QED
      BY <1>0, <1>1, <1>3, <1>4, <2>1, <2>3
      DEF MoveInv, MoveTypeOK, MovesAreOfRows
  <1>6. CASE PruneSend(n)
    <2>1. UNCHANGED copyVars /\ prunes' = prunes \cup {[ver |-> move.ver,
                                                        node |-> n]}
      BY <1>6 DEF PruneSend
    <2>2. prunes' \subseteq Prunes /\ \A call \in prunes' : Decided(call.ver)
      BY <1>0, <1>1, <2>1 DEF Prunes
    <2>3. CopyTypeOK' /\ CopiesOfDecided'
      BY <1>0, <1>3, <2>1 DEF CopyTypeOK, CopiesOfDecided, copyVars
    <2> QED
      BY <1>0, <1>1, <1>3, <1>4, <2>2, <2>3
      DEF MoveInv, MoveTypeOK, MovesAreOfRows
  <1> QED BY <1>5, <1>6

(* The list of a readable version changes, and of no other.                *)
LEMMA CommitMoveInv ==
    ASSUME MoveInv, MigrateCommit
    PROVE  MoveInv'
  <1>0. /\ Consistent /\ TypeOK /\ CopyTypeOK /\ CopiesOfDecided
        /\ move \in Move /\ prunes \subseteq Prunes
    BY DEF MoveInv, MoveTypeOK, Consistent
  <1>1. move.ver \in Versions /\ Decided(move.ver)
    BY DEF MoveInv, MovesAreOfRows, MigrateCommit, Copied
  <1>2. /\ move' \in Move /\ move'.pc = "prune"
        /\ move'.rows = move.rows /\ move'.ver = move.ver
        /\ move'.reply = move.reply /\ move.wait = NoNode
        /\ objects' \in [Versions -> Row]
        /\ objects'[move.ver].state = objects[move.ver].state
        /\ objects'[move.ver].latest = objects[move.ver].latest
        /\ \A v \in Versions \ {move.ver} : objects'[v] = objects[v]
        /\ UNCHANGED <<disk, rotted, wire, put, del, cleanup, queue, crashes,
                       copyVars, prunes>>
    BY <1>0, <1>1, Committing
  <1>3. TypeOK'
    BY <1>0, <1>2 DEF TypeOK
  <1>4. \A v \in Versions : /\ objects'[v].state = objects[v].state
                            /\ objects'[v].latest = objects[v].latest
    BY <1>2
  <1>5. put[move.ver].pc # "uploading"
    BY <1>0, <1>1 DEF Decided, Consistent, RowsFollowPuts
  <1>6. \A v \in Versions : put[v].pc = "uploading" =>
            /\ objects'[v].replicas = objects[v].replicas
            /\ \A n \in Nodes : Held(n, v) => Held(n, v)'
    BY <1>2, <1>5 DEF Held, Intact, HasFile
  <1>7. Consistent'
    BY <1>0, <1>2, <1>3, <1>4, <1>6, BesideFrame
  <1>8. \A v \in Versions : Decided(v) => Decided(v)'
    BY <1>4 DEF Decided
  <1>9. /\ \A call \in requests \cup copies : call.ver \in Versions
        /\ \A call \in prunes : call.ver \in Versions
        /\ move.rows \subseteq Versions
    BY <1>0 DEF CopyTypeOK, Requests, Copies, Prunes, Move
  <1>10. CopyTypeOK' /\ CopiesOfDecided'
    BY <1>0, <1>2, <1>8, <1>9 DEF CopyTypeOK, CopiesOfDecided, copyVars
  <1>11. MovesAreOfRows' /\ AnswersAwaited'
    BY <1>1, <1>2, <1>8, <1>9 DEF MoveInv, MovesAreOfRows, AnswersAwaited
  <1> QED BY <1>0, <1>2, <1>7, <1>10, <1>11 DEF MoveInv, MoveTypeOK

(* The answers.                                                            *)
LEMMA HearMoveInv ==
    ASSUME MoveInv, Consistent', CopyTypeOK', CopiesOfDecided',
           UNCHANGED objects, prunes' \subseteq prunes,
           NEW v, NEW n \in Nodes, NEW ok \in BOOLEAN,
           UNCHANGED move \/ move' = Told(move, v, n, ok)
    PROVE  MoveInv'
  <1>1. /\ move' \in Move /\ move'.pc = move.pc /\ move'.ver = move.ver
        /\ move'.rows = move.rows /\ move'.donor = move.donor
        /\ AnswersAwaited'
    BY Hearing, NoNodeAssumption DEF MoveInv, MoveTypeOK, AnswersAwaited
  <1>2. MovesAreOfRows'
    BY <1>1 DEF MoveInv, MovesAreOfRows, Decided
  <1> QED BY <1>1, <1>2 DEF MoveInv, MoveTypeOK

LEMMA RequestMoveInv ==
    ASSUME MoveInv, NEW req \in requests, MoveRequest(req)
    PROVE  MoveInv'
  <1>0. Consistent /\ CopyTypeOK /\ CopiesOfDecided
    BY DEF MoveInv, MoveTypeOK
  <1>1. RequestAnswered(req) /\ UNCHANGED <<vars, prunes>>
    BY DEF MoveRequest, RequestAnswered, Replicate, ReplicateRefused
  <1>2. Consistent' /\ CopyTypeOK' /\ CopiesOfDecided'
    BY <1>0, <1>1, NextConsistent, RequestAnsweredTyped, RequestAnsweredDecided
    DEF Consistent
  <1>3. req.dst \in Nodes
    BY <1>0 DEF CopyTypeOK, Requests
  <1>4. UNCHANGED move \/ move' = Told(move, req.ver, req.dst, FALSE)
    BY DEF MoveRequest
  <1> QED BY <1>1, <1>2, <1>3, <1>4, HearMoveInv DEF vars

LEMMA CopyMoveInv ==
    ASSUME MoveInv, NEW copy \in copies, MoveCopy(copy)
    PROVE  MoveInv'
  <1>0. Consistent /\ CopyTypeOK /\ CopiesOfDecided
    BY DEF MoveInv, MoveTypeOK
  <1>1. (CopyPut(copy) \/ CopyFailed(copy)) /\ UNCHANGED prunes
    BY DEF MoveCopy
  <1>2. Consistent' /\ CopyTypeOK' /\ CopiesOfDecided' /\ UNCHANGED objects
    BY <1>0, <1>1, CopyConsistent, CopyFrame
  <1>3. copy.dst \in Nodes
    BY <1>0 DEF CopyTypeOK, Copies
  <1>4. PICK ok \in BOOLEAN : move' = Told(move, copy.ver, copy.dst, ok)
    BY DEF MoveCopy, Accepts
  <1> QED BY <1>1, <1>2, <1>3, <1>4, HearMoveInv

(* What a DELETE of the rebalancer does.                                   *)
LEMMA PruneFacts ==
    ASSUME MoveInv, NEW call \in prunes, NodePrune(call) \/ PruneRefused(call)
    PROVE  /\ call.ver \in Versions /\ call.node \in Nodes
           /\ Decided(call.ver)
           /\ prunes' = prunes \ {call}
           /\ UNCHANGED <<objects, rotted, wire, put, del, cleanup, queue,
                          crashes, copyVars>>
           /\ disk' \in [Nodes -> [Versions -> File]]
           /\ \A n \in Nodes, v \in Versions :
                 \/ disk'[n][v] = disk[n][v]
                 \/ n = call.node /\ v = call.ver /\ disk'[n][v] = Nothing
           /\ move' = Told(move, call.ver, call.node, FALSE)
  <1>1. /\ call.ver \in Versions /\ call.node \in Nodes /\ Decided(call.ver)
    BY DEF MoveInv, MoveTypeOK, MovesAreOfRows, Prunes
  <1>2. disk \in [Nodes -> [Versions -> File]]
    BY DEF MoveInv, Consistent, TypeOK
  <1>3. CASE NodePrune(call)
    <2>1. \/ disk' = [disk EXCEPT ![call.node][call.ver] = Nothing]
          \/ disk' = disk
      BY <1>3 DEF NodePrune, RemoveBlob
    <2>2. Nothing \in File
      BY DEF Nothing, File, Bytes
    <2>3. /\ disk' \in [Nodes -> [Versions -> File]]
          /\ \A n \in Nodes, v \in Versions :
                \/ disk'[n][v] = disk[n][v]
                \/ n = call.node /\ v = call.ver /\ disk'[n][v] = Nothing
      BY <1>1, <1>2, <2>1, <2>2
    <2> QED BY <1>1, <1>3, <2>3 DEF NodePrune
  <1>4. CASE PruneRefused(call)
    BY <1>1, <1>2, <1>4 DEF PruneRefused, vars
  <1> QED BY <1>3, <1>4

LEMMA PruneMoveInv ==
    ASSUME MoveInv, NEW call \in prunes, NodePrune(call) \/ PruneRefused(call)
    PROVE  MoveInv'
  <1>0. /\ Consistent /\ TypeOK /\ CopyTypeOK /\ CopiesOfDecided
    BY DEF MoveInv, MoveTypeOK, Consistent
  <1>1. TypeOK'
    BY <1>0, PruneFacts DEF TypeOK
  <1>2. ASSUME NEW v \in Versions, put[v].pc = "uploading",
               NEW n \in Nodes, Held(n, v)
        PROVE  Held(n, v)'
    <2>1. v # call.ver
      BY <1>0, <1>2, PruneFacts DEF Decided, Consistent, RowsFollowPuts
    <2>2. disk'[n][v] = disk[n][v] /\ UNCHANGED rotted
      BY <2>1, PruneFacts
    <2> QED BY <1>2, <2>2 DEF Held, Intact, HasFile
  <1>3. Consistent'
    BY <1>0, <1>1, <1>2, PruneFacts, BesideFrame
  <1>4. CopyTypeOK' /\ CopiesOfDecided'
    BY <1>0, PruneFacts DEF CopyTypeOK, CopiesOfDecided, Decided, copyVars
  <1> QED BY <1>3, <1>4, PruneFacts, HearMoveInv

LEMMA NextMoveInv == MoveInv /\ [MoveNext]_moveVars => MoveInv'
  <1> SUFFICES ASSUME MoveInv, [MoveNext]_moveVars PROVE MoveInv'
    OBVIOUS
  <1>1. CASE \/ UNCHANGED moveVars
             \/ WriteNext /\ UNCHANGED <<copyVars, move, prunes>>
    BY <1>1, WriteMoveInv DEF moveVars, Next
  <1>2. CASE MoveCrash
    BY <1>2, WriteMoveInv DEF MoveCrash, Forgets, Next
  <1>3. CASE Goes \/ Begins \/ MigrateStoreError
    BY <1>3, OwnMoveInv
  <1>4. ASSUME NEW n \in Nodes, MoveSend(n) \/ PruneSend(n) PROVE MoveInv'
    BY <1>4, SendMoveInv
  <1>5. CASE MigrateCommit
    BY <1>5, CommitMoveInv
  <1>6. CASE MoveAnswer
    BY <1>6, RequestMoveInv, CopyMoveInv, PruneMoveInv DEF MoveAnswer
  <1> QED
    BY <1>1, <1>2, <1>3, <1>4, <1>5, <1>6
    DEF MoveNext, MigrateStep, Goes, Begins

(* The tasks, the calls and the copies have the declared types, and what   *)
(* they migrate is or was readable.                                        *)
THEOREM MoveInvariance == RebalanceSpec => []MoveInv
  BY InitMoveInv, NextMoveInv, PTL DEF RebalanceSpec

(* Type correctness of the rebalancer.                                     *)
THEOREM MoveTyping == RebalanceSpec => []MoveTypeOK
  <1>1. MoveInv => MoveTypeOK
    BY DEF MoveInv
  <1> QED BY <1>1, MoveInvariance, PTL

LEMMA MoveRegisterStep ==
    MoveInv /\ MoveInv' /\ [MoveNext]_moveVars
        => [Register!Next]_(Register!vars)
  <1> SUFFICES ASSUME MoveInv, MoveInv', [MoveNext]_moveVars
               PROVE  [Register!Next]_(Register!vars)
    OBVIOUS
  <1>0. Consistent /\ Consistent'
    BY DEF MoveInv
  <1>1. CASE [Next]_vars
    BY <1>0, <1>1, RegisterStep
  <1>2. CASE UNCHANGED vars
    BY <1>1, <1>2
  <1>3. CASE WriteNext \/ MoveCrash
    BY <1>1, <1>3 DEF MoveCrash, Next
  <1>4. CASE Goes \/ Begins \/ MigrateStoreError
    BY <1>2, <1>4, OwnFrame
  <1>5. ASSUME NEW n \in Nodes, MoveSend(n) \/ PruneSend(n)
        PROVE  UNCHANGED vars
    BY <1>5 DEF MoveSend, PruneSend
  <1>6. CASE MigrateCommit
    <2>1. TypeOK /\ move \in Move /\ move.ver \in Versions
      BY <1>6
      DEF MoveInv, MoveTypeOK, Consistent, MovesAreOfRows, MigrateCommit, Copied
    <2>2. /\ UNCHANGED put
          /\ \A u \in Versions : /\ objects'[u].state = objects[u].state
                                 /\ objects'[u].latest = objects[u].latest
      BY <1>6, <2>1, Committing
    <2> QED BY <1>0, <2>2, RegisterStutter
  <1>7. ASSUME NEW req \in requests, MoveRequest(req) PROVE UNCHANGED vars
    BY <1>7 DEF MoveRequest, Replicate, ReplicateRefused
  <1>8. ASSUME NEW copy \in copies, MoveCopy(copy)
        PROVE  UNCHANGED Register!vars
    BY <1>0, <1>8, CopyStutters DEF MoveCopy
  <1>9. ASSUME NEW call \in prunes, NodePrune(call) \/ PruneRefused(call)
        PROVE  UNCHANGED Register!vars
    <2>1. UNCHANGED <<objects, put>>
      BY <1>9, PruneFacts
    <2> QED BY <1>0, <2>1, RegisterStutter
  <1> QED
    BY <1>2, <1>3, <1>4, <1>5, <1>6, <1>7, <1>8, <1>9
    DEF MoveNext, MigrateStep, MoveAnswer, Goes, Begins, moveVars

(* Migrations are invisible to the register that the engine implements:    *)
(* whatever becomes of the replicas, no version appears, disappears or     *)
(* gives way to another.                                                   *)
THEOREM MoveImplementation == RebalanceSpec => RegisterSpec
  <1>1. MoveInit => Register!Init
    BY RegisterInit DEF MoveInit, CopyInit
  <1> QED
    BY <1>1, MoveRegisterStep, MoveInvariance, PTL
    DEF RebalanceSpec, RegisterSpec, Register!Spec

-----------------------------------------------------------------------------
(* The list follows the copies, and the DELETEs follow the list.           *)

LEMMA FileStays ==
    ASSUME Consistent, [Next]_vars, NEW n \in Nodes, NEW v \in Versions,
           HasFile(disk, n, v), ~ Dead(v)
    PROVE  HasFile(disk', n, v)
  <1>1. \/ disk'[n][v] = disk[n][v]
        \/ FileUploaded(n, v)
        \/ FileRots(n, v)
    BY FileSteps DEF FileDeleted
  <1>2. ContentOf[v] # NoFile /\ Rot # NoFile
    BY ContentAssumption DEF Contents
  <1> QED BY <1>1, <1>2 DEF FileUploaded, FileRots, HasFile

LEMMA InitListed == MoveInit => ListedInv
  <1> SUFFICES ASSUME MoveInit PROVE ListedInv OBVIOUS
  <1>1. MoveInv
    BY InitMoveInv
  <1>2. \A v \in Versions : objects[v].state # "COMMITTED"
    BY DEF MoveInit, CopyInit, Init, EmptyCatalog, NoRow
  <1> QED
    BY <1>1, <1>2
    DEF MoveInit, CopyInit, ListedInv, PlansHold, Planned, PrunesAreUnlisted,
        CopiesArrive, CallsAwaited, ListedHaveBlob, NoMove, NoCopies

LEMMA WriteListedBlobs ==
    ASSUME Consistent, [Next]_vars, ListedHaveBlob, Consistent'
    PROVE  ListedHaveBlob'
  <1> SUFFICES ASSUME NEW v \in Versions,
                      objects'[v].state = "COMMITTED", put'[v].pc = "ok",
                      NEW n \in objects'[v].replicas
               PROVE  HasFile(disk', n, v)
    BY DEF ListedHaveBlob
  <1>1. n \in Nodes
    BY DEF Consistent, TypeOK, Row
  <1>2. CASE RowKept(v)
    <2>1. /\ objects[v].state = "COMMITTED"
          /\ objects'[v].replicas = objects[v].replicas
      BY <1>2, DecidedRow DEF RowKept, Decided
    <2>2. put[v].pc \notin {"idle", "uploading"}
      BY <2>1 DEF Consistent, RowsFollowPuts
    <2>3. put[v].pc = "ok" /\ ~ Dead(v)
      BY <1>2, <2>1, <2>2 DEF RowKept, Dead
    <2>4. HasFile(disk, n, v)
      BY <2>1, <2>3 DEF ListedHaveBlob
    <2> QED BY <1>1, <2>3, <2>4, FileStays
  <1>3. CASE RowCommits(v)
    <2>1. n \in put[v].acks /\ UNCHANGED disk
      BY <1>3 DEF RowCommits
    <2>2. Held(n, v)
      BY <2>1 DEF Consistent, AcksHold
    <2> QED
      BY <2>1, <2>2, ContentAssumption DEF Held, Intact, HasFile, Contents
  <1> QED BY <1>2, <1>3, RowSteps

LEMMA WriteListed ==
    ASSUME ListedInv, MoveInv', [Next]_vars, UNCHANGED <<copyVars, prunes>>,
           \/ UNCHANGED move
           \/ Forgets /\ (move.wait = NoNode \/ ~ Prompt)
    PROVE  ListedInv'
  <1>0. /\ Consistent /\ Consistent' /\ move \in Move
        /\ \A v \in move.rows : v \in Versions /\ Decided(v)
        /\ move.pc \in {"copy", "prune"} =>
               move.ver \in Versions /\ Decided(move.ver)
        /\ \A call \in prunes : call.ver \in Versions /\ Decided(call.ver)
        /\ Restored(move) \subseteq Nodes
    BY RestoredNodes
    DEF ListedInv, MoveInv, MoveTypeOK, MovesAreOfRows, Move, Prunes
  <1>1. ListedHaveBlob'
    BY <1>0, WriteListedBlobs DEF ListedInv
  <1>2. \A v \in Versions :
            Decided(v) => objects'[v].replicas = objects[v].replicas
    BY <1>0, DecidedRow
  <1>3. \A call \in prunes : call.node \notin objects'[call.ver].replicas
    BY <1>0, <1>2 DEF ListedInv, PrunesAreUnlisted
  <1>4. CASE UNCHANGED move
    <2>1. PlansHold' /\ PrunesAreUnlisted' /\ CallsAwaited'
      BY <1>0, <1>2, <1>3, <1>4
      DEF ListedInv, PlansHold, PrunesAreUnlisted, Planned, CallsAwaited,
          NoCopies, copyVars
    <2>2. CopiesArrive'
      <3> SUFFICES ASSUME move.pc = "copy"
                   PROVE  objects'[move.ver].state = "COMMITTED" =>
                              \A n \in Restored(move) :
                                  HasFile(disk', n, move.ver)
        BY <1>4 DEF ListedInv, CopiesArrive, Needed
      <3> SUFFICES ASSUME objects'[move.ver].state = "COMMITTED",
                          NEW n \in Restored(move)
                   PROVE  HasFile(disk', n, move.ver)
        OBVIOUS
      <3>1. PICK v \in Versions : v = move.ver /\ Decided(v)
        BY <1>0
      <3>2. objects[v].state = "COMMITTED"
        BY <1>0, <3>1, DecidedRow DEF Decided
      <3>3. HasFile(disk, n, v) /\ n \in Nodes /\ ~ Dead(v)
        BY <1>0, <3>1, <3>2 DEF ListedInv, CopiesArrive, Dead
      <3> QED BY <1>0, <3>1, <3>3, FileStays
    <2> QED BY <1>1, <2>1, <2>2 DEF ListedInv
  <1>5. CASE Forgets /\ (move.wait = NoNode \/ ~ Prompt)
    <2>1. /\ move'.pc = "idle" /\ move'.rows = {} /\ move'.wait = NoNode
      BY <1>0, <1>5, Forgotten
    <2>2. PlansHold' /\ PrunesAreUnlisted' /\ CopiesArrive'
      BY <1>3, <2>1 DEF PlansHold, PrunesAreUnlisted, Planned, CopiesArrive
    <2>3. CallsAwaited'
      BY <1>5, <2>1 DEF ListedInv, CallsAwaited, NoCopies, Prompt, copyVars
    <2> QED BY <1>1, <2>2, <2>3 DEF ListedInv
  <1> QED BY <1>4, <1>5

LEMMA GoesListed ==
    ASSUME ListedInv, MoveInv', Goes
    PROVE  ListedInv'
  <1>0. /\ move \in Move /\ AnswersAwaited
        /\ UNCHANGED <<vars, copyVars, prunes>>
    BY OwnFrame DEF ListedInv, MoveInv, MoveTypeOK
  <1>1. /\ move'.listed = move.listed /\ move'.target = move.target
        /\ move'.ver = move.ver
        /\ move'.rows \subseteq move.rows
        /\ move'.todo \subseteq move.todo
        /\ \/ move'.pc = move.pc
           \/ /\ move'.pc \in {"next", "idle"}
              /\ move.wait = NoNode \/ move.pc = "next"
        /\ SameCall \/ CallOver
        /\ move'.wait = move.wait \/ move'.wait = NoNode
        /\ Restored(move') \subseteq Restored(move)
    BY <1>0, GoesOn, CallGoesOn
  <1>2. PlansHold' /\ PrunesAreUnlisted'
    BY <1>0, <1>1
    DEF ListedInv, PlansHold, PrunesAreUnlisted, Planned, vars
  <1>3. CopiesArrive'
    <2> SUFFICES ASSUME move.pc = "copy", move'.pc = "copy"
                 PROVE  CopiesArrive'
      BY <1>1 DEF CopiesArrive
    <2>1. /\ move.todo \cup move.done \cup ({move.wait} \ {NoNode})
                 \subseteq Needed(move.ver)
          /\ objects[move.ver].state = "COMMITTED" =>
                 \A n \in Restored(move) : HasFile(disk, n, move.ver)
      BY DEF ListedInv, CopiesArrive
    <2>2. move'.done \subseteq Needed(move.ver)
      BY <1>0, <1>1, <2>1
      DEF SameCall, CallOver, Restored, AnswersAwaited
    <2> QED
      BY <1>0, <1>1, <2>1, <2>2 DEF CopiesArrive, Needed, HasFile, vars
  <1>4. CallsAwaited'
    <2>1. move.wait # NoNode => move.pc \in {"copy", "prune"}
      BY DEF ListedInv, CallsAwaited
    <2>2. move.wait # NoNode => move'.pc = move.pc
      BY <1>1, <2>1
    <2> QED
      BY <1>0, <1>1, <2>2
      DEF ListedInv, CallsAwaited, NoCopies, Prompt, SameCall, CallOver,
          copyVars
  <1>5. ListedHaveBlob'
    BY <1>0 DEF ListedInv, ListedHaveBlob, HasFile, vars
  <1> QED BY <1>2, <1>3, <1>4, <1>5 DEF ListedInv

LEMMA BeginsListed ==
    ASSUME ListedInv, MoveInv', Begins, ~ LateCalls \/ Prompt
    PROVE  ListedInv'
  <1>0. /\ TypeOK /\ move \in Move /\ UNCHANGED <<vars, copyVars, prunes>>
    BY OwnFrame DEF ListedInv, MoveInv, MoveTypeOK, Consistent
  <1>1. ListedHaveBlob'
    BY <1>0 DEF ListedInv, ListedHaveBlob, HasFile, vars
  <1>2. ASSUME NEW ring \in Rings, NEW healthy \in SUBSET ring,
               RebalanceStart(healthy)
        PROVE  ListedInv'
    <2>1. /\ move.pc = "idle" /\ move'.pc = "next" /\ move'.wait = NoNode
          /\ \A v \in move'.rows : v \in Versions
          /\ move'.listed = [v \in Versions |-> objects[v].replicas]
          /\ LateCalls \/ prunes = {}
      BY <1>0, <1>2, Planning
    <2>2. /\ prunes = {} /\ move.wait = NoNode
      BY <2>1 DEF ListedInv, CallsAwaited
    <2>3. PlansHold' /\ PrunesAreUnlisted' /\ CopiesArrive'
      BY <1>0, <2>1, <2>2
      DEF PlansHold, PrunesAreUnlisted, CopiesArrive, Planned, vars
    <2>4. CallsAwaited'
      BY <1>0, <2>1, <2>2
      DEF ListedInv, CallsAwaited, NoCopies, Prompt, copyVars
    <2> QED BY <1>1, <2>3, <2>4 DEF ListedInv
  <1>3. ASSUME NEW v \in Versions, NEW n \in Nodes, MigrateStart(v, n)
        PROVE  ListedInv'
    <2>1. /\ move.pc = "next" /\ v \in move.rows /\ move'.pc = "copy"
          /\ move'.ver = v /\ move'.rows = move.rows \ {v}
          /\ move'.listed = move.listed /\ move'.target = move.target
          /\ move'.todo = move.target[v] \ move.listed[v]
          /\ move'.done = {} /\ move'.wait = move.wait
          /\ move'.reply = move.reply
      BY <1>0, <1>3, Visiting
    <2>2. move.wait = NoNode /\ move.reply = "none"
      BY <2>1 DEF ListedInv, CallsAwaited, MoveInv, AnswersAwaited
    <2>3. PlansHold' /\ PrunesAreUnlisted'
      BY <1>0, <2>1
      DEF ListedInv, PlansHold, PrunesAreUnlisted, Planned, vars
    <2>4. CopiesArrive'
      BY <2>1, <2>2 DEF CopiesArrive, Needed, Restored
    <2>5. CallsAwaited'
      BY <1>0, <2>1, <2>2
      DEF ListedInv, CallsAwaited, NoCopies, Prompt, copyVars
    <2> QED BY <1>1, <2>3, <2>4, <2>5 DEF ListedInv
  <1> QED BY <1>2, <1>3 DEF Begins

LEMMA SendListed ==
    ASSUME ListedInv, MoveInv', NEW n \in Nodes, MoveSend(n) \/ PruneSend(n)
    PROVE  ListedInv'
  <1>0. /\ move \in Move /\ UNCHANGED <<vars, copies>>
    BY DEF ListedInv, MoveInv, MoveTypeOK, MoveSend, PruneSend, copyVars
  <1>1. /\ move.wait = NoNode /\ n \in move.todo /\ move'.wait = n
        /\ move'.todo = move.todo \ {n}
        /\ move'.pc = move.pc /\ move'.rows = move.rows
        /\ move'.listed = move.listed /\ move'.target = move.target
        /\ move'.ver = move.ver /\ move'.done = move.done
        /\ move'.reply = "none" /\ Restored(move') = Restored(move)
    BY <1>0, Sending DEF ListedInv, MoveInv, AnswersAwaited, Restored
  <1>2. n # NoNode
    BY NoNodeAssumption
  <1>3. ListedHaveBlob' /\ PlansHold'
    BY <1>0, <1>1
    DEF ListedInv, ListedHaveBlob, PlansHold, Planned, HasFile, vars
  <1>4. CopiesArrive'
    BY <1>0, <1>1 DEF ListedInv, CopiesArrive, Needed, HasFile, vars
  <1>5. CASE MoveSend(n)
    <2> DEFINE req == Request(RebalanceTask, move.ver, move.donor, n)
    <2>1. /\ move.pc = "copy" /\ UNCHANGED prunes
          /\ requests' = requests \cup {req}
          /\ req.ver = move.ver /\ req.dst = n
      BY <1>5 DEF MoveSend, Request
    <2> HIDE DEF req
    <2>2. PrunesAreUnlisted'
      BY <1>0, <1>1, <2>1 DEF ListedInv, PrunesAreUnlisted, Planned, vars
    <2>3. CallsAwaited'
      BY <1>0, <1>1, <1>2, <2>1
      DEF ListedInv, CallsAwaited, NoCopies, Prompt
    <2> QED BY <1>3, <1>4, <2>2, <2>3 DEF ListedInv
  <1>6. CASE PruneSend(n)
    <2> DEFINE call == [ver |-> move.ver, node |-> n]
    <2>1. /\ move.pc = "prune" /\ UNCHANGED copyVars
          /\ prunes' = prunes \cup {call}
          /\ call.ver = move.ver /\ call.node = n
      BY <1>6 DEF PruneSend
    <2> HIDE DEF call
    <2>2. PrunesAreUnlisted'
      BY <1>0, <1>1, <2>1
      DEF ListedInv, PrunesAreUnlisted, PlansHold, Planned, vars
    <2>3. CallsAwaited'
      BY <1>0, <1>1, <1>2, <2>1
      DEF ListedInv, CallsAwaited, NoCopies, Prompt, copyVars
    <2> QED BY <1>3, <1>4, <2>2, <2>3 DEF ListedInv
  <1> QED BY <1>5, <1>6

(* The new list: what was listed, without the surplus, and what arrived.   *)
LEMMA CommitListed ==
    ASSUME ListedInv, MoveInv', MigrateCommit
    PROVE  ListedInv'
  <1> DEFINE u == move.ver
  <1>0. /\ TypeOK /\ move \in Move /\ u \in Versions
        /\ \A v \in move.rows : v \in Versions
        /\ \A call \in prunes : call.ver \in Versions
    BY DEF ListedInv, MoveInv, MoveTypeOK, Consistent, MovesAreOfRows,
           MigrateCommit, Copied, Move, Prunes
  <1>1. /\ move.pc = "copy" /\ move.wait = NoNode
        /\ move'.pc = "prune" /\ move'.wait = NoNode
        /\ move'.todo = move.listed[u] \ move.target[u]
        /\ move'.rows = move.rows /\ move'.listed = move.listed
        /\ move'.ver = u
        /\ objects'[u].replicas = (move.listed[u] \cup move.done)
                                      \ (move.listed[u] \ move.target[u])
        /\ objects'[u].state = objects[u].state
        /\ \A v \in Versions \ {u} : objects'[v] = objects[v]
        /\ UNCHANGED <<disk, put, copyVars, prunes>>
    BY <1>0, Committing
  <1>2. u \notin move.rows /\ move.listed[u] = objects[u].replicas
    BY <1>1 DEF ListedInv, PlansHold, Planned
  <1>3. \A call \in prunes : call.ver # u
    BY <1>1 DEF ListedInv, PrunesAreUnlisted, Planned
  <1>4. PlansHold'
    BY <1>0, <1>1, <1>2 DEF ListedInv, PlansHold, Planned
  <1>5. PrunesAreUnlisted'
    BY <1>0, <1>1, <1>2, <1>3 DEF ListedInv, PrunesAreUnlisted, Planned
  <1>6. CopiesArrive'
    BY <1>1 DEF CopiesArrive
  <1>7. CallsAwaited'
    BY <1>1 DEF ListedInv, CallsAwaited, NoCopies, Prompt, copyVars
  <1>8. ListedHaveBlob'
    <2> SUFFICES ASSUME NEW v \in Versions, objects'[v].state = "COMMITTED",
                        put[v].pc = "ok", NEW n \in objects'[v].replicas
                 PROVE  HasFile(disk, n, v)
      BY <1>1 DEF ListedHaveBlob, HasFile
    <2>1. CASE v = u
      <3>1. n \in objects[u].replicas \/ n \in move.done
        BY <1>1, <1>2, <2>1
      <3>2. \A m \in move.done : HasFile(disk, m, u)
        BY <1>1, <2>1 DEF ListedInv, CopiesArrive, Restored
      <3>3. \A m \in objects[u].replicas : HasFile(disk, m, u)
        BY <1>0, <1>1, <2>1 DEF ListedInv, ListedHaveBlob
      <3> QED BY <2>1, <3>1, <3>2, <3>3
    <2>2. CASE v # u
      BY <1>1, <2>2 DEF ListedInv, ListedHaveBlob
    <2> QED BY <2>1, <2>2
  <1> QED BY <1>4, <1>5, <1>6, <1>7, <1>8 DEF ListedInv

(* What any answer leaves alone.                                           *)
Heard ==
    /\ move'.pc = move.pc /\ move'.rows = move.rows
    /\ move'.listed = move.listed /\ move'.target = move.target
    /\ move'.ver = move.ver /\ move'.todo = move.todo
    /\ move'.done = move.done /\ move'.wait = move.wait

LEMMA HearListed ==
    ASSUME ListedInv, Heard, UNCHANGED objects, prunes' \subseteq prunes
    PROVE  PlansHold' /\ PrunesAreUnlisted'
  BY DEF ListedInv, PlansHold, PrunesAreUnlisted, Planned, Heard

LEMMA RequestListed ==
    ASSUME ListedInv, MoveInv', NEW req \in requests, MoveRequest(req)
    PROVE  ListedInv'
  <1>0. /\ move \in Move /\ UNCHANGED <<vars, prunes>>
        /\ requests' = requests \ {req} /\ req.dst \in Nodes
    BY DEF ListedInv, MoveInv, MoveTypeOK, CopyTypeOK, Requests, MoveRequest,
           Replicate, ReplicateRefused
  <1> DEFINE copy == CopyOf(req)
  <1>1. copy.ver = req.ver /\ copy.dst = req.dst
    BY DEF CopyOf
  <1> HIDE DEF copy
  <1>2. \/ move' = move /\ copies' = copies \cup {copy}
        \/ move' = Told(move, req.ver, req.dst, FALSE) /\ copies' = copies
    BY DEF MoveRequest, Replicate, ReplicateRefused, copy
  <1>3. /\ Heard /\ Restored(move') \subseteq Restored(move)
        /\ \/ move'.reply = move.reply /\ copies' = copies \cup {copy}
           \/ /\ copies' = copies
              /\ IF /\ move.wait = req.dst /\ move.ver = req.ver
                    /\ move.reply = "none"
                 THEN move'.reply # "none" ELSE move'.reply = move.reply
    <2>1. CASE move' = move /\ copies' = copies \cup {copy}
      BY <2>1 DEF Heard
    <2>2. CASE /\ move' = Told(move, req.ver, req.dst, FALSE)
               /\ copies' = copies
      BY <1>0, <2>2, Hearing DEF Heard
    <2> QED BY <1>2, <2>1, <2>2
  <1>4. PlansHold' /\ PrunesAreUnlisted'
    BY <1>0, <1>3, HearListed DEF vars
  <1>5. CopiesArrive' /\ ListedHaveBlob'
    BY <1>0, <1>3
    DEF ListedInv, CopiesArrive, ListedHaveBlob, Needed, HasFile, Heard, vars
  <1>6. CallsAwaited'
    <2>1. move'.wait # NoNode => move'.pc \in {"copy", "prune"}
      BY <1>3 DEF ListedInv, CallsAwaited, Heard
    <2>2. ASSUME Prompt
          PROVE  \/ /\ NoCopies' /\ prunes' = {}
                    /\ move'.wait = NoNode \/ move'.reply # "none"
                 \/ \E call \in requests' \cup copies' :
                       /\ move'.pc = "copy"
                       /\ move'.wait # NoNode /\ move'.reply = "none"
                       /\ call.ver = move'.ver /\ call.dst = move'.wait
                       /\ \/ requests' = {call} /\ copies' = {}
                          \/ requests' = {} /\ copies' = {call}
                       /\ prunes' = {}
      <3>1. /\ requests = {req} /\ copies = {} /\ prunes = {}
            /\ move.pc = "copy"
            /\ move.wait # NoNode /\ move.reply = "none"
            /\ req.ver = move.ver /\ req.dst = move.wait
        BY <2>2 DEF ListedInv, CallsAwaited, NoCopies
      <3>2. CASE move'.reply = move.reply /\ copies' = copies \cup {copy}
        <4>1. requests' = {} /\ copies' = {copy}
          BY <1>0, <3>1, <3>2
        <4> QED BY <1>0, <1>1, <1>3, <3>1, <3>2, <4>1 DEF Heard
      <3>3. CASE copies' = copies /\ move'.reply # "none"
        BY <1>0, <3>1, <3>3 DEF NoCopies
      <3> QED BY <1>3, <3>1, <3>2, <3>3
    <2> QED BY <2>1, <2>2 DEF CallsAwaited, Prompt
  <1> QED BY <1>4, <1>5, <1>6 DEF ListedInv

LEMMA CopyListed ==
    ASSUME ListedInv, MoveInv', NEW copy \in copies, MoveCopy(copy)
    PROVE  ListedInv'
  <1>0. /\ TypeOK /\ CopyTypeOK /\ move \in Move
        /\ copy.ver \in Versions /\ copy.dst \in Nodes /\ copy.data \in Bytes
    BY DEF ListedInv, MoveInv, MoveTypeOK, Consistent, CopyTypeOK, Copies
  <1>1. CopyPut(copy) \/ CopyFailed(copy)
    BY DEF MoveCopy
  <1>2. /\ copies' = copies \ {copy}
        /\ UNCHANGED <<objects, put, requests, prunes>>
    BY <1>1, CopyFrame DEF MoveCopy
  <1>3. PICK ok \in BOOLEAN :
            /\ move' = Told(move, copy.ver, copy.dst, ok)
            /\ ok => CopyPut(copy) /\ Accepts(copy.data, copy.sum)
    BY DEF MoveCopy, Accepts
  <1>4. /\ Heard
        /\ IF /\ move.wait = copy.dst /\ move.ver = copy.ver
              /\ move.reply = "none"
           THEN move'.reply # "none" ELSE move'.reply = move.reply
        /\ \/ Restored(move') \subseteq Restored(move)
           \/ /\ ok /\ move.ver = copy.ver
              /\ Restored(move') \subseteq Restored(move) \cup {copy.dst}
    BY <1>0, <1>3, Hearing DEF Heard
  <1>5. PlansHold' /\ PrunesAreUnlisted'
    BY <1>2, <1>4, HearListed
  <1>6. \A n \in Nodes, v \in Versions :
            HasFile(disk, n, v) => HasFile(disk', n, v)
    BY <1>0, <1>1, CopyLeavesFiles
  <1>7. ok => HasFile(disk', copy.dst, copy.ver)
    <2>1. copy.data # NoFile
      BY <1>0, ContentAssumption DEF Bytes
    <2> QED
      BY <1>0, <1>3, <2>1 DEF CopyPut, WriteBlob, HasFile, TypeOK
  <1>8. ListedHaveBlob'
    BY <1>0, <1>2, <1>6 DEF ListedInv, ListedHaveBlob, TypeOK, Row
  <1>9. CopiesArrive'
    <2> SUFFICES ASSUME move.pc = "copy" PROVE CopiesArrive'
      BY <1>4 DEF CopiesArrive, Heard
    <2>1. move.ver \in Versions /\ Restored(move) \subseteq Nodes
      BY <1>0, RestoredNodes DEF ListedInv, MoveInv, MovesAreOfRows
    <2>2. /\ move.todo \cup move.done \cup ({move.wait} \ {NoNode})
                 \subseteq Needed(move.ver)
          /\ objects[move.ver].state = "COMMITTED" =>
                 \A n \in Restored(move) : HasFile(disk, n, move.ver)
      BY DEF ListedInv, CopiesArrive
    <2>3. objects[move.ver].state = "COMMITTED" =>
              \A n \in Restored(move') : HasFile(disk', n, move.ver)
      BY <1>4, <1>6, <1>7, <2>1, <2>2
    <2> QED BY <1>2, <1>4, <2>2, <2>3 DEF CopiesArrive, Needed, Heard
  <1>10. CallsAwaited'
    <2>1. move'.wait # NoNode => move'.pc \in {"copy", "prune"}
      BY <1>4 DEF ListedInv, CallsAwaited, Heard
    <2>2. ASSUME Prompt
          PROVE  move'.reply # "none" /\ NoCopies' /\ prunes' = {}
      <3>1. /\ requests = {} /\ copies = {copy} /\ prunes = {}
            /\ copy.ver = move.ver /\ copy.dst = move.wait
            /\ move.reply = "none"
        BY <2>2 DEF ListedInv, CallsAwaited, NoCopies
      <3> QED BY <1>2, <1>4, <3>1 DEF NoCopies
    <2> QED BY <2>1, <2>2 DEF CallsAwaited, Prompt
  <1> QED BY <1>5, <1>8, <1>9, <1>10 DEF ListedInv

LEMMA PruneListed ==
    ASSUME ListedInv, MoveInv', NEW call \in prunes,
           NodePrune(call) \/ PruneRefused(call)
    PROVE  ListedInv'
  <1>0. /\ MoveInv /\ move \in Move /\ TypeOK
    BY DEF ListedInv, MoveInv, MoveTypeOK, Consistent
  <1>1. /\ call.node \in Nodes /\ prunes' = prunes \ {call}
        /\ UNCHANGED <<objects, put, copyVars>>
        /\ \A n \in Nodes, v \in Versions :
              disk'[n][v] = disk[n][v] \/ (n = call.node /\ v = call.ver)
        /\ move' = Told(move, call.ver, call.node, FALSE)
    BY <1>0, PruneFacts
  <1>2. /\ Heard /\ Restored(move') \subseteq Restored(move)
        /\ IF /\ move.wait = call.node /\ move.ver = call.ver
              /\ move.reply = "none"
           THEN move'.reply # "none" ELSE move'.reply = move.reply
    BY <1>0, <1>1, Hearing DEF Heard
  <1>3. PlansHold' /\ PrunesAreUnlisted'
    BY <1>1, <1>2, HearListed
  <1>4. /\ call.ver \notin Planned
        /\ call.node \notin objects[call.ver].replicas
    BY DEF ListedInv, PrunesAreUnlisted
  <1>5. ListedHaveBlob'
    <2>1. \A v \in Versions : objects[v].replicas \subseteq Nodes
      BY <1>0 DEF TypeOK, Row
    <2>2. \A v \in Versions : \A n \in objects[v].replicas :
              disk'[n][v] = disk[n][v]
      BY <1>1, <1>4, <2>1
    <2> QED BY <1>1, <2>2 DEF ListedInv, ListedHaveBlob, HasFile
  <1>6. CopiesArrive'
    <2> SUFFICES ASSUME move.pc = "copy" PROVE CopiesArrive'
      BY <1>2 DEF CopiesArrive, Heard
    <2>1. /\ move.ver \in Versions /\ Restored(move) \subseteq Nodes
          /\ move.ver # call.ver
      BY <1>0, <1>4, RestoredNodes DEF MoveInv, MovesAreOfRows, Planned
    <2>2. \A n \in Restored(move) : disk'[n][move.ver] = disk[n][move.ver]
      BY <1>1, <2>1
    <2>3. /\ move.todo \cup move.done \cup ({move.wait} \ {NoNode})
                 \subseteq Needed(move.ver)
          /\ objects[move.ver].state = "COMMITTED" =>
                 \A n \in Restored(move) : HasFile(disk, n, move.ver)
      BY DEF ListedInv, CopiesArrive
    <2>4. objects[move.ver].state = "COMMITTED" =>
              \A n \in Restored(move') : HasFile(disk', n, move.ver)
      BY <1>2, <2>2, <2>3 DEF HasFile
    <2> QED BY <1>1, <1>2, <2>3, <2>4 DEF CopiesArrive, Needed, Heard
  <1>7. CallsAwaited'
    <2>1. move'.wait # NoNode => move'.pc \in {"copy", "prune"}
      BY <1>2 DEF ListedInv, CallsAwaited, Heard
    <2>2. ASSUME Prompt
          PROVE  move'.reply # "none" /\ NoCopies' /\ prunes' = {}
      <3>1. /\ NoCopies /\ prunes = {call}
            /\ call.ver = move.ver /\ call.node = move.wait
            /\ move.reply = "none"
        BY <2>2 DEF ListedInv, CallsAwaited, NoCopies
      <3> QED BY <1>1, <1>2, <3>1 DEF NoCopies, copyVars
    <2> QED BY <2>1, <2>2 DEF CallsAwaited, Prompt
  <1> QED BY <1>3, <1>5, <1>6, <1>7 DEF ListedInv

LEMMA NextListed ==
    ASSUME ListedInv, [MoveNext]_moveVars, ~ LateCalls \/ Prompt
    PROVE  ListedInv'
  <1>0. MoveInv'
    BY NextMoveInv DEF ListedInv
  <1>1. CASE UNCHANGED moveVars
    BY <1>0, <1>1, WriteListed DEF moveVars
  <1>2. CASE WriteNext /\ UNCHANGED <<copyVars, move, prunes>>
    BY <1>0, <1>2, WriteListed DEF Next
  <1>3. CASE MoveCrash
    <2>1. ~ Prompt
      BY <1>3
      DEF MoveCrash, Crash, Prompt, ListedInv, MoveInv, Consistent, TypeOK
    <2> QED BY <1>0, <1>3, <2>1, WriteListed DEF MoveCrash, Forgets, Next
  <1>4. CASE MigrateStoreError
    <2>1. /\ UNCHANGED vars /\ UNCHANGED <<copyVars, prunes>>
          /\ Forgets /\ move.wait = NoNode
      BY <1>4 DEF MigrateStoreError, MoveTo, Copied, Forgets
    <2> QED BY <1>0, <2>1, WriteListed
  <1>5. CASE Goes \/ Begins
    BY <1>0, <1>5, GoesListed, BeginsListed
  <1>6. ASSUME NEW n \in Nodes, MoveSend(n) \/ PruneSend(n) PROVE ListedInv'
    BY <1>0, <1>6, SendListed
  <1>7. CASE MigrateCommit
    BY <1>0, <1>7, CommitListed
  <1>8. CASE MoveAnswer
    BY <1>0, <1>8, RequestListed, CopyListed, PruneListed DEF MoveAnswer
  <1> QED
    BY <1>1, <1>2, <1>3, <1>4, <1>5, <1>6, <1>7, <1>8
    DEF MoveNext, MigrateStep, Goes, Begins

(* A readable version whose put was answered 201 lists no node that lacks  *)
(* its blob, however copies fail, updates of the list raise and puts and   *)
(* deletions come in between: as long as no call outlasts the run that     *)
(* made it, by assumption or because every call is waited for.             *)
THEOREM ListedArrived ==
    ASSUME ~ LateCalls \/ Prompt
    PROVE  RebalanceSpec => []ListedHaveBlob
  <1>1. ListedInv /\ [MoveNext]_moveVars => ListedInv'
    BY NextListed
  <1>2. ListedInv => ListedHaveBlob
    BY DEF ListedInv
  <1> QED BY <1>1, <1>2, InitListed, PTL DEF RebalanceSpec

-----------------------------------------------------------------------------
(* A migration does not lose the last replica.                             *)

LEMMA InitHeld == MoveInit => HeldInv
  <1> SUFFICES ASSUME MoveInit PROVE HeldInv OBVIOUS
  <1>1. ListedInv /\ Digested
    BY InitListed, InitDigested DEF MoveInit, CopyInit
  <1>2. \A v \in Versions : objects[v].state # "COMMITTED"
    BY DEF MoveInit, CopyInit, Init, EmptyCatalog, NoRow
  <1> QED BY <1>1, <1>2 DEF MoveInit, HeldInv, DoneHeld, SomeReplicaHeld, NoMove

(* The engine lists the nodes that acknowledged, and W >= 1 of them did.   *)
LEMMA WriteSomeHeld ==
    ASSUME Consistent, [Next]_vars, SomeReplicaHeld
    PROVE  SomeReplicaHeld'
  <1> SUFFICES ASSUME NEW v \in Versions, objects'[v].state = "COMMITTED"
               PROVE  \E n \in objects'[v].replicas : Held(n, v)'
    BY DEF SomeReplicaHeld
  <1>1. CASE RowKept(v)
    <2>1. /\ objects[v].state = "COMMITTED" /\ ~ Dead(v)
          /\ objects'[v].replicas = objects[v].replicas
      BY <1>1, DecidedRow DEF RowKept, Decided, Dead
    <2>2. PICK n \in objects[v].replicas : Held(n, v)
      BY <2>1 DEF SomeReplicaHeld
    <2>3. n \in Nodes
      BY DEF Consistent, TypeOK, Row
    <2> QED BY <2>1, <2>2, <2>3, HeldKept
  <1>2. CASE RowCommits(v)
    <2>1. PICK n : n \in put[v].acks
      <3>1. put[v].acks # {}
        <4> SUFFICES ASSUME put[v].acks = {} PROVE FALSE OBVIOUS
        <4>1. Cardinality({}) = 0
          BY FS_EmptySet
        <4> QED BY <1>2, <4>1, QuorumAssumption DEF RowCommits, WriteSucceeds
      <3> QED BY <3>1
    <2>2. Held(n, v) /\ n \in objects'[v].replicas
      BY <1>2, <2>1 DEF RowCommits, Consistent, AcksHold
    <2>3. Held(n, v)'
      BY <1>2, <2>2 DEF RowCommits, Held, Intact, HasFile
    <2> QED BY <2>2, <2>3
  <1> QED BY <1>1, <1>2, RowSteps

(* Beside the write path, or when the task gives up.                       *)
LEMMA WriteHeld ==
    ASSUME HeldInv, ListedInv', [Next]_vars, UNCHANGED copyVars,
           "sidecar" \notin Faults, UNCHANGED move \/ Forgets
    PROVE  HeldInv'
  <1>0. /\ Consistent /\ move \in Move /\ Digested
        /\ move.pc = "copy" => move.ver \in Versions /\ Decided(move.ver)
        /\ Restored(move) \subseteq Nodes
    BY RestoredNodes
    DEF HeldInv, ListedInv, MoveInv, MoveTypeOK, MovesAreOfRows
  <1>1. Digested' /\ SomeReplicaHeld'
    BY <1>0, WriteDigested, WriteSomeHeld DEF HeldInv, copyVars
  <1>2. CASE UNCHANGED move
    <2> SUFFICES ASSUME move.pc = "copy",
                        objects'[move.ver].state = "COMMITTED",
                        NEW n \in Restored(move)
                 PROVE  Held(n, move.ver)'
      BY <1>1, <1>2 DEF HeldInv, DoneHeld
    <2>1. PICK v \in Versions : v = move.ver /\ Decided(v)
      BY <1>0
    <2>2. objects[v].state = "COMMITTED"
      BY <1>0, <2>1, DecidedRow DEF Decided
    <2>3. Held(n, v) /\ n \in Nodes /\ ~ Dead(v)
      BY <1>0, <2>1, <2>2 DEF HeldInv, DoneHeld, Dead
    <2>4. Held(n, v)'
      BY <1>0, <2>3, HeldKept
    <2> QED BY <1>2, <2>1, <2>4
  <1>3. CASE Forgets
    <2>1. move'.pc = "idle"
      BY <1>0, <1>3, Forgotten
    <2> QED BY <1>1, <2>1 DEF HeldInv, DoneHeld
  <1> QED BY <1>2, <1>3

(* A step of the task that counts nothing new.                             *)
LEMMA TaskHeld ==
    ASSUME HeldInv, ListedInv', UNCHANGED <<vars, copies>>,
           move'.pc = "copy" =>
               \/ Restored(move') = {}
               \/ /\ move.pc = "copy" /\ move'.ver = move.ver
                  /\ Restored(move') \subseteq Restored(move)
    PROVE  HeldInv'
  <1>1. Digested' /\ SomeReplicaHeld'
    BY DEF HeldInv, Digested, SomeReplicaHeld, Held, Intact, HasFile, vars
  <1>2. DoneHeld'
    BY DEF HeldInv, DoneHeld, Held, Intact, HasFile, vars
  <1> QED BY <1>1, <1>2 DEF HeldInv

(* The new list names a node whose copy arrived.                           *)
LEMMA CommitHeld ==
    ASSUME HeldInv, ListedInv', MigrateCommit
    PROVE  HeldInv'
  <1> DEFINE u == move.ver
  <1>0. /\ TypeOK /\ move \in Move /\ u \in Versions
    BY DEF HeldInv, ListedInv, MoveInv, MoveTypeOK, Consistent,
           MovesAreOfRows, MigrateCommit, Copied
  <1>1. /\ move.pc = "copy" /\ move.done # {} /\ move'.pc = "prune"
        /\ objects'[u].replicas = (move.listed[u] \cup move.done)
                                      \ (move.listed[u] \ move.target[u])
        /\ objects'[u].state = objects[u].state
        /\ \A v \in Versions \ {u} : objects'[v] = objects[v]
        /\ UNCHANGED <<disk, rotted, copies>>
    BY <1>0, Committing DEF copyVars
  <1>2. Digested' /\ DoneHeld'
    BY <1>1 DEF HeldInv, Digested, DoneHeld, HasFile
  <1>3. ASSUME NEW v \in Versions, objects'[v].state = "COMMITTED"
        PROVE  \E n \in objects'[v].replicas : Held(n, v)'
    <2>1. CASE v = u
      <3>1. PICK n \in move.done : Held(n, u)
        BY <1>1, <1>3, <2>1 DEF HeldInv, DoneHeld, Restored
      <3>2. n \in objects'[u].replicas
        BY <1>1, <3>1 DEF HeldInv, ListedInv, CopiesArrive, Needed
      <3>3. Held(n, v)'
        BY <1>1, <2>1, <3>1 DEF Held, Intact, HasFile
      <3> QED BY <2>1, <3>2, <3>3
    <2>2. CASE v # u
      BY <1>1, <1>3, <2>2
      DEF HeldInv, SomeReplicaHeld, Held, Intact, HasFile
    <2> QED BY <2>1, <2>2
  <1> QED BY <1>2, <1>3 DEF HeldInv, SomeReplicaHeld

LEMMA RequestHeld ==
    ASSUME HeldInv, ListedInv', NEW req \in requests, MoveRequest(req)
    PROVE  HeldInv'
  <1>0. /\ TypeOK /\ CopyTypeOK /\ Digested /\ move \in Move
        /\ req.dst \in Nodes
    BY DEF HeldInv, ListedInv, MoveInv, MoveTypeOK, Consistent, CopyTypeOK,
           Requests
  <1>1. RequestAnswered(req) /\ UNCHANGED vars
    BY DEF MoveRequest, RequestAnswered, Replicate, ReplicateRefused
  <1>2. Digested'
    BY <1>0, <1>1, RequestDigested
  <1>3. /\ move'.pc = move.pc /\ move'.ver = move.ver
        /\ Restored(move') \subseteq Restored(move)
    BY <1>0, Hearing DEF MoveRequest
  <1>4. DoneHeld' /\ SomeReplicaHeld'
    BY <1>1, <1>3
    DEF HeldInv, DoneHeld, SomeReplicaHeld, Held, Intact, HasFile, vars
  <1> QED BY <1>2, <1>4 DEF HeldInv

LEMMA CopyHeld ==
    ASSUME HeldInv, ListedInv', NEW copy \in copies, MoveCopy(copy),
           "sidecar" \notin Faults
    PROVE  HeldInv'
  <1>0. /\ TypeOK /\ CopyTypeOK /\ Digested /\ move \in Move
        /\ CopiesVerified
        /\ copy.ver \in Versions /\ copy.dst \in Nodes
        /\ move.pc = "copy" => move.ver \in Versions
        /\ Restored(move) \subseteq Nodes
    BY DigestedVerifies, RestoredNodes
    DEF HeldInv, ListedInv, MoveInv, MoveTypeOK, Consistent, CopyTypeOK,
        Copies, MovesAreOfRows
  <1>1. CopyPut(copy) \/ CopyFailed(copy)
    BY DEF MoveCopy
  <1>2. Digested' /\ UNCHANGED objects
    BY <1>0, <1>1, CopyDigested, CopyFrame
  <1>3. PICK ok \in BOOLEAN :
            /\ move' = Told(move, copy.ver, copy.dst, ok)
            /\ ok => CopyPut(copy) /\ Accepts(copy.data, copy.sum)
    BY DEF MoveCopy, Accepts
  <1>4. /\ move'.pc = move.pc /\ move'.ver = move.ver
        /\ \/ Restored(move') \subseteq Restored(move)
           \/ /\ ok /\ move.ver = copy.ver
              /\ Restored(move') \subseteq Restored(move) \cup {copy.dst}
    BY <1>0, <1>3, Hearing
  <1>5. ok => Intact(disk', copy.dst, copy.ver)
    <2> SUFFICES ASSUME ok PROVE Intact(disk', copy.dst, copy.ver)
      OBVIOUS
    <2>1. copy.data = ContentOf[copy.ver]
      BY <1>0, <1>3 DEF CopiesVerified
    <2> QED
      BY <1>0, <1>3, <2>1 DEF CopyPut, WriteBlob, Intact, TypeOK
  <1>6. \A n \in Nodes, v \in Versions : Held(n, v) => Held(n, v)'
    BY <1>0, <1>1, CopyKeepsHeld DEF CopiesVerified
  <1>7. DoneHeld'
    <2> SUFFICES ASSUME move.pc = "copy",
                        objects[move.ver].state = "COMMITTED",
                        NEW n \in Restored(move')
                 PROVE  Held(n, move.ver)'
      BY <1>2, <1>4 DEF DoneHeld
    <2>1. CASE n \in Restored(move)
      BY <1>0, <1>4, <1>6, <2>1 DEF HeldInv, DoneHeld
    <2>2. CASE n \notin Restored(move)
      BY <1>4, <1>5, <2>2 DEF Held
    <2> QED BY <2>1, <2>2
  <1>8. SomeReplicaHeld'
    BY <1>0, <1>2, <1>6 DEF HeldInv, SomeReplicaHeld, TypeOK, Row
  <1> QED BY <1>2, <1>7, <1>8 DEF HeldInv

(* A DELETE goes where neither the list points nor a copy counts.          *)
LEMMA PruneHeld ==
    ASSUME HeldInv, ListedInv', NEW call \in prunes,
           NodePrune(call) \/ PruneRefused(call)
    PROVE  HeldInv'
  <1>0. /\ MoveInv /\ TypeOK /\ move \in Move
        /\ move.pc = "copy" => move.ver \in Versions
        /\ Restored(move) \subseteq Nodes
    BY RestoredNodes
    DEF HeldInv, ListedInv, MoveInv, MoveTypeOK, Consistent, MovesAreOfRows
  <1>1. /\ call.node \in Nodes
        /\ UNCHANGED <<objects, rotted, copyVars>>
        /\ \A n \in Nodes, v \in Versions :
              \/ disk'[n][v] = disk[n][v]
              \/ n = call.node /\ v = call.ver /\ disk'[n][v] = Nothing
        /\ move' = Told(move, call.ver, call.node, FALSE)
    BY <1>0, PruneFacts
  <1>2. /\ move'.pc = move.pc /\ move'.ver = move.ver
        /\ Restored(move') \subseteq Restored(move)
    BY <1>0, <1>1, Hearing
  <1>3. /\ call.ver \notin Planned
        /\ call.node \notin objects[call.ver].replicas
    BY DEF HeldInv, ListedInv, PrunesAreUnlisted
  <1>4. Digested'
    BY <1>1 DEF HeldInv, Digested, HasFile, Nothing, copyVars
  <1>5. SomeReplicaHeld'
    <2>1. \A v \in Versions : objects[v].replicas \subseteq Nodes
      BY <1>0 DEF TypeOK, Row
    <2>2. \A v \in Versions : \A n \in objects[v].replicas :
              Held(n, v) => Held(n, v)'
      BY <1>1, <1>3, <2>1 DEF Held, Intact, HasFile
    <2> QED BY <1>1, <2>2 DEF HeldInv, SomeReplicaHeld
  <1>6. DoneHeld'
    <2> SUFFICES ASSUME move.pc = "copy",
                        objects[move.ver].state = "COMMITTED",
                        NEW n \in Restored(move)
                 PROVE  Held(n, move.ver)'
      BY <1>1, <1>2 DEF DoneHeld
    <2>1. move.ver # call.ver /\ n \in Nodes /\ Held(n, move.ver)
      BY <1>0, <1>3 DEF Planned, HeldInv, DoneHeld
    <2>2. disk'[n][move.ver] = disk[n][move.ver]
      BY <1>0, <1>1, <2>1
    <2> QED BY <1>1, <1>2, <2>1, <2>2 DEF Held, Intact, HasFile
  <1> QED BY <1>4, <1>5, <1>6 DEF HeldInv

LEMMA NextHeld ==
    ASSUME HeldInv, [MoveNext]_moveVars, "sidecar" \notin Faults,
           ~ LateCalls \/ Prompt
    PROVE  HeldInv'
  <1>0. /\ ListedInv' /\ move \in Move /\ AnswersAwaited
        /\ move.wait # NoNode => move.pc \in {"copy", "prune"}
    BY NextListed DEF HeldInv, ListedInv, MoveInv, MoveTypeOK, CallsAwaited
  <1>1. CASE UNCHANGED moveVars
    BY <1>0, <1>1, WriteHeld DEF moveVars
  <1>2. CASE WriteNext /\ UNCHANGED <<copyVars, move, prunes>>
    BY <1>0, <1>2, WriteHeld DEF Next
  <1>3. CASE MoveCrash
    BY <1>0, <1>3, WriteHeld DEF MoveCrash, Forgets, Next
  <1>4. CASE MigrateStoreError
    BY <1>0, <1>4, WriteHeld DEF MigrateStoreError, MoveTo, Forgets
  <1>5. CASE Goes
    <2>1. /\ UNCHANGED <<vars, copies>> /\ move'.ver = move.ver
          /\ Restored(move') \subseteq Restored(move)
          /\ move'.pc = "copy" => move.pc = "copy"
      BY <1>0, <1>5, GoesOn, CallGoesOn, OwnFrame DEF copyVars
    <2> QED BY <1>0, <2>1, TaskHeld
  <1>6. CASE Begins
    <2>1. TypeOK /\ UNCHANGED <<vars, copies>>
      BY <1>6, OwnFrame
      DEF HeldInv, ListedInv, MoveInv, Consistent, copyVars
    <2>2. ASSUME NEW v \in Versions, NEW n \in Nodes, MigrateStart(v, n)
          PROVE  Restored(move') = {}
      BY <1>0, <2>2, Visiting DEF AnswersAwaited, Restored
    <2>3. move'.pc = "copy" => Restored(move') = {}
      BY <1>0, <1>6, <2>1, <2>2, Planning DEF Begins
    <2> QED BY <1>0, <2>1, <2>3, TaskHeld
  <1>7. ASSUME NEW n \in Nodes, MoveSend(n) \/ PruneSend(n) PROVE HeldInv'
    <2>1. /\ UNCHANGED <<vars, copies>> /\ move'.pc = move.pc
          /\ move'.ver = move.ver /\ Restored(move') = Restored(move)
      BY <1>0, <1>7, Sending
      DEF MoveSend, PruneSend, copyVars, AnswersAwaited, Restored
    <2> QED BY <1>0, <2>1, TaskHeld
  <1>8. CASE MigrateCommit
    BY <1>0, <1>8, CommitHeld
  <1>9. CASE MoveAnswer
    BY <1>0, <1>9, RequestHeld, CopyHeld, PruneHeld DEF MoveAnswer
  <1> QED
    BY <1>1, <1>2, <1>3, <1>4, <1>5, <1>6, <1>7, <1>8, <1>9
    DEF MoveNext, MigrateStep, Goes, Begins

(* Whatever the quorum, and however many copies fail, a readable version   *)
(* keeps a replica that its row lists, with the uploaded content or        *)
(* rotten: the list never loses the last one to a copy that did not        *)
(* arrive.  It takes that no sidecar is lost, and that no call outlasts    *)
(* the run that made it, by assumption or because every call is waited     *)
(* for; the code guarantees neither.                                       *)
THEOREM MoveKeepsReplica ==
    ASSUME "sidecar" \notin Faults, ~ LateCalls \/ Prompt
    PROVE  RebalanceSpec => []SomeReplicaHeld
  <1>1. HeldInv /\ [MoveNext]_moveVars => HeldInv'
    BY NextHeld
  <1>2. HeldInv => SomeReplicaHeld
    BY DEF HeldInv
  <1> QED BY <1>1, <1>2, InitHeld, PTL DEF RebalanceSpec
=============================================================================
