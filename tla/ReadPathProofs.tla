--------------------------- MODULE ReadPathProofs ---------------------------
(***************************************************************************)
(* Proofs about ReadPath: reads and their repairs beside uploads and       *)
(* deletions, for every number of reads and of nodes, every fault and      *)
(* every quorum.                                                           *)
(***************************************************************************)
EXTENDS ReadPath, WritePathProofs

-----------------------------------------------------------------------------
(* The inductive invariant behind CommittedDurable, FullReadsExact and     *)
(* UnrecoverableMeansLost.                                                 *)

(* A read works from the row of a version that was readable.               *)
ReadsAreOfRows ==
    \A r \in Reads :
        /\ read[r].todo # {} => read[r].pc = "reading"
        /\ IF read[r].pc = "idle"
           THEN /\ read[r].ver = NoVersion /\ read[r].src = NoNode
                /\ read[r].bad = {} /\ read[r].sent = {}
           ELSE /\ read[r].ver \in Versions
                /\ objects[read[r].ver].state \in {"COMMITTED", "DELETED"}
                /\ put[read[r].ver].pc \notin {"idle", "uploading"}

(* Its outcome is what it heard.                                           *)
OutcomesHeard ==
    \A r \in Reads :
        /\ read[r].src # NoNode /\ read[r].span = "all" =>
               read[r].got = ContentOf[read[r].ver]
        /\ read[r].pc = "served" => read[r].src # NoNode
        /\ read[r].pc = "unrecoverable" => read[r].src = NoNode

(* A copy is a read's repair of a replica that it found bad.               *)
CopiesAreRepairs ==
    \A call \in requests \cup copies :
        /\ call.by \in Reads
        /\ read[call.by].ver = call.ver
        /\ call.dst \in read[call.by].bad

FoundBad(n, v) == \E r \in Reads : read[r].ver = v /\ n \in read[r].bad

(* r has no good answer about v yet, or never had one.                     *)
InVain(r, v) ==
    /\ read[r].ver = v /\ read[r].span # "past"
    /\ read[r].pc \in {"reading", "unrecoverable"}
    /\ read[r].src = NoNode

(* HeldByQuorum with a quorum of which repairs overwrite only what rot has *)
(* reached, and which every read in vain asks or has found bad.            *)
HeldBeyondRepair(v) ==
    \E S \in SUBSET objects[v].replicas :
        /\ WriteSucceeds(S)
        /\ \A n \in S : Held(n, v) /\ (FoundBad(n, v) => <<n, v>> \in rotted)
        /\ AllAnswer =>
               \A r \in Reads :
                   InVain(r, v) => S \subseteq read[r].todo \cup read[r].bad

ReadInv ==
    /\ Consistent
    /\ ReadTypeOK
    /\ ReadsAreOfRows
    /\ OutcomesHeard
    /\ CopiesAreRepairs
    /\ \A v \in Versions :
           objects[v].state = "COMMITTED" => HeldBeyondRepair(v)

-----------------------------------------------------------------------------
(* The inductive invariant behind ServedReadHeals, as long as the nodes    *)
(* answer.                                                                 *)

(* Every replica of an upload has acknowledged it or will.                 *)
UploadsWhole ==
    \A v \in Versions :
        put[v].pc = "uploading" =>
            objects[v].replicas \subseteq put[v].left \cup put[v].acks

ReplicasHeld ==
    \A v \in Versions :
        objects[v].state = "COMMITTED" =>
            \A n \in objects[v].replicas : Held(n, v)

Readable(r) ==
    read[r].pc # "idle" /\ objects[read[r].ver].state = "COMMITTED"

(* What a repair overwrites is rotten, what it copies from is not, and it  *)
(* ends when all of it is done.                                            *)
RepairsOrdered ==
    \A r \in Reads :
        /\ read[r].sent \subseteq read[r].bad
        /\ read[r].src \notin read[r].todo \cup read[r].bad
        /\ read[r].bad \cap read[r].todo = {}
        /\ read[r].sent # {} => read[r].todo = {}
        /\ read[r].pc = "served" => read[r].sent = read[r].bad /\ NoCopyFor(r)
        /\ Readable(r) =>
              /\ read[r].todo \cup read[r].bad \cup ({read[r].src} \ {NoNode})
                    \subseteq objects[read[r].ver].replicas
              /\ \A n \in read[r].bad : <<n, read[r].ver>> \in rotted

Healing(r, n) ==
    LET v == read[r].ver
    IN  \/ Intact(disk, n, v)
        \/ Request(r, v, read[r].src, n) \in requests
        \/ \E copy \in copies :
              /\ copy.by = r /\ copy.ver = v /\ copy.dst = n
              /\ copy.data = ContentOf[v]

RotOnce == \A x, y \in rotted : x = y

RepairsHeal ==
    RotOnce =>
        \A r \in Reads :
            Readable(r) => \A n \in read[r].sent : Healing(r, n)

HealInv ==
    /\ ReadInv
    /\ Digested
    /\ IsFiniteSet(rotted)
    /\ UploadsWhole
    /\ ReplicasHeld
    /\ RepairsOrdered
    /\ RepairsHeal

-----------------------------------------------------------------------------
LEMMA ReadInvIInv == ReadInv => IInv
  BY DEF ReadInv, HeldBeyondRepair, IInv, QuorumHolds, HeldByQuorum

LEMMA InitReadInv == ReadInit => ReadInv
  <1> SUFFICES ASSUME ReadInit PROVE ReadInv OBVIOUS
  <1>1. Consistent
    BY InitIInv DEF ReadInit, CopyInit, IInv
  <1>2. ReadTypeOK
    BY DEF ReadInit, CopyInit, ReadTypeOK, CopyTypeOK, Read, ReadStates, Spans
  <1>3. \A v \in Versions : objects[v].state # "COMMITTED"
    BY DEF ReadInit, CopyInit, Init, EmptyCatalog, NoRow
  <1>4. ReadsAreOfRows /\ OutcomesHeard /\ CopiesAreRepairs
    BY DEF ReadInit, CopyInit, ReadsAreOfRows, OutcomesHeard, CopiesAreRepairs
  <1> QED BY <1>1, <1>2, <1>3, <1>4 DEF ReadInv

-----------------------------------------------------------------------------
(* A read goes on, or ends without an outcome.                             *)
ReadKept(r) ==
    /\ read'[r].ver = read[r].ver /\ read'[r].bad = read[r].bad
    /\ read'[r].src = read[r].src /\ read'[r].got = read[r].got
    /\ read'[r].span = read[r].span /\ read'[r].sent = read[r].sent
    /\ \/ read'[r].pc = read[r].pc /\ read'[r].todo = read[r].todo
       \/ /\ read'[r].pc = "unknown" /\ read'[r].todo = {}
          /\ read[r].pc = "reading"

(* A step of the write path, or a restart, which ends the reads under way. *)
LEMMA WriteReadInv ==
    ASSUME ReadInv, [Next]_vars, UNCHANGED copyVars,
           read' \in [Reads -> Read], \A r \in Reads : ReadKept(r)
    PROVE  ReadInv'
  <1>0. Consistent /\ TypeOK /\ read \in [Reads -> Read]
    BY DEF ReadInv, Consistent, ReadTypeOK
  <1>1. Consistent'
    BY <1>0, NextConsistent
  <1>2. ReadTypeOK'
    BY DEF ReadInv, ReadTypeOK, CopyTypeOK, copyVars
  <1>4. \A v \in Versions :
            /\ objects[v].state \in {"COMMITTED", "DELETED"}
            /\ put[v].pc \notin {"idle", "uploading"}
            => /\ objects'[v].state \in {"COMMITTED", "DELETED"}
               /\ put'[v].pc \notin {"idle", "uploading"}
    BY <1>0, RowSteps DEF RowKept, RowCommits
  <1>5. ReadsAreOfRows'
    BY <1>4 DEF ReadKept, ReadInv, ReadsAreOfRows
  <1>6. OutcomesHeard'
    BY DEF ReadKept, ReadInv, OutcomesHeard
  <1>7. CopiesAreRepairs'
    BY DEF ReadKept, ReadInv, CopiesAreRepairs, copyVars
  <1>8. ASSUME NEW v \in Versions, objects'[v].state = "COMMITTED"
        PROVE  HeldBeyondRepair(v)'
    <2>0. /\ \A n : FoundBad(n, v)' => FoundBad(n, v)
          /\ \A r \in Reads :
                InVain(r, v)' => /\ InVain(r, v)
                                 /\ read'[r].todo = read[r].todo
                                 /\ read'[r].bad = read[r].bad
      BY DEF ReadKept, FoundBad, InVain
    <2>1. CASE RowKept(v)
      <3>1. /\ objects[v].state = "COMMITTED"
            /\ objects'[v].replicas = objects[v].replicas
        BY <1>8, <2>1 DEF RowKept
      <3>2. PICK S \in SUBSET objects[v].replicas :
                /\ WriteSucceeds(S)
                /\ \A n \in S :
                      Held(n, v) /\ (FoundBad(n, v) => <<n, v>> \in rotted)
                /\ AllAnswer =>
                       \A r \in Reads :
                           InVain(r, v) =>
                               S \subseteq read[r].todo \cup read[r].bad
        BY <3>1 DEF ReadInv, HeldBeyondRepair
      <3>3. S \subseteq Nodes
        BY <1>0 DEF TypeOK, Row
      <3>4. \A n \in S : Held(n, v)'
        BY <1>0, <3>1, <3>2, <3>3, HeldKept DEF Dead
      <3>5. \A n \in S : rotted \subseteq rotted'
        BY <1>0, <3>3, FileSteps
      <3>6. \A n \in S : FoundBad(n, v)' => <<n, v>> \in rotted'
        BY <2>0, <3>2, <3>5
      <3> QED BY <2>0, <3>1, <3>2, <3>4, <3>6 DEF HeldBeyondRepair
    <2>2. CASE RowCommits(v)
      <3>1. /\ WriteSucceeds(put[v].acks)
            /\ put[v].acks \subseteq objects'[v].replicas
        BY <1>0, <2>2 DEF RowCommits, Consistent, AcksHold
      <3>2. \A n \in put[v].acks : Held(n, v)'
        BY <1>0, <2>2, SameHeld DEF RowCommits, Consistent, AcksHold
      <3>3. \A r \in Reads : read[r].ver # v
        BY <2>2, FaultAssumption DEF RowCommits, ReadInv, ReadsAreOfRows
      <3>4. (\A n : ~ FoundBad(n, v)) /\ \A r \in Reads : ~ InVain(r, v)
        BY <3>3 DEF FoundBad, InVain
      <3> QED BY <2>0, <3>1, <3>2, <3>4 DEF HeldBeyondRepair
    <2> QED BY <1>0, <2>1, <2>2, RowSteps
  <1> QED BY <1>1, <1>2, <1>5, <1>6, <1>7, <1>8 DEF ReadInv

-----------------------------------------------------------------------------
(* What read r may become by a step that touches no row and no file.       *)
Follows(r, rd) ==
    /\ rd.pc # "idle" /\ rd.ver \in Versions
    /\ objects[rd.ver].state \in {"COMMITTED", "DELETED"}
    /\ put[rd.ver].pc \notin {"idle", "uploading"}
    /\ rd.todo # {} => rd.pc = "reading"
    /\ rd.src # NoNode /\ rd.span = "all" => rd.got = ContentOf[rd.ver]
    /\ rd.pc = "served" => rd.src # NoNode
    /\ rd.pc = "unrecoverable" => rd.src = NoNode
    /\ \/ read[r].pc = "idle"
       \/ rd.ver = read[r].ver /\ read[r].bad \subseteq rd.bad
    /\ \A n \in rd.bad \ read[r].bad :
           Held(n, rd.ver) => <<n, rd.ver>> \in rotted
    /\ /\ rd.span # "past" /\ rd.src = NoNode
       /\ rd.pc \in {"reading", "unrecoverable"}
       => \/ /\ InVain(r, rd.ver)
             /\ \/ ~ AllAnswer
                \/ read[r].todo \cup read[r].bad \subseteq rd.todo \cup rd.bad
          \/ objects[rd.ver].replicas \subseteq rd.todo

LEMMA ReadFrame ==
    ASSUME ReadInv, UNCHANGED <<vars, copies>>,
           NEW r \in Reads, NEW rd \in Read, read' = [read EXCEPT ![r] = rd],
           Follows(r, rd), requests' \subseteq Requests,
           \A req \in requests' \ requests :
               req.by = r /\ req.ver = rd.ver /\ req.dst \in rd.bad
    PROVE  ReadInv'
  <1>0. Consistent /\ TypeOK /\ read \in [Reads -> Read]
    BY DEF ReadInv, Consistent, ReadTypeOK
  <1>1. read'[r] = rd /\ \A s \in Reads \ {r} : read'[s] = read[s]
    BY <1>0
  <1>2. Consistent'
    BY <1>0, NextConsistent
  <1>3. ReadTypeOK'
    BY <1>0 DEF ReadInv, ReadTypeOK, CopyTypeOK
  <1>4. ReadsAreOfRows'
    BY <1>1 DEF ReadInv, ReadsAreOfRows, vars, Follows
  <1>5. OutcomesHeard'
    BY <1>1 DEF ReadInv, OutcomesHeard, Follows
  <1>6. CopiesAreRepairs'
    <2> SUFFICES ASSUME NEW call \in requests' \cup copies
                 PROVE  /\ call.by \in Reads
                        /\ read'[call.by].ver = call.ver
                        /\ call.dst \in read'[call.by].bad
      BY DEF CopiesAreRepairs
    <2>1. CASE call \in requests' \ requests
      BY <1>1, <2>1
    <2>2. CASE call \in requests \cup copies
      <3>1. /\ call.by \in Reads /\ read[call.by].ver = call.ver
            /\ call.dst \in read[call.by].bad
        BY <2>2 DEF ReadInv, CopiesAreRepairs
      <3>2. read[call.by].pc # "idle"
        BY <3>1 DEF ReadInv, ReadsAreOfRows
      <3> QED BY <1>1, <3>1, <3>2 DEF Follows
    <2> QED BY <2>1, <2>2
  <1>7. ASSUME NEW v \in Versions, objects'[v].state = "COMMITTED"
        PROVE  HeldBeyondRepair(v)'
    <2>1. UNCHANGED <<objects, disk, rotted>>
      BY DEF vars
    <2>2. PICK S \in SUBSET objects[v].replicas :
              /\ WriteSucceeds(S)
              /\ \A n \in S :
                    Held(n, v) /\ (FoundBad(n, v) => <<n, v>> \in rotted)
              /\ AllAnswer =>
                     \A s \in Reads :
                         InVain(s, v) =>
                             S \subseteq read[s].todo \cup read[s].bad
      BY <1>7, <2>1 DEF ReadInv, HeldBeyondRepair
    <2>3. \A n \in S : Held(n, v)'
      BY <2>1, <2>2, SameHeld
    <2>4. ASSUME NEW n \in S, FoundBad(n, v)' PROVE <<n, v>> \in rotted'
      <3>1. PICK s \in Reads : read'[s].ver = v /\ n \in read'[s].bad
        BY <2>4 DEF FoundBad
      <3>2. CASE s = r /\ n \notin read[r].bad
        BY <1>1, <2>1, <2>2, <3>1, <3>2 DEF Follows
      <3>3. CASE s # r \/ n \in read[r].bad
        <4>1. read[s].ver = v /\ n \in read[s].bad
          <5>1. CASE s # r
            BY <1>1, <3>1, <5>1
          <5>2. CASE s = r /\ n \in read[r].bad
            <6>1. read[r].pc # "idle"
              BY <5>2 DEF ReadInv, ReadsAreOfRows
            <6> QED BY <1>1, <3>1, <5>2, <6>1 DEF Follows
          <5> QED BY <3>3, <5>1, <5>2
        <4>2. FoundBad(n, v)
          BY <4>1 DEF FoundBad
        <4> QED BY <2>1, <2>2, <4>2
      <3> QED BY <3>2, <3>3
    <2>5. ASSUME AllAnswer,
                 NEW s \in Reads, InVain(s, v)'
          PROVE  S \subseteq read'[s].todo \cup read'[s].bad
      <3>1. CASE s # r
        BY <1>1, <2>2, <2>5, <3>1 DEF InVain
      <3>2. CASE s = r
        <4>1. v = rd.ver
          BY <1>1, <2>5, <3>2 DEF InVain
        <4> QED BY <1>1, <2>2, <2>5, <3>2, <4>1 DEF InVain, Follows
      <3> QED BY <3>1, <3>2
    <2>6. S \in SUBSET objects'[v].replicas
      BY <2>1
    <2> QED BY <2>2, <2>3, <2>4, <2>5, <2>6 DEF HeldBeyondRepair
  <1> QED BY <1>2, <1>3, <1>4, <1>5, <1>6, <1>7 DEF ReadInv

LEMMA ReadStartInv ==
    ASSUME ReadInv, NEW r \in Reads, NEW v \in Versions, NEW span \in Spans,
           ReadStart(r, v, span)
    PROVE  ReadInv'
  <1> DEFINE rd == [read[r] EXCEPT !.pc = "reading", !.ver = v, !.span = span,
                                   !.todo = objects[v].replicas]
  <1>0. /\ read[r] \in Read /\ read[r].pc = "idle" /\ Consistent /\ TypeOK
        /\ objects[v].state = "COMMITTED" /\ objects[v].replicas \subseteq Nodes
        /\ read' = [read EXCEPT ![r] = rd]
        /\ UNCHANGED <<vars, copies, requests>>
    BY DEF ReadStart, ReadInv, Consistent, ReadTypeOK, copyVars, TypeOK, Row
  <1>1. /\ rd \in Read /\ rd.pc = "reading" /\ rd.ver = v
        /\ rd.todo = objects[v].replicas
        /\ rd.bad = read[r].bad /\ rd.src = read[r].src
    BY <1>0 DEF Read, ReadStates
  <1>2. rd.src = NoNode
    BY <1>0, <1>1 DEF ReadInv, ReadsAreOfRows
  <1>3. put[v].pc \notin {"idle", "uploading"}
    BY <1>0 DEF Consistent, RowsFollowPuts
  <1>4. requests' \subseteq Requests
    BY <1>0 DEF ReadInv, ReadTypeOK, CopyTypeOK
  <1> HIDE DEF rd
  <1>5. Follows(r, rd)
    BY <1>0, <1>1, <1>2, <1>3 DEF Follows
  <1> QED BY <1>0, <1>4, <1>1, <1>5, ReadFrame

(* What one answer does to a read.                                         *)
LEMMA HearFacts ==
    ASSUME NEW rd \in Read, NEW n \in Nodes, NEW data \in Bytes \cup {NoFile}
    PROVE  /\ Hear(rd, n, data) \in Read
           /\ Hear(rd, n, data).pc = rd.pc
           /\ Hear(rd, n, data).ver = rd.ver
           /\ Hear(rd, n, data).span = rd.span
           /\ Hear(rd, n, data).sent = rd.sent
           /\ Hear(rd, n, data).todo = rd.todo \ {n}
           /\ IF Unsatisfiable(rd, data)
              THEN /\ Hear(rd, n, data).bad = rd.bad
                   /\ Hear(rd, n, data).got = rd.got
                   /\ Hear(rd, n, data).src = rd.src
              ELSE IF ~ Good(rd.ver, rd.span, data)
              THEN /\ Hear(rd, n, data).bad = rd.bad \cup {n}
                   /\ Hear(rd, n, data).got = rd.got
                   /\ Hear(rd, n, data).src = rd.src
              ELSE /\ Hear(rd, n, data).bad = rd.bad
                   /\ IF rd.src = NoNode
                      THEN /\ Hear(rd, n, data).got = data
                           /\ Hear(rd, n, data).src = n
                      ELSE /\ Hear(rd, n, data).got = rd.got
                           /\ Hear(rd, n, data).src = rd.src
  <1>1. CASE Unsatisfiable(rd, data)
    BY <1>1 DEF Hear, Read
  <1>2. CASE ~ Unsatisfiable(rd, data) /\ ~ Good(rd.ver, rd.span, data)
    BY <1>2 DEF Hear, Read
  <1>3. CASE ~ Unsatisfiable(rd, data) /\ Good(rd.ver, rd.span, data)
    BY <1>3 DEF Hear, Read
  <1> QED BY <1>1, <1>2, <1>3

LEMMA ReadReplicaInv ==
    ASSUME ReadInv, NEW r \in Reads, NEW n \in Nodes, ReadReplica(r, n)
    PROVE  ReadInv'
  <1>1. /\ read[r] \in Read /\ read[r].pc = "reading"
        /\ read[r].ver \in Versions
        /\ objects[read[r].ver].state \in {"COMMITTED", "DELETED"}
        /\ put[read[r].ver].pc \notin {"idle", "uploading"}
        /\ requests \subseteq Requests
    BY DEF ReadReplica, ReadInv, ReadsAreOfRows, ReadTypeOK, CopyTypeOK
  <1> PICK v \in Versions : v = read[r].ver
    BY <1>1
  <1> PICK data \in Bytes \cup {NoFile} : data = disk[n][v].data
    <2>1. disk[n][v] \in File
      BY DEF ReadInv, Consistent, TypeOK
    <2> QED BY <2>1 DEF File
  <1> PICK old \in Read : old = read[r]
    BY <1>1
  <1> PICK rd \in Read : rd = Hear(old, n, data)
    BY HearFacts
  <1>0. /\ rd.pc = old.pc /\ rd.ver = old.ver /\ rd.span = old.span
        /\ rd.todo = old.todo \ {n}
        /\ IF Unsatisfiable(old, data)
           THEN rd.bad = old.bad /\ rd.got = old.got /\ rd.src = old.src
           ELSE IF ~ Good(old.ver, old.span, data)
           THEN rd.bad = old.bad \cup {n} /\ rd.got = old.got
                /\ rd.src = old.src
           ELSE /\ rd.bad = old.bad
                /\ IF old.src = NoNode
                   THEN rd.got = data /\ rd.src = n
                   ELSE rd.got = old.got /\ rd.src = old.src
    BY HearFacts
  <1>2. /\ rd.pc = "reading" /\ rd.ver = v
        /\ rd.span = read[r].span /\ rd.todo = read[r].todo \ {n}
        /\ IF Unsatisfiable(read[r], data)
           THEN rd.bad = read[r].bad /\ rd.got = read[r].got
                /\ rd.src = read[r].src
           ELSE IF ~ Good(v, read[r].span, data)
           THEN rd.bad = read[r].bad \cup {n} /\ rd.got = read[r].got
                /\ rd.src = read[r].src
           ELSE /\ rd.bad = read[r].bad
                /\ IF read[r].src = NoNode
                   THEN rd.got = data /\ rd.src = n
                   ELSE rd.got = read[r].got /\ rd.src = read[r].src
    BY <1>0, <1>1
  <1>3. /\ read' = [read EXCEPT ![r] = rd] /\ n \in read[r].todo
        /\ UNCHANGED <<vars, copies>> /\ requests' = requests
    BY DEF ReadReplica, copyVars
  <1>5. rd.src # NoNode /\ rd.span = "all" => rd.got = ContentOf[v]
    BY <1>2 DEF ReadInv, OutcomesHeard, Good
  <1>6. read[r].bad \subseteq rd.bad
    BY <1>2
  <1>7. \A m \in rd.bad \ read[r].bad : Held(m, v) => <<m, v>> \in rotted
    <2>1. \A m \in rd.bad \ read[r].bad :
              m = n /\ ~ Good(v, read[r].span, data)
      BY <1>2
    <2> QED
      BY <2>1, ContentAssumption DEF Held, Intact, HasFile, Good, Contents
  <1>8. rd.span # "past" /\ rd.src = NoNode =>
            /\ InVain(r, rd.ver)
            /\ read[r].todo \cup read[r].bad \subseteq rd.todo \cup rd.bad
    <2> SUFFICES ASSUME rd.span # "past", rd.src = NoNode
                 PROVE  /\ InVain(r, rd.ver)
                        /\ read[r].todo \cup read[r].bad
                              \subseteq rd.todo \cup rd.bad
      OBVIOUS
    <2>1. read[r].src = NoNode /\ rd.bad = read[r].bad \cup {n}
      BY <1>2, NoNodeAssumption DEF Unsatisfiable
    <2> QED BY <1>1, <1>2, <2>1 DEF InVain
  <1>9. Follows(r, rd)
    BY <1>1, <1>2, <1>5, <1>6, <1>7, <1>8 DEF Follows
  <1> QED BY <1>1, <1>3, <1>9, ReadFrame

(* A step of a read that changes nothing that was heard.                   *)
LEMMA SilentFrame ==
    ASSUME ReadInv, UNCHANGED <<vars, copies>>,
           NEW r \in Reads, NEW rd \in Read, read' = [read EXCEPT ![r] = rd],
           requests' \subseteq Requests,
           \A req \in requests' \ requests :
               req.by = r /\ req.ver = rd.ver /\ req.dst \in rd.bad,
           read[r].pc = "reading",
           rd.pc \in {"reading", "served", "unrecoverable", "unknown"},
           rd.ver = read[r].ver, rd.span = read[r].span,
           rd.bad = read[r].bad, rd.got = read[r].got, rd.src = read[r].src,
           rd.pc = "served" => rd.src # NoNode,
           rd.pc = "unrecoverable" => rd.src = NoNode,
           \/ rd.todo = read[r].todo
           \/ rd.pc = "reading" /\ ~ AllAnswer,
           rd.todo # {} => rd.pc = "reading"
    PROVE  ReadInv'
  <1>1. /\ read[r].ver \in Versions
        /\ objects[read[r].ver].state \in {"COMMITTED", "DELETED"}
        /\ put[read[r].ver].pc \notin {"idle", "uploading"}
    BY DEF ReadInv, ReadsAreOfRows
  <1>2. read[r].src # NoNode /\ read[r].span = "all" =>
            read[r].got = ContentOf[read[r].ver]
    BY DEF ReadInv, OutcomesHeard
  <1>3. Follows(r, rd)
    BY <1>1, <1>2 DEF Follows, InVain
  <1> QED BY <1>3, ReadFrame

LEMMA ReadUnreachableInv ==
    ASSUME ReadInv, NEW r \in Reads, NEW n \in Nodes, ReadUnreachable(r, n)
    PROVE  ReadInv'
  <1>1. /\ read[r] \in Read /\ read[r].pc = "reading"
        /\ requests \subseteq Requests
    BY DEF ReadUnreachable, ReadInv, ReadsAreOfRows, ReadTypeOK, CopyTypeOK
  <1> PICK rd \in Read : rd = [read[r] EXCEPT !.todo = @ \ {n}]
    BY <1>1 DEF Read
  <1>2. /\ rd.pc = "reading" /\ rd.ver = read[r].ver
        /\ rd.span = read[r].span /\ rd.bad = read[r].bad
        /\ rd.src = read[r].src /\ rd.got = read[r].got
    BY <1>1 DEF Read
  <1>3. /\ read' = [read EXCEPT ![r] = rd]
        /\ ~ AllAnswer
        /\ UNCHANGED <<vars, copies>> /\ requests' = requests
    BY DEF ReadUnreachable, AllAnswer, copyVars
  <1> QED BY <1>1, <1>2, <1>3, SilentFrame

LEMMA ReadUnrecoverableInv ==
    ASSUME ReadInv, NEW r \in Reads, ReadUnrecoverable(r)
    PROVE  ReadInv'
  <1>1. read[r] \in Read /\ requests \subseteq Requests
    BY DEF ReadInv, ReadTypeOK, CopyTypeOK
  <1> PICK rd \in Read : rd = [read[r] EXCEPT !.pc = "unrecoverable"]
    BY <1>1 DEF Read, ReadStates
  <1>2. /\ rd.pc = "unrecoverable" /\ rd.ver = read[r].ver
        /\ rd.span = read[r].span /\ rd.bad = read[r].bad
        /\ rd.src = read[r].src /\ rd.got = read[r].got
        /\ rd.todo = read[r].todo
    BY <1>1 DEF Read
  <1>3. /\ read' = [read EXCEPT ![r] = rd]
        /\ read[r].pc = "reading" /\ read[r].todo = {} /\ read[r].src = NoNode
        /\ UNCHANGED <<vars, copies>> /\ requests' = requests
    BY DEF ReadUnrecoverable, AllAsked, copyVars
  <1> QED BY <1>1, <1>2, <1>3, SilentFrame

LEMMA ReadServeInv ==
    ASSUME ReadInv, NEW r \in Reads, ReadServe(r)
    PROVE  ReadInv'
  <1>1. read[r] \in Read /\ requests \subseteq Requests
    BY DEF ReadInv, ReadTypeOK, CopyTypeOK
  <1> PICK rd \in Read : rd = [read[r] EXCEPT !.pc = "served"]
    BY <1>1 DEF Read, ReadStates
  <1>2. /\ rd.pc = "served" /\ rd.ver = read[r].ver
        /\ rd.span = read[r].span /\ rd.bad = read[r].bad
        /\ rd.src = read[r].src /\ rd.got = read[r].got
        /\ rd.todo = read[r].todo
    BY <1>1 DEF Read
  <1>3. /\ read' = [read EXCEPT ![r] = rd]
        /\ read[r].pc = "reading" /\ read[r].todo = {} /\ read[r].src # NoNode
        /\ UNCHANGED <<vars, copies>> /\ requests' = requests
    BY DEF ReadServe, AllAsked, copyVars
  <1> QED BY <1>1, <1>2, <1>3, SilentFrame

LEMMA RepairSendInv ==
    ASSUME ReadInv, NEW r \in Reads, NEW dst \in Nodes, RepairSend(r, dst)
    PROVE  ReadInv'
  <1>1. /\ read[r] \in Read /\ requests \subseteq Requests
        /\ read[r].pc = "reading" /\ read[r].todo = {} /\ read[r].src # NoNode
        /\ read[r].ver \in Versions /\ dst \in read[r].bad
    BY DEF RepairSend, AllAsked, ReadInv, ReadsAreOfRows, ReadTypeOK, CopyTypeOK
  <1> PICK rd \in Read : rd = [read[r] EXCEPT !.sent = @ \cup {dst}]
    BY <1>1 DEF Read
  <1>2. /\ rd.pc = "reading" /\ rd.ver = read[r].ver
        /\ rd.span = read[r].span /\ rd.bad = read[r].bad
        /\ rd.src = read[r].src /\ rd.got = read[r].got
        /\ rd.todo = read[r].todo
    BY <1>1 DEF Read
  <1>3. read' = [read EXCEPT ![r] = rd] /\ UNCHANGED <<vars, copies>>
    BY DEF RepairSend
  <1>7. requests' = requests \cup {Request(r, rd.ver, rd.src, dst)}
    BY <1>2 DEF RepairSend
  <1>4. Request(r, rd.ver, rd.src, dst) \in Requests
    <2>1. r \in Agents /\ rd.src \in Nodes
      BY <1>1, <1>2, ReadAssumption DEF Read
    <2> QED BY <1>1, <1>2, <2>1, RequestTyped
  <1>5. \A req \in requests' \ requests :
            req.by = r /\ req.ver = rd.ver /\ req.dst \in rd.bad
    BY <1>1, <1>2, <1>7 DEF Request
  <1>6. requests' \subseteq Requests
    BY <1>1, <1>7, <1>4
  <1> QED BY <1>1, <1>2, <1>3, <1>5, <1>6, SilentFrame

LEMMA RepairSkipInv ==
    ASSUME ReadInv, NEW r \in Reads, NEW dst \in Nodes, RepairSkip(r, dst)
    PROVE  ReadInv'
  <1>1. /\ read[r] \in Read /\ requests \subseteq Requests
        /\ read[r].pc = "reading" /\ read[r].todo = {} /\ read[r].src # NoNode
    BY DEF RepairSkip, AllAsked, ReadInv, ReadTypeOK, CopyTypeOK
  <1> PICK rd \in Read : rd = [read[r] EXCEPT !.sent = @ \cup {dst}]
    BY <1>1 DEF Read
  <1>2. /\ rd.pc = "reading" /\ rd.ver = read[r].ver
        /\ rd.span = read[r].span /\ rd.bad = read[r].bad
        /\ rd.src = read[r].src /\ rd.got = read[r].got
        /\ rd.todo = read[r].todo
    BY <1>1 DEF Read
  <1>3. /\ read' = [read EXCEPT ![r] = rd]
        /\ UNCHANGED <<vars, copies>> /\ requests' = requests
    BY DEF RepairSkip, copyVars
  <1> QED BY <1>1, <1>2, <1>3, SilentFrame

(* The read ends without a word to the row.                                *)
LEMMA RepairGivenUpInv ==
    ASSUME ReadInv, NEW r \in Reads, RepairNothing(r) \/ RepairStoreError(r)
    PROVE  ReadInv'
  <1>1. /\ read[r] \in Read /\ requests \subseteq Requests
        /\ read[r].pc = "reading" /\ read[r].todo = {} /\ read[r].src # NoNode
    BY DEF RepairNothing, RepairStoreError, RepairsDone, AllAsked, ReadInv,
           ReadTypeOK, CopyTypeOK
  <1> PICK pc \in {"served", "unknown"} : read' = [read EXCEPT ![r].pc = pc]
    BY DEF RepairNothing, RepairStoreError
  <1> PICK rd \in Read : rd = [read[r] EXCEPT !.pc = pc]
    BY <1>1 DEF Read, ReadStates
  <1>2. /\ rd.pc = pc /\ rd.ver = read[r].ver
        /\ rd.span = read[r].span /\ rd.bad = read[r].bad
        /\ rd.src = read[r].src /\ rd.got = read[r].got
        /\ rd.todo = read[r].todo
    BY <1>1 DEF Read
  <1>3. /\ read' = [read EXCEPT ![r] = rd]
        /\ UNCHANGED <<vars, copies>> /\ requests' = requests
    BY DEF RepairNothing, RepairStoreError, copyVars
  <1>4. /\ rd.pc \in {"reading", "served", "unrecoverable", "unknown"}
        /\ rd.pc # "unrecoverable" /\ rd.src # NoNode /\ rd.todo = {}
    BY <1>1, <1>2
  <1> QED BY <1>1, <1>2, <1>3, <1>4, SilentFrame

(* The row gains replicas, the read is answered.                           *)
LEMMA RepairFinishInv ==
    ASSUME ReadInv, NEW r \in Reads, RepairFinish(r)
    PROVE  ReadInv'
  <1>0. /\ Consistent /\ TypeOK /\ read[r] \in Read
        /\ read \in [Reads -> Read]
        /\ read[r].pc = "reading" /\ read[r].todo = {}
        /\ read[r].src # NoNode /\ read[r].ver \in Versions
        /\ put[read[r].ver].pc \notin {"idle", "uploading"}
        /\ UNCHANGED <<disk, rotted, wire, put, del, cleanup, queue, crashes,
                       requests, copies>>
        /\ read' = [read EXCEPT ![r].pc = "served"]
    BY DEF RepairFinish, RepairsDone, AllAsked, ReadInv, Consistent,
           ReadTypeOK, ReadsAreOfRows
  <1>1. /\ objects' \in [Versions -> Row]
        /\ \A v \in Versions :
              /\ objects'[v].state = objects[v].state
              /\ objects'[v].latest = objects[v].latest
              /\ objects[v].replicas \subseteq objects'[v].replicas
              /\ v # read[r].ver => objects'[v] = objects[v]
    <2> PICK u \in Versions : u = read[r].ver
      BY <1>0
    <2>1. /\ MergedReplicas(read[r]) \in SUBSET Nodes
          /\ objects[u].replicas \subseteq MergedReplicas(read[r])
      BY <1>0 DEF MergedReplicas, TypeOK, Row, Read
    <2> PICK new \in SUBSET Nodes : new = MergedReplicas(read[r])
      BY <2>1
    <2>2. CASE objects[u].state = "COMMITTED"
      <3>1. objects' = UpdateObjectReplicas(objects, u, new)
        BY <2>2 DEF RepairFinish
      <3>2. objects' \in [Versions -> Row]
        BY <1>0, <3>1, CatalogTypes DEF TypeOK
      <3>3. objects' = [objects EXCEPT ![u].replicas = new]
        BY <3>1 DEF UpdateObjectReplicas
      <3> QED BY <1>0, <2>1, <3>2, <3>3 DEF TypeOK, Row
    <2>3. CASE objects[u].state # "COMMITTED"
      <3>1. objects' = objects
        BY <2>3 DEF RepairFinish
      <3> QED BY <1>0, <3>1 DEF TypeOK
    <2> QED BY <2>2, <2>3
  <1>2. Consistent'
    <2>1. TypeOK'
      BY <1>0, <1>1 DEF TypeOK
    <2>2. \A v \in Versions :
              put[v].pc = "uploading" =>
                  /\ objects'[v].replicas = objects[v].replicas
                  /\ \A n \in Nodes : Held(n, v) => Held(n, v)'
      BY <1>0, <1>1, SameHeld
    <2> QED BY <1>0, <1>1, <2>1, <2>2, BesideFrame
  <1>3. /\ read' \in [Reads -> Read] /\ read'[r].pc = "served"
        /\ \A s \in Reads :
              /\ read'[s].ver = read[s].ver /\ read'[s].bad = read[s].bad
              /\ read'[s].src = read[s].src /\ read'[s].got = read[s].got
              /\ read'[s].span = read[s].span /\ read'[s].sent = read[s].sent
              /\ read'[s].todo = read[s].todo
              /\ s # r => read'[s].pc = read[s].pc
    <2>1. [read[r] EXCEPT !.pc = "served"] \in Read
      BY <1>0 DEF Read, ReadStates
    <2> QED BY <1>0, <2>1 DEF Read
  <1>4. ReadTypeOK'
    BY <1>0, <1>3 DEF ReadInv, ReadTypeOK, CopyTypeOK
  <1>5. ReadsAreOfRows'
    BY <1>0, <1>1, <1>3 DEF ReadInv, ReadsAreOfRows
  <1>6. OutcomesHeard'
    BY <1>0, <1>3 DEF ReadInv, OutcomesHeard
  <1>7. CopiesAreRepairs'
    BY <1>0, <1>3 DEF ReadInv, CopiesAreRepairs
  <1>8. ASSUME NEW v \in Versions, objects'[v].state = "COMMITTED"
        PROVE  HeldBeyondRepair(v)'
    <2>1. PICK S \in SUBSET objects[v].replicas :
              /\ WriteSucceeds(S)
              /\ \A n \in S :
                    Held(n, v) /\ (FoundBad(n, v) => <<n, v>> \in rotted)
              /\ AllAnswer =>
                     \A s \in Reads :
                         InVain(s, v) =>
                             S \subseteq read[s].todo \cup read[s].bad
      BY <1>1, <1>8 DEF ReadInv, HeldBeyondRepair
    <2>2. \A n \in S : Held(n, v)'
      BY <1>0, <2>1, SameHeld
    <2>3. \A n \in S : FoundBad(n, v)' => <<n, v>> \in rotted'
      BY <1>0, <1>3, <2>1 DEF FoundBad
    <2>4. \A s \in Reads : InVain(s, v)' => InVain(s, v)
      BY <1>3 DEF InVain
    <2>5. S \in SUBSET objects'[v].replicas
      BY <1>1
    <2> QED BY <1>3, <2>1, <2>2, <2>3, <2>4, <2>5 DEF HeldBeyondRepair
  <1> QED BY <1>2, <1>4, <1>5, <1>6, <1>7, <1>8 DEF ReadInv

-----------------------------------------------------------------------------
(* The copies of a repair.                                                 *)
LEMMA RequestReadInv ==
    ASSUME ReadInv, NEW req \in requests, RequestAnswered(req), UNCHANGED read
    PROVE  ReadInv'
  <1>1. UNCHANGED vars /\ requests' \subseteq requests
    BY DEF RequestAnswered, Replicate, ReplicateRefused
  <1>2. Consistent'
    BY <1>1, NextConsistent DEF ReadInv
  <1>3. ReadTypeOK'
    BY RequestAnsweredTyped DEF ReadInv, Consistent, ReadTypeOK
  <1>4. ReadsAreOfRows' /\ OutcomesHeard'
    BY <1>1 DEF ReadInv, ReadsAreOfRows, OutcomesHeard, vars
  <1>5. CopiesAreRepairs'
    <2>1. \A copy \in copies' \ copies : copy = CopyOf(req)
      BY DEF RequestAnswered, Replicate, ReplicateRefused
    <2> QED BY <1>1, <2>1 DEF ReadInv, CopiesAreRepairs, CopyOf
  <1>6. \A v \in Versions : HeldBeyondRepair(v) => HeldBeyondRepair(v)'
    BY <1>1
    DEF vars, HeldBeyondRepair, Held, Intact, HasFile, FoundBad, InVain
  <1> QED
    BY <1>1, <1>2, <1>3, <1>4, <1>5, <1>6 DEF ReadInv, vars

LEMMA CopyReadInv ==
    ASSUME ReadInv, NEW copy \in copies, CopyPut(copy) \/ CopyFailed(copy),
           UNCHANGED read
    PROVE  ReadInv'
  <1>0. Consistent /\ TypeOK /\ CopyTypeOK
    BY DEF ReadInv, Consistent, ReadTypeOK
  <1>1. /\ copies' \subseteq copies
        /\ UNCHANGED <<objects, rotted, wire, put, cleanup, requests>>
    BY CopyFrame
  <1>2. TypeOK' /\ CopyTypeOK'
    BY <1>0, CopyTyped
  <1>3. /\ copy.by \in Reads /\ read[copy.by].ver = copy.ver
        /\ copy.dst \in read[copy.by].bad
    BY DEF ReadInv, CopiesAreRepairs
  <1>4. put[copy.ver].pc # "uploading"
    BY <1>3 DEF ReadInv, ReadsAreOfRows
  <1>5. ASSUME NEW n \in Nodes, NEW v \in Versions, Held(n, v),
               v = copy.ver /\ n = copy.dst => <<n, v>> \in rotted
        PROVE  Held(n, v)'
    BY <1>0, <1>5, CopyKeepsHeld
  <1>6. Consistent'
    BY <1>0, <1>1, <1>2, <1>4, <1>5, BesideFrame
  <1>7. ReadTypeOK'
    BY <1>2 DEF ReadInv, ReadTypeOK
  <1>8. ReadsAreOfRows' /\ OutcomesHeard' /\ CopiesAreRepairs'
    BY <1>1 DEF ReadInv, ReadsAreOfRows, OutcomesHeard, CopiesAreRepairs
  <1>9. ASSUME NEW v \in Versions, objects'[v].state = "COMMITTED"
        PROVE  HeldBeyondRepair(v)'
    <2>1. PICK S \in SUBSET objects[v].replicas :
              /\ WriteSucceeds(S)
              /\ \A n \in S :
                    Held(n, v) /\ (FoundBad(n, v) => <<n, v>> \in rotted)
              /\ AllAnswer =>
                     \A s \in Reads :
                         InVain(s, v) =>
                             S \subseteq read[s].todo \cup read[s].bad
      BY <1>1, <1>9 DEF ReadInv, HeldBeyondRepair
    <2>2. S \subseteq Nodes
      BY <1>0 DEF TypeOK, Row
    <2>3. \A n \in S : v = copy.ver /\ n = copy.dst => <<n, v>> \in rotted
      BY <1>3, <2>1 DEF FoundBad
    <2>4. \A n \in S : Held(n, v)'
      BY <1>5, <2>1, <2>2, <2>3
    <2>5. /\ \A n \in S : FoundBad(n, v)' => <<n, v>> \in rotted'
          /\ \A s \in Reads : InVain(s, v)' => InVain(s, v)
      BY <1>1, <2>1 DEF FoundBad, InVain
    <2> QED BY <1>1, <2>1, <2>4, <2>5 DEF HeldBeyondRepair
  <1> QED BY <1>6, <1>7, <1>8, <1>9 DEF ReadInv

-----------------------------------------------------------------------------
LEMMA CrashKeeps ==
    ASSUME ReadInv, CrashAll
    PROVE  read' \in [Reads -> Read] /\ \A r \in Reads : ReadKept(r)
  <1>0. read \in [Reads -> Read]
    BY DEF ReadInv, ReadTypeOK
  <1>1. ASSUME NEW r \in Reads PROVE read'[r] \in Read /\ ReadKept(r)
    <2>1. CASE read[r].pc = "reading"
      <3>1. read'[r] = [read[r] EXCEPT !.pc = "unknown", !.todo = {}]
        BY <2>1 DEF CrashAll
      <3> QED BY <1>0, <2>1, <3>1 DEF Read, ReadStates, ReadKept
    <2>2. CASE read[r].pc # "reading"
      BY <1>0, <2>2 DEF CrashAll, ReadKept
    <2> QED BY <2>1, <2>2
  <1>2. read' = [r \in Reads |-> read'[r]]
    BY DEF CrashAll
  <1> QED BY <1>1, <1>2

LEMMA CrashReadInv ==
    ASSUME ReadInv, CrashAll
    PROVE  ReadInv'
  <1>1. [Next]_vars /\ UNCHANGED copyVars
    BY DEF CrashAll, Next
  <1> QED BY <1>1, CrashKeeps, WriteReadInv

LEMMA NextReadInv == ReadInv /\ [ReadNext]_allVars => ReadInv'
  <1> SUFFICES ASSUME ReadInv, [ReadNext]_allVars PROVE ReadInv' OBVIOUS
  <1>1. ASSUME [Next]_vars, UNCHANGED <<copyVars, read>> PROVE ReadInv'
    <2>1. \A r \in Reads : ReadKept(r)
      BY <1>1 DEF ReadKept
    <2> QED BY <1>1, <2>1, WriteReadInv DEF ReadInv, ReadTypeOK
  <1>2. CASE UNCHANGED allVars
    BY <1>1, <1>2 DEF allVars
  <1>3. CASE WriteNext /\ UNCHANGED <<copyVars, read>>
    BY <1>1, <1>3 DEF Next
  <1>4. CASE ReadStep
    BY <1>4, ReadStartInv, ReadReplicaInv, ReadUnreachableInv, RepairSendInv,
       RepairSkipInv, ReadUnrecoverableInv, ReadServeInv, RepairGivenUpInv,
       RepairFinishInv
    DEF ReadStep, ReadAdvance, ReadFinish
  <1>5. CASE CopyStep
    BY <1>5, RequestReadInv, CopyReadInv DEF CopyStep
  <1>6. CASE CrashAll
    BY <1>6, CrashReadInv
  <1> QED BY <1>2, <1>3, <1>4, <1>5, <1>6 DEF ReadNext

(* The inductive invariant of reads and repairs.                           *)
THEOREM ReadInvariance == ReadSpec => []ReadInv
  BY InitReadInv, NextReadInv, PTL DEF ReadSpec

-----------------------------------------------------------------------------
(* The safety properties.                                                  *)

(* Reads, repairs and copies keep their types.                             *)
THEOREM ReadTyping == ReadSpec => []ReadTypeOK
  <1>1. ReadInv => ReadTypeOK
    BY DEF ReadInv
  <1> QED BY <1>1, ReadInvariance, PTL

(* Reads and their repairs, which overwrite replicas from one another and  *)
(* rewrite the row's list of them, leave every readable version with W     *)
(* replicas, whatever fails.                                               *)
THEOREM ReadDurability == ReadSpec => []CommittedDurable
  <1>1. ReadInv => CommittedDurable
    BY ReadInvIInv, QuorumCounted
  <1> QED BY <1>1, ReadInvariance, PTL

(* A full read returns what was uploaded, even while its replicas are      *)
(* being damaged, overwritten or deleted.                                  *)
THEOREM Exactness == ReadSpec => []FullReadsExact
  <1>1. ReadInv => FullReadsExact
    BY DEF ReadInv, OutcomesHeard, FullReadsExact
  <1> QED BY <1>1, ReadInvariance, PTL

(* When every node answers, a read that found nothing good was of a lost   *)
(* object.                                                                 *)
THEOREM LostOnly ==
    ASSUME AllAnswer
    PROVE  ReadSpec => []UnrecoverableMeansLost
  <1>1. ReadInv => UnrecoverableMeansLost
    <2> SUFFICES ASSUME ReadInv, NEW r \in Reads,
                        read[r].pc = "unrecoverable", read[r].span # "past",
                        objects[read[r].ver].state # "DELETED"
                 PROVE  Cardinality({n \in objects[read[r].ver].replicas :
                                        <<n, read[r].ver>> \in rotted}) >= W
      BY DEF UnrecoverableMeansLost, Lost
    <2> PICK v \in Versions : v = read[r].ver
      BY DEF ReadInv, ReadsAreOfRows
    <2>1. objects[v].state = "COMMITTED"
      BY DEF ReadInv, ReadsAreOfRows
    <2>2. InVain(r, v) /\ read[r].todo = {}
      BY DEF ReadInv, OutcomesHeard, ReadsAreOfRows, InVain
    <2>3. PICK S \in SUBSET objects[v].replicas :
              /\ WriteSucceeds(S)
              /\ \A n \in S :
                    Held(n, v) /\ (FoundBad(n, v) => <<n, v>> \in rotted)
              /\ S \subseteq read[r].todo \cup read[r].bad
      BY <2>1, <2>2 DEF ReadInv, HeldBeyondRepair
    <2>4. S \subseteq {n \in objects[v].replicas : <<n, v>> \in rotted}
      BY <2>2, <2>3 DEF FoundBad
    <2>5. objects[v].replicas \subseteq Nodes
      BY DEF ReadInv, Consistent, TypeOK, Row
    <2>6. WriteSucceeds({n \in objects[v].replicas : <<n, v>> \in rotted})
      BY <2>3, <2>4, <2>5, LargerQuorum
    <2> QED BY <2>6 DEF WriteSucceeds
  <1> QED BY <1>1, ReadInvariance, PTL

(* As long as no sidecar is lost, a repair spreads no damage: what a       *)
(* target accepts is what was uploaded, whatever became of its source      *)
(* since it was verified.                                                  *)
THEOREM RepairsVerified ==
    ASSUME "sidecar" \notin Faults
    PROVE  ReadSpec => []CopiesVerified
  <1>1. ReadInit => ReadInv /\ Digested
    BY InitReadInv, InitDigested DEF ReadInit
  <1>2. ReadInv /\ Digested /\ [ReadNext]_allVars => ReadInv' /\ Digested'
    <2> SUFFICES ASSUME ReadInv, Digested, [ReadNext]_allVars PROVE Digested'
      BY NextReadInv
    <2>0. Consistent /\ TypeOK /\ CopyTypeOK
      BY DEF ReadInv, Consistent, ReadTypeOK
    <2>1. CASE [Next]_vars /\ UNCHANGED copyVars
      BY <2>0, <2>1, WriteDigested DEF copyVars
    <2>2. CASE CopyStep
      BY <2>0, <2>2, RequestDigested, CopyDigested DEF CopyStep
    <2>3. ASSUME UNCHANGED <<disk, copies>> PROVE Digested'
      BY <2>3 DEF Digested, HasFile
    <2>4. CASE ReadStep
      <3>1. UNCHANGED <<disk, copies>>
        BY <2>4
        DEF ReadStep, ReadStart, ReadAdvance, ReadReplica, ReadUnreachable,
            RepairSend, RepairSkip, ReadFinish, ReadUnrecoverable, ReadServe,
            RepairNothing, RepairFinish, RepairStoreError, vars, copyVars
      <3> QED BY <2>3, <3>1
    <2> QED
      BY <2>1, <2>2, <2>4 DEF ReadNext, CrashAll, Next, allVars
  <1>3. ReadInv /\ Digested => CopiesVerified
    BY DigestedVerifies DEF ReadInv, ReadTypeOK
  <1> QED BY <1>1, <1>2, <1>3, PTL DEF ReadSpec

(* Reads and repairs are invisible to the register that the engine         *)
(* implements, though a repair rewrites a row.                             *)
LEMMA ReadRegisterStep ==
    ReadInv /\ ReadInv' /\ [ReadNext]_allVars
        => [Register!Next]_(Register!vars)
  <1> SUFFICES ASSUME ReadInv, ReadInv', [ReadNext]_allVars
               PROVE  [Register!Next]_(Register!vars)
    OBVIOUS
  <1>0. Consistent /\ Consistent' /\ TypeOK
    BY DEF ReadInv, Consistent
  <1>1. CASE [Next]_vars
    BY <1>0, <1>1, RegisterStep
  <1>2. ASSUME UNCHANGED put,
               \A v \in Versions : /\ objects'[v].state = objects[v].state
                                   /\ objects'[v].latest = objects[v].latest
        PROVE  UNCHANGED Register!vars
    BY <1>0, <1>2, RegisterStutter
  <1>3. CASE CopyStep
    <2>1. UNCHANGED <<objects, put>>
      BY <1>3
      DEF CopyStep, RequestAnswered, Replicate, ReplicateRefused, CopyPut,
          CopyFailed, CopyPutNoSidecar, CopyRefused, vars
    <2> QED BY <1>2, <2>1
  <1>4. ASSUME NEW r \in Reads, RepairFinish(r)
        PROVE  UNCHANGED Register!vars
    <2>1. /\ UNCHANGED put
          /\ \/ UNCHANGED objects
             \/ objects' = UpdateObjectReplicas(objects, read[r].ver,
                                                MergedReplicas(read[r]))
      BY <1>4 DEF RepairFinish
    <2>2. \A v \in Versions : /\ objects'[v].state = objects[v].state
                              /\ objects'[v].latest = objects[v].latest
      BY <1>0, <2>1 DEF UpdateObjectReplicas, TypeOK, Row
    <2> QED BY <1>2, <2>1, <2>2
  <1>5. CASE ReadStep
    <2>1. UNCHANGED vars \/ \E r \in Reads : RepairFinish(r)
      BY <1>5
      DEF ReadStep, ReadStart, ReadAdvance, ReadReplica, ReadUnreachable,
          RepairSend, RepairSkip, ReadFinish, ReadUnrecoverable, ReadServe,
          RepairNothing, RepairStoreError
    <2> QED BY <1>1, <1>4, <2>1
  <1> QED BY <1>1, <1>3, <1>5 DEF ReadNext, CrashAll, Next, allVars

(* Reads and repairs take nothing from the register that uploads and       *)
(* deletions implement: every behaviour of all of them is one of its.      *)
THEOREM ReadImplementation == ReadSpec => RegisterSpec
  <1>1. ReadInit => Register!Init
    BY RegisterInit DEF ReadInit, CopyInit
  <1> QED
    BY <1>1, ReadRegisterStep, ReadInvariance, PTL
    DEF ReadSpec, RegisterSpec, Register!Spec

-----------------------------------------------------------------------------
(* Repairs heal, as long as the nodes answer.                              *)

LEMMA InitHealInv == ReadInit => HealInv
  <1> SUFFICES ASSUME ReadInit PROVE HealInv OBVIOUS
  <1>1. ReadInv
    BY InitReadInv
  <1>2. Digested
    BY InitDigested DEF ReadInit
  <1>3. IsFiniteSet(rotted)
    BY FS_EmptySet DEF ReadInit, CopyInit, Init
  <1>4. \A v \in Versions : objects[v].state = "ABSENT" /\ put[v].pc = "idle"
    BY DEF ReadInit, CopyInit, Init, EmptyCatalog, NoRow
  <1>5. \A r \in Reads : /\ read[r].pc = "idle" /\ read[r].todo = {}
                         /\ read[r].bad = {} /\ read[r].sent = {}
    BY DEF ReadInit
  <1> QED
    BY <1>1, <1>2, <1>3, <1>4, <1>5
    DEF HealInv, UploadsWhole, ReplicasHeld, RepairsOrdered, RepairsHeal,
        Readable

(* A version that was read stays as it was, or is deleted.                 *)
LEMMA ReadRowKept ==
    ASSUME ReadInv, [Next]_vars, NEW r \in Reads, read[r].pc # "idle"
    PROVE  RowKept(read[r].ver)
  <1>1. PICK v \in Versions : v = read[r].ver
    BY DEF ReadInv, ReadsAreOfRows
  <1>2. objects[v].state \in {"COMMITTED", "DELETED"}
    BY <1>1 DEF ReadInv, ReadsAreOfRows
  <1>3. RowKept(v)
    BY <1>2, RowSteps DEF ReadInv, RowCommits
  <1> QED BY <1>1, <1>3

LEMMA WriteHealInv ==
    ASSUME HealInv, Faults \subseteq {"store"}, [Next]_vars, UNCHANGED copyVars,
           read' \in [Reads -> Read], \A r \in Reads : ReadKept(r)
    PROVE  HealInv'
  <1>0. ReadInv /\ Consistent /\ TypeOK /\ read \in [Reads -> Read]
    BY DEF HealInv, ReadInv, Consistent, ReadTypeOK
  <1>1. ReadInv'
    BY <1>0, WriteReadInv
  <1>2. Digested'
    BY <1>0, WriteDigested DEF HealInv, copyVars
  <1>3. IsFiniteSet(rotted')
    BY RottedGrows DEF HealInv
  <1>4. UploadsWhole'
    BY <1>0, UploadsKept DEF HealInv, UploadsWhole
  <1>5. ASSUME NEW v \in Versions, objects'[v].state = "COMMITTED",
               NEW n \in objects'[v].replicas
        PROVE  Held(n, v)'
    <2>1. CASE RowKept(v)
      <3>1. objects[v].state = "COMMITTED" /\ n \in objects[v].replicas
        BY <1>5, <2>1 DEF RowKept
      <3>2. n \in Nodes
        BY <1>0, <3>1 DEF TypeOK, Row
      <3> QED
        BY <1>0, <3>1, <3>2, HeldKept DEF HealInv, ReplicasHeld, Dead
    <2>2. CASE RowCommits(v)
      <3>1. n \in put[v].acks
        BY <1>5, <2>2 DEF RowCommits, HealInv, UploadsWhole
      <3>2. Held(n, v)
        BY <1>0, <3>1 DEF Consistent, AcksHold
      <3> QED BY <2>2, <3>2, SameHeld DEF RowCommits
    <2> QED BY <1>0, <2>1, <2>2, RowSteps
  <1>6. ASSUME NEW r \in Reads, Readable(r)'
        PROVE  /\ Readable(r) /\ read[r].ver \in Versions
               /\ objects'[read[r].ver].replicas = objects[read[r].ver].replicas
    <2>1. read[r].pc # "idle" /\ read'[r].ver = read[r].ver
      BY <1>6 DEF ReadKept, Readable
    <2>2. RowKept(read[r].ver)
      BY <1>0, <2>1, ReadRowKept
    <2>3. /\ read[r].ver \in Versions
          /\ objects[read[r].ver].state \in {"COMMITTED", "DELETED"}
      BY <1>0, <2>1 DEF ReadInv, ReadsAreOfRows
    <2> QED BY <1>6, <2>1, <2>2, <2>3 DEF RowKept, Readable
  <1>7. RepairsOrdered'
    <2>1. rotted \subseteq rotted'
      BY RottedGrows
    <2>2. \A r \in Reads : NoCopyFor(r) => NoCopyFor(r)'
      BY DEF NoCopyFor, copyVars
    <2> QED BY <1>6, <2>1, <2>2 DEF ReadKept, HealInv, RepairsOrdered
  <1>8. RepairsHeal'
    <2> SUFFICES ASSUME RotOnce', NEW r \in Reads, Readable(r)',
                        NEW n \in read'[r].sent
                 PROVE  Healing(r, n)'
      BY DEF RepairsHeal
    <2>1. PICK v \in Versions : v = read[r].ver
      BY <1>6
    <2>2. /\ Readable(r) /\ n \in read[r].sent /\ n \in Nodes
          /\ read'[r].ver = v /\ read'[r].src = read[r].src
      BY <1>0, <1>6, <2>1 DEF ReadKept, Read
    <2>3. rotted \subseteq rotted' /\ <<n, v>> \in rotted
      BY <1>0, <2>1, <2>2, RottedGrows DEF HealInv, RepairsOrdered
    <2>4. Healing(r, n)
      BY <2>2, <2>3 DEF RotOnce, HealInv, RepairsHeal
    <2>5. CASE Intact(disk, n, v)
      <3>1. ~ FileRots(n, v) /\ ~ FileDeleted(n, v)
        BY <2>1, <2>2, <2>3 DEF FileRots, FileDeleted, Dead, Readable
      <3>2. Intact(disk', n, v)
        BY <1>0, <2>2, <2>5, <3>1, FileSteps DEF FileUploaded, Intact
      <3> QED BY <2>2, <3>2 DEF Healing, Intact
    <2>6. CASE ~ Intact(disk, n, v)
      BY <2>1, <2>2, <2>4, <2>6 DEF Healing, copyVars
    <2> QED BY <2>5, <2>6
  <1> QED
    BY <1>1, <1>2, <1>3, <1>4, <1>5, <1>7, <1>8 DEF HealInv, ReplicasHeld

(* What read r may become, of the repair it makes.                         *)
Mends(r, rd) ==
    /\ rd.ver \in Versions
    /\ rd.sent \subseteq rd.bad
    /\ rd.src \notin rd.todo \cup rd.bad
    /\ rd.bad \cap rd.todo = {}
    /\ rd.sent # {} =>
          /\ rd.todo = {} /\ read[r].pc # "idle"
          /\ rd.ver = read[r].ver /\ rd.src = read[r].src
    /\ objects[rd.ver].state = "COMMITTED" =>
          /\ rd.todo \cup rd.bad \cup ({rd.src} \ {NoNode})
                \subseteq objects[rd.ver].replicas
          /\ \A n \in rd.bad : <<n, rd.ver>> \in rotted

LEMMA HealFrame ==
    ASSUME HealInv, ReadInv', UNCHANGED <<vars, copies>>,
           NEW r \in Reads, NEW rd \in Read, read' = [read EXCEPT ![r] = rd],
           Mends(r, rd), requests \subseteq requests',
           \A req \in requests' \ requests : req.by = r,
           rd.pc = "served" => rd.sent = rd.bad /\ NoCopyFor(r)',
           \A n \in rd.sent : \/ n \in read[r].sent
                              \/ Request(r, rd.ver, rd.src, n) \in requests'
    PROVE  HealInv'
  <1>0. ReadInv /\ read \in [Reads -> Read]
    BY DEF HealInv, ReadInv, ReadTypeOK
  <1>1. /\ read'[r] = rd /\ \A s \in Reads \ {r} : read'[s] = read[s]
        /\ UNCHANGED <<objects, disk, rotted, put, copies>>
    BY <1>0 DEF vars
  <1>2. Digested' /\ IsFiniteSet(rotted')
    BY <1>1 DEF HealInv, Digested, HasFile
  <1>3. UploadsWhole' /\ ReplicasHeld'
    BY <1>1, SameHeld DEF HealInv, UploadsWhole, ReplicasHeld
  <1>4. \A s \in Reads \ {r} : NoCopyFor(s) => NoCopyFor(s)'
    BY <1>1 DEF NoCopyFor
  <1>5. RepairsOrdered'
    <2> SUFFICES ASSUME NEW s \in Reads
                 PROVE  /\ read'[s].sent \subseteq read'[s].bad
                        /\ read'[s].src \notin read'[s].todo \cup read'[s].bad
                        /\ read'[s].bad \cap read'[s].todo = {}
                        /\ read'[s].sent # {} => read'[s].todo = {}
                        /\ read'[s].pc = "served" =>
                              read'[s].sent = read'[s].bad /\ NoCopyFor(s)'
                        /\ Readable(s)' =>
                              /\ read'[s].todo \cup read'[s].bad
                                    \cup ({read'[s].src} \ {NoNode})
                                    \subseteq objects'[read'[s].ver].replicas
                              /\ \A n \in read'[s].bad :
                                    <<n, read'[s].ver>> \in rotted'
      BY DEF RepairsOrdered
    <2>1. CASE s = r
      BY <1>1, <2>1 DEF Mends, Readable
    <2>2. CASE s # r
      BY <1>1, <1>4, <2>2 DEF HealInv, RepairsOrdered, Readable
    <2> QED BY <2>1, <2>2
  <1>6. RepairsHeal'
    <2> SUFFICES ASSUME RotOnce', NEW s \in Reads, Readable(s)',
                        NEW n \in read'[s].sent
                 PROVE  Healing(s, n)'
      BY DEF RepairsHeal
    <2>0. RotOnce
      BY <1>1 DEF RotOnce
    <2>1. CASE s # r \/ (s = r /\ n \in read[r].sent)
      <3>1. /\ read'[s].ver = read[s].ver /\ read'[s].src = read[s].src
            /\ Readable(s) /\ n \in read[s].sent
        BY <1>1, <2>1 DEF Mends, Readable
      <3>2. Healing(s, n)
        BY <2>0, <3>1 DEF HealInv, RepairsHeal
      <3> QED BY <1>1, <3>1, <3>2 DEF Healing, Intact
    <2>2. CASE s = r /\ n \notin read[r].sent
      BY <1>1, <2>2 DEF Healing
    <2> QED BY <2>1, <2>2
  <1> QED BY <1>2, <1>3, <1>5, <1>6 DEF HealInv

LEMMA ReadStartHeal ==
    ASSUME HealInv, NEW r \in Reads, NEW v \in Versions, NEW span \in Spans,
           ReadStart(r, v, span)
    PROVE  HealInv'
  <1>1. /\ read[r] \in Read /\ read[r].pc = "idle"
        /\ objects[v].state = "COMMITTED" /\ objects[v].replicas \subseteq Nodes
        /\ read[r].src = NoNode /\ read[r].bad = {} /\ read[r].sent = {}
    BY DEF ReadStart, HealInv, ReadInv, Consistent, ReadTypeOK, ReadsAreOfRows,
           TypeOK, Row
  <1> PICK rd \in Read :
          rd = [read[r] EXCEPT !.pc = "reading", !.ver = v, !.span = span,
                               !.todo = objects[v].replicas]
    BY <1>1 DEF Read, ReadStates
  <1>2. /\ rd.pc = "reading" /\ rd.ver = v /\ rd.todo = objects[v].replicas
        /\ rd.src = NoNode /\ rd.bad = {} /\ rd.sent = {}
    BY <1>1 DEF Read
  <1>3. Mends(r, rd)
    BY <1>1, <1>2, NoNodeAssumption DEF Mends
  <1>4. /\ read' = [read EXCEPT ![r] = rd]
        /\ UNCHANGED <<vars, copies>> /\ requests' = requests
    BY DEF ReadStart, copyVars
  <1>5. ReadInv'
    BY ReadStartInv DEF HealInv
  <1> QED BY <1>2, <1>3, <1>4, <1>5, HealFrame

(* A replica moves from those to be asked to the source, or to the bad.    *)
LEMMA AskedOne ==
    ASSUME NEW todo, NEW bad, NEW src, NEW n \in todo,
           n \notin bad, src \notin todo \cup bad, bad \cap todo = {},
           NEW todo2, NEW bad2, NEW src2, todo2 = todo \ {n},
           \/ bad2 = bad /\ src2 \in {src, n}
           \/ bad2 = bad \cup {n} /\ src2 = src
    PROVE  /\ src2 \notin todo2 \cup bad2
           /\ bad2 \cap todo2 = {}
           /\ todo2 \cup bad2 \cup ({src2} \ {NoNode})
                 \subseteq todo \cup bad \cup ({src} \ {NoNode})
  OBVIOUS

LEMMA ReadReplicaHeal ==
    ASSUME HealInv, NEW r \in Reads, NEW n \in Nodes, ReadReplica(r, n)
    PROVE  HealInv'
  <1>1. /\ read[r] \in Read /\ read[r].pc = "reading"
        /\ read[r].ver \in Versions /\ n \in read[r].todo
        /\ read[r].sent = {} /\ n \notin read[r].bad
        /\ read[r].src \notin read[r].todo \cup read[r].bad
        /\ read[r].bad \cap read[r].todo = {}
    BY DEF ReadReplica, HealInv, ReadInv, ReadsAreOfRows, ReadTypeOK,
           RepairsOrdered
  <1>2. PICK v \in Versions : v = read[r].ver
    BY <1>1
  <1>3. PICK data \in Bytes \cup {NoFile} : data = disk[n][v].data
    <2>1. disk[n][v] \in File
      BY DEF HealInv, ReadInv, Consistent, TypeOK
    <2> QED BY <2>1 DEF File
  <1>4. PICK old \in Read : old = read[r]
    BY <1>1
  <1>5. PICK rd \in Read : rd = Hear(old, n, data)
    BY HearFacts
  <1>6. /\ rd.pc = old.pc /\ rd.ver = v /\ rd.sent = old.sent
        /\ rd.todo = old.todo \ {n}
        /\ \/ rd.bad = old.bad /\ rd.src \in {old.src, n}
           \/ /\ ~ Good(v, old.span, data)
              /\ rd.bad = old.bad \cup {n} /\ rd.src = old.src
    BY <1>2, <1>4, <1>5, HearFacts
  <1>7. objects[v].state = "COMMITTED" =>
            /\ old.todo \cup old.bad \cup ({old.src} \ {NoNode})
                  \subseteq objects[v].replicas
            /\ \A m \in old.bad : <<m, v>> \in rotted
    BY <1>1, <1>2, <1>4 DEF HealInv, RepairsOrdered, Readable
  <1>8. objects[v].state = "COMMITTED" /\ ~ Good(v, old.span, data) =>
            <<n, v>> \in rotted
    <2> SUFFICES ASSUME objects[v].state = "COMMITTED",
                        ~ Good(v, old.span, data)
                 PROVE  <<n, v>> \in rotted
      OBVIOUS
    <2>1. Held(n, v)
      BY <1>1, <1>4, <1>7 DEF HealInv, ReplicasHeld
    <2> QED
      BY <1>3, <2>1, ContentAssumption
      DEF Good, Held, Intact, HasFile, Contents
  <1>9. Mends(r, rd)
    <2>1. /\ n \in old.todo /\ n \notin old.bad /\ old.sent = {}
          /\ old.src \notin old.todo \cup old.bad
          /\ old.bad \cap old.todo = {}
      BY <1>1, <1>4
    <2>2. /\ rd.src \notin rd.todo \cup rd.bad
          /\ rd.bad \cap rd.todo = {}
          /\ rd.todo \cup rd.bad \cup ({rd.src} \ {NoNode})
                \subseteq old.todo \cup old.bad \cup ({old.src} \ {NoNode})
      BY <1>6, <2>1, AskedOne
    <2>3. objects[v].state = "COMMITTED" =>
              /\ rd.todo \cup rd.bad \cup ({rd.src} \ {NoNode})
                    \subseteq objects[v].replicas
              /\ \A m \in rd.bad : <<m, v>> \in rotted
      <3>1. CASE rd.bad = old.bad
        BY <1>7, <2>2, <3>1
      <3>2. CASE ~ Good(v, old.span, data) /\ rd.bad = old.bad \cup {n}
        BY <1>7, <1>8, <2>2, <3>2
      <3> QED BY <1>6, <3>1, <3>2
    <2> QED BY <1>6, <2>1, <2>2, <2>3 DEF Mends
  <1>10. /\ read' = [read EXCEPT ![r] = rd]
        /\ UNCHANGED <<vars, copies>> /\ requests' = requests
    BY <1>2, <1>3, <1>4, <1>5 DEF ReadReplica, copyVars
  <1>11. ReadInv'
    BY ReadReplicaInv DEF HealInv
  <1>12. rd.pc = "reading" /\ rd.sent = {}
    BY <1>1, <1>4, <1>6
  <1> QED BY <1>9, <1>10, <1>11, <1>12, HealFrame

(* A read under way whose replicas have all been asked.                    *)
LEMMA AskedMends ==
    ASSUME HealInv, NEW r \in Reads, AllAsked(r), NEW rd \in Read,
           rd.ver = read[r].ver, rd.src = read[r].src, rd.bad = read[r].bad,
           rd.todo = read[r].todo, rd.sent \subseteq read[r].bad
    PROVE  Mends(r, rd)
  BY DEF AllAsked, HealInv, ReadInv, ReadsAreOfRows, RepairsOrdered, Readable,
         Mends

LEMMA ReadUnrecoverableHeal ==
    ASSUME HealInv, NEW r \in Reads, ReadUnrecoverable(r)
    PROVE  HealInv'
  <1>1. /\ read[r] \in Read /\ AllAsked(r)
        /\ read[r].sent \subseteq read[r].bad
    BY DEF ReadUnrecoverable, HealInv, ReadInv, ReadTypeOK, RepairsOrdered
  <1> PICK rd \in Read : rd = [read[r] EXCEPT !.pc = "unrecoverable"]
    BY <1>1 DEF Read, ReadStates
  <1>2. /\ rd.pc = "unrecoverable" /\ rd.ver = read[r].ver
        /\ rd.bad = read[r].bad /\ rd.sent = read[r].sent
        /\ rd.src = read[r].src /\ rd.todo = read[r].todo
    BY <1>1 DEF Read
  <1>3. Mends(r, rd)
    BY <1>1, <1>2, AskedMends
  <1>4. /\ read' = [read EXCEPT ![r] = rd]
        /\ UNCHANGED <<vars, copies>> /\ requests' = requests
    BY DEF ReadUnrecoverable, copyVars
  <1>5. ReadInv'
    BY ReadUnrecoverableInv DEF HealInv
  <1> QED BY <1>2, <1>3, <1>4, <1>5, HealFrame

LEMMA ReadServeHeal ==
    ASSUME HealInv, NEW r \in Reads, ReadServe(r)
    PROVE  HealInv'
  <1>1. /\ read[r] \in Read /\ AllAsked(r)
        /\ read[r].bad = {} /\ read[r].sent = {}
    BY DEF ReadServe, HealInv, ReadInv, ReadTypeOK, RepairsOrdered
  <1> PICK rd \in Read : rd = [read[r] EXCEPT !.pc = "served"]
    BY <1>1 DEF Read, ReadStates
  <1>2. /\ rd.ver = read[r].ver
        /\ rd.bad = read[r].bad /\ rd.sent = read[r].sent
        /\ rd.src = read[r].src /\ rd.todo = read[r].todo
    BY <1>1 DEF Read
  <1>3. Mends(r, rd)
    BY <1>1, <1>2, AskedMends
  <1>4. /\ read' = [read EXCEPT ![r] = rd]
        /\ UNCHANGED <<vars, copies>> /\ requests' = requests
    BY DEF ReadServe, copyVars
  <1>5. ReadInv'
    BY ReadServeInv DEF HealInv
  <1>6. NoCopyFor(r)'
    BY <1>1, <1>4 DEF HealInv, ReadInv, CopiesAreRepairs, NoCopyFor
  <1>7. rd.sent = rd.bad /\ rd.sent = {}
    BY <1>1, <1>2
  <1> QED BY <1>3, <1>4, <1>5, <1>6, <1>7, HealFrame

LEMMA RepairSendHeal ==
    ASSUME HealInv, NEW r \in Reads, NEW dst \in Nodes, RepairSend(r, dst)
    PROVE  HealInv'
  <1>1. /\ read[r] \in Read /\ AllAsked(r) /\ read[r].pc = "reading"
        /\ read[r].sent \subseteq read[r].bad /\ dst \in read[r].bad
    BY DEF RepairSend, AllAsked, HealInv, ReadInv, ReadTypeOK, RepairsOrdered
  <1> PICK rd \in Read : rd = [read[r] EXCEPT !.sent = @ \cup {dst}]
    BY <1>1 DEF Read
  <1>2. /\ rd.pc = "reading" /\ rd.ver = read[r].ver
        /\ rd.bad = read[r].bad /\ rd.sent = read[r].sent \cup {dst}
        /\ rd.src = read[r].src /\ rd.todo = read[r].todo
    BY <1>1 DEF Read
  <1>3. Mends(r, rd)
    BY <1>1, <1>2, AskedMends
  <1>4. read' = [read EXCEPT ![r] = rd] /\ UNCHANGED <<vars, copies>>
    BY DEF RepairSend
  <1>5. requests' = requests \cup {Request(r, rd.ver, rd.src, dst)}
    BY <1>2 DEF RepairSend
  <1>6. /\ requests \subseteq requests'
        /\ \A req \in requests' \ requests : req.by = r
        /\ \A n \in rd.sent : \/ n \in read[r].sent
                              \/ Request(r, rd.ver, rd.src, n) \in requests'
    BY <1>2, <1>5 DEF Request
  <1>7. ReadInv'
    BY RepairSendInv DEF HealInv
  <1> QED BY <1>2, <1>3, <1>4, <1>6, <1>7, HealFrame

LEMMA RepairStoreErrorHeal ==
    ASSUME HealInv, NEW r \in Reads, RepairStoreError(r)
    PROVE  HealInv'
  <1>1. /\ read[r] \in Read /\ AllAsked(r)
        /\ read[r].sent \subseteq read[r].bad
    BY DEF RepairStoreError, RepairsDone, HealInv, ReadInv, ReadTypeOK,
           RepairsOrdered
  <1> PICK rd \in Read : rd = [read[r] EXCEPT !.pc = "unknown"]
    BY <1>1 DEF Read, ReadStates
  <1>2. /\ rd.pc = "unknown" /\ rd.ver = read[r].ver
        /\ rd.bad = read[r].bad /\ rd.sent = read[r].sent
        /\ rd.src = read[r].src /\ rd.todo = read[r].todo
    BY <1>1 DEF Read
  <1>3. Mends(r, rd)
    BY <1>1, <1>2, AskedMends
  <1>4. /\ read' = [read EXCEPT ![r] = rd]
        /\ UNCHANGED <<vars, copies>> /\ requests' = requests
    BY DEF RepairStoreError, copyVars
  <1>5. ReadInv'
    BY RepairGivenUpInv DEF HealInv
  <1> QED BY <1>2, <1>3, <1>4, <1>5, HealFrame

LEMMA RepairFinishHeal ==
    ASSUME HealInv, Faults \subseteq {"store"}, NEW r \in Reads, RepairFinish(r)
    PROVE  HealInv'
  <1>0. /\ ReadInv /\ Consistent /\ TypeOK /\ read \in [Reads -> Read]
        /\ read[r].pc = "reading" /\ read[r].ver \in Versions
        /\ put[read[r].ver].pc \notin {"idle", "uploading"}
        /\ read[r].sent = read[r].bad
        /\ UNCHANGED <<disk, rotted, wire, put, requests, copies>>
        /\ read' = [read EXCEPT ![r].pc = "served"]
    BY DEF RepairFinish, RepairsDone, AllAsked, HealInv, ReadInv, Consistent,
           ReadTypeOK, ReadsAreOfRows
  <1>1. \A v \in Versions :
            /\ objects'[v].state = objects[v].state
            /\ put[v].pc = "uploading" \/ objects[v].state = "COMMITTED" =>
                  objects'[v].replicas = objects[v].replicas
    <2> PICK u \in Versions : u = read[r].ver
      BY <1>0
    <2>1. CASE objects[u].state = "COMMITTED"
      <3>1. MergedReplicas(read[r]) = objects[u].replicas
        BY <1>0, <2>1
        DEF MergedReplicas, HealInv, RepairsOrdered, Readable
      <3>2. objects' = [objects EXCEPT ![u].replicas = objects[u].replicas]
        BY <2>1, <3>1 DEF RepairFinish, UpdateObjectReplicas
      <3> QED BY <1>0, <3>2 DEF TypeOK, Row
    <2>2. CASE objects[u].state # "COMMITTED"
      BY <2>2 DEF RepairFinish
    <2> QED BY <2>1, <2>2
  <1>2. /\ \A s \in Reads :
              /\ read'[s].ver = read[s].ver /\ read'[s].bad = read[s].bad
              /\ read'[s].src = read[s].src /\ read'[s].sent = read[s].sent
              /\ read'[s].todo = read[s].todo
              /\ read'[s].pc = IF s = r THEN "served" ELSE read[s].pc
    BY <1>0 DEF Read
  <1>3. ReadInv'
    BY <1>0, RepairFinishInv
  <1>4. Digested' /\ IsFiniteSet(rotted')
    BY <1>0 DEF HealInv, Digested, HasFile
  <1>5. UploadsWhole' /\ ReplicasHeld'
    BY <1>0, <1>1, SameHeld DEF HealInv, UploadsWhole, ReplicasHeld
  <1>6. NoCopyFor(r)
    BY DEF RepairFinish, RepairsDone, RepairIdle
  <1>7. \A s \in Reads :
            /\ NoCopyFor(s)' <=> NoCopyFor(s)
            /\ Readable(s)' =>
                  /\ Readable(s)
                  /\ objects'[read[s].ver].replicas
                        = objects[read[s].ver].replicas
    <2>1. \A s \in Reads : read[s].pc # "idle" => read[s].ver \in Versions
      BY <1>0 DEF ReadInv, ReadsAreOfRows
    <2> QED BY <1>0, <1>1, <1>2, <2>1 DEF NoCopyFor, Readable
  <1>8. RepairsOrdered'
    BY <1>0, <1>2, <1>6, <1>7 DEF HealInv, RepairsOrdered
  <1>9. RepairsHeal'
    BY <1>0, <1>2, <1>7 DEF HealInv, RepairsHeal, RotOnce, Healing, Intact
  <1> QED BY <1>3, <1>4, <1>5, <1>8, <1>9 DEF HealInv

(* What a repair copies from is intact, when rot strikes once.             *)
LEMMA SourceIntact ==
    ASSUME HealInv, RotOnce, NEW r \in Reads, Readable(r),
           NEW n \in read[r].sent, read[r].src \in Nodes
    PROVE  Intact(disk, read[r].src, read[r].ver)
  <1>1. read[r].ver \in Versions
    BY DEF HealInv, ReadInv, ReadsAreOfRows, Readable
  <1>2. n \in read[r].bad /\ <<n, read[r].ver>> \in rotted
    BY DEF HealInv, RepairsOrdered
  <1>3. read[r].src # n
    BY <1>2 DEF HealInv, RepairsOrdered
  <1>4. <<read[r].src, read[r].ver>> \notin rotted
    BY <1>2, <1>3 DEF RotOnce
  <1>5. read[r].src \in objects[read[r].ver].replicas
    BY NoNodeAssumption DEF HealInv, RepairsOrdered
  <1>6. Held(read[r].src, read[r].ver)
    BY <1>1, <1>5 DEF HealInv, ReplicasHeld, Readable
  <1> QED BY <1>4, <1>6 DEF Held

LEMMA RequestHeal ==
    ASSUME HealInv, Faults \subseteq {"store"},
           NEW req \in requests, RequestAnswered(req), UNCHANGED read
    PROVE  HealInv'
  <1>0. /\ ReadInv /\ TypeOK /\ CopyTypeOK /\ UNCHANGED vars
        /\ requests' = requests \ {req}
        /\ copies' = IF HasFile(disk, req.src, req.ver)
                     THEN copies \cup {CopyOf(req)} ELSE copies
    BY DEF HealInv, ReadInv, Consistent, ReadTypeOK, RequestAnswered, Replicate,
           ReplicateRefused
  <1>1. ReadInv'
    BY <1>0, RequestReadInv
  <1>2. Digested'
    BY <1>0, RequestDigested DEF HealInv
  <1>3. UNCHANGED <<objects, disk, rotted, put>>
    BY <1>0 DEF vars
  <1>4. IsFiniteSet(rotted') /\ UploadsWhole' /\ ReplicasHeld'
    BY <1>3, SameHeld DEF HealInv, UploadsWhole, ReplicasHeld
  <1>5. \A r \in Reads : NoCopyFor(r) => NoCopyFor(r)'
    BY <1>0 DEF NoCopyFor, CopyOf
  <1>6. RepairsOrdered'
    BY <1>3, <1>5 DEF HealInv, RepairsOrdered, Readable
  <1>7. RepairsHeal'
    <2> SUFFICES ASSUME RotOnce, NEW r \in Reads, Readable(r),
                        NEW n \in read[r].sent
                 PROVE  Healing(r, n)'
      BY <1>3 DEF RepairsHeal, RotOnce, Readable
    <2>1. Healing(r, n)
      BY DEF HealInv, RepairsHeal
    <2>2. CASE req # Request(r, read[r].ver, read[r].src, n)
      BY <1>0, <1>3, <2>1, <2>2 DEF Healing, Intact
    <2>3. CASE req = Request(r, read[r].ver, read[r].src, n)
      <3>1. /\ req.by = r /\ req.ver = read[r].ver /\ req.src = read[r].src
            /\ req.dst = n
        BY <2>3 DEF Request
      <3>2. req.src \in Nodes /\ req.ver \in Versions
        BY <1>0 DEF CopyTypeOK, Requests
      <3>3. Intact(disk, req.src, req.ver)
        BY <3>1, <3>2, SourceIntact
      <3>4. HasFile(disk, req.src, req.ver)
        BY <3>2, <3>3, ContentAssumption DEF Intact, HasFile, Contents
      <3>5. CopyOf(req) \in copies'
        BY <1>0, <3>4
      <3>6. /\ CopyOf(req).by = r /\ CopyOf(req).ver = read[r].ver
            /\ CopyOf(req).dst = n
            /\ CopyOf(req).data = ContentOf[read[r].ver]
        BY <3>1, <3>3 DEF CopyOf, Intact
      <3> QED BY <3>5, <3>6 DEF Healing
    <2> QED BY <2>2, <2>3
  <1> QED BY <1>1, <1>2, <1>4, <1>6, <1>7 DEF HealInv

LEMMA CopyHeal ==
    ASSUME HealInv, Faults \subseteq {"store"}, NEW copy \in copies,
           CopyPut(copy) \/ CopyFailed(copy), UNCHANGED read
    PROVE  HealInv'
  <1>0. /\ ReadInv /\ TypeOK /\ CopyTypeOK /\ CopiesVerified
        /\ CopyPut(copy)
    BY DigestedVerifies
    DEF HealInv, ReadInv, Consistent, ReadTypeOK, CopyFailed, CopyPutNoSidecar,
        CopyRefused
  <1>1. ReadInv'
    BY <1>0, CopyReadInv
  <1>2. Digested'
    BY <1>0, CopyDigested DEF HealInv
  <1>3. /\ copies' = copies \ {copy}
        /\ UNCHANGED <<objects, rotted, put, requests>>
    BY <1>0, CopyFrame
  <1>4. IsFiniteSet(rotted') /\ UploadsWhole'
    BY <1>3 DEF HealInv, UploadsWhole
  <1>5. ASSUME NEW n \in Nodes, NEW v \in Versions, Held(n, v)
        PROVE  Held(n, v)'
    BY <1>0, <1>5, CopyKeepsHeld DEF CopiesVerified
  <1>6. ReplicasHeld'
    <2>1. \A v \in Versions : objects[v].replicas \subseteq Nodes
      BY <1>0 DEF TypeOK, Row
    <2> QED BY <1>3, <1>5, <2>1 DEF HealInv, ReplicasHeld
  <1>7. RepairsOrdered'
    BY <1>3 DEF HealInv, RepairsOrdered, Readable, NoCopyFor
  <1>8. RepairsHeal'
    <2> SUFFICES ASSUME RotOnce, NEW r \in Reads, Readable(r),
                        NEW n \in read[r].sent
                 PROVE  Healing(r, n)'
      BY <1>3 DEF RepairsHeal, RotOnce, Readable
    <2>1. PICK v \in Versions : v = read[r].ver
      BY <1>0 DEF ReadInv, ReadsAreOfRows, Readable
    <2>2. Healing(r, n) /\ n \in Nodes
      BY <1>0 DEF HealInv, RepairsHeal, ReadInv, ReadTypeOK, Read
    <2>3. CASE Intact(disk, n, v)
      <3>1. disk'[n][v] = disk[n][v] \/ FileCopied(copy, n, v)
        BY <1>0, <2>2, CopySteps
      <3>2. Intact(disk', n, v)
        BY <1>0, <2>3, <3>1 DEF FileCopied, CopiesVerified, Intact
      <3> QED BY <2>1, <3>2 DEF Healing, Intact
    <2>4. CASE Request(r, v, read[r].src, n) \in requests
      BY <1>3, <2>1, <2>4 DEF Healing
    <2>5. ASSUME NEW c \in copies, c.by = r, c.ver = v, c.dst = n,
                 c.data = ContentOf[v]
          PROVE  Healing(r, n)'
      <3>1. CASE c # copy
        BY <1>3, <2>1, <2>5, <3>1 DEF Healing
      <3>2. CASE c = copy
        <4>1. Accepts(copy.data, copy.sum)
          BY <2>5, <3>2 DEF HealInv, Digested, Accepts
        <4>2. disk' = [disk EXCEPT ![n][v] =
                          [data |-> ContentOf[v], sum |-> ContentOf[v]]]
          BY <1>0, <2>5, <3>2, <4>1 DEF CopyPut, WriteBlob
        <4>3. Intact(disk', n, v)
          BY <1>0, <2>2, <4>2 DEF TypeOK, Intact
        <4> QED BY <2>1, <4>3 DEF Healing, Intact
      <3> QED BY <3>1, <3>2
    <2> QED BY <2>1, <2>2, <2>3, <2>4, <2>5 DEF Healing
  <1> QED BY <1>1, <1>2, <1>4, <1>6, <1>7, <1>8 DEF HealInv

LEMMA NextHealInv ==
    ASSUME HealInv, Faults \subseteq {"store"}, AllAnswer, [ReadNext]_allVars
    PROVE  HealInv'
  <1>1. ASSUME [Next]_vars, UNCHANGED <<copyVars, read>> PROVE HealInv'
    <2>1. \A r \in Reads : ReadKept(r)
      BY <1>1 DEF ReadKept
    <2> QED BY <1>1, <2>1, WriteHealInv DEF HealInv, ReadInv, ReadTypeOK
  <1>2. CASE UNCHANGED allVars
    BY <1>1, <1>2 DEF allVars
  <1>3. CASE WriteNext /\ UNCHANGED <<copyVars, read>>
    BY <1>1, <1>3 DEF Next
  <1>4. CASE ReadStep
    <2>1. \A r \in Reads, n \in Nodes :
              ~ ReadUnreachable(r, n) /\ ~ RepairSkip(r, n)
      BY DEF ReadUnreachable, RepairSkip, AllAnswer, MayNotAnswer
    <2>2. ASSUME NEW r \in Reads PROVE ~ RepairNothing(r)
      <3>1. read[r].src \in Nodes \/ read[r].src = NoNode
        BY DEF HealInv, ReadInv, ReadTypeOK, Read
      <3> QED BY <3>1 DEF RepairNothing, AllAnswer, MayNotAnswer
    <2> QED
      BY <1>4, <2>1, <2>2, ReadStartHeal, ReadReplicaHeal, RepairSendHeal,
         ReadUnrecoverableHeal, ReadServeHeal, RepairStoreErrorHeal,
         RepairFinishHeal
      DEF ReadStep, ReadAdvance, ReadFinish
  <1>5. CASE CopyStep
    BY <1>5, RequestHeal, CopyHeal DEF CopyStep
  <1>6. CASE CrashAll
    <2>1. [Next]_vars /\ UNCHANGED copyVars
      BY <1>6 DEF CrashAll, Next
    <2> QED BY <1>6, <2>1, CrashKeeps, WriteHealInv DEF HealInv
  <1> QED BY <1>2, <1>3, <1>4, <1>5, <1>6 DEF ReadNext

(* A full read that was served has healed every replica it found bad, when *)
(* the nodes answer and rot strikes once, however many reads repair the    *)
(* object at a time.                                                       *)
THEOREM Healed ==
    ASSUME Faults \subseteq {"store"}, AllAnswer
    PROVE  ReadSpec => []ServedReadHeals
  <1>1. HealInv => ServedReadHeals
    <2> SUFFICES ASSUME HealInv, NEW r \in Reads,
                        read[r].pc = "served",
                        objects[read[r].ver].state = "COMMITTED",
                        Cardinality(rotted) <= 1, NEW n \in read[r].bad
                 PROVE  Intact(disk, n, read[r].ver)
      BY DEF ServedReadHeals
    <2>1. RotOnce
      <3>1. IsFiniteSet(rotted)
        BY DEF HealInv
      <3> SUFFICES ASSUME NEW x \in rotted, NEW y \in rotted, x # y
                   PROVE  FALSE
        BY DEF RotOnce
      <3>2. {x, y} \subseteq rotted /\ Cardinality({x, y}) = 2
        <4>1. IsFiniteSet({x}) /\ Cardinality({x}) = 1
          BY FS_Singleton
        <4>2. Cardinality({x} \cup {y}) = Cardinality({x}) + 1
          BY <4>1, FS_AddElement
        <4>3. {x} \cup {y} = {x, y}
          OBVIOUS
        <4> QED BY <4>1, <4>2, <4>3
      <3>3. Cardinality({x, y}) <= Cardinality(rotted)
        BY <3>1, <3>2, FS_Subset
      <3> QED BY <3>1, <3>2, <3>3, FS_CardinalityType
    <2>2. n \in read[r].sent /\ NoCopyFor(r) /\ Readable(r)
      BY DEF HealInv, RepairsOrdered, Readable
    <2>3. Healing(r, n)
      BY <2>1, <2>2 DEF HealInv, RepairsHeal
    <2> QED BY <2>2, <2>3 DEF Healing, NoCopyFor, Request
  <1> QED BY <1>1, InitHealInv, NextHealInv, PTL DEF ReadSpec
=============================================================================
