--------------------------- MODULE PairNode_proofs ---------------------------
(* Proofs about the node agent: NodeInv is inductive, and what follows.     *)
EXTENDS PairNode, TLAPS

(* Moving a process to a step keeps the steps well typed.                   *)
LEMMA GotoType ==
  ASSUME NEW n \in Nodes, NEW c \in Calls, NEW s \in Steps,
         op \in [Nodes -> [Calls -> Steps]], Goto(n, c, s)
  PROVE  op' \in [Nodes -> [Calls -> Steps]]
BY DEF Goto

(* The type invariant alone is inductive.                                   *)
LEMMA TypeStep ==
  ASSUME NodeTypeOK, [NodeNext]_nodeVars
  PROVE  NodeTypeOK'
<1> USE CallAssumption DEF NodeTypeOK, Steps, Replies, InFlight, BoxStates, RunFiles,
        Up, Kinds, Commanding, At, Goto, Absent, Exclusive, Issue, Served, Acked, Fail
<1>1. CASE UNCHANGED nodeVars
  BY <1>1 DEF nodeVars
<1>2. ASSUME NEW n \in Nodes, HostStep(n)
      PROVE  NodeTypeOK'
  <2>1. CASE WorkerExits(n)
    BY <2>1 DEF WorkerExits
  <2>2. CASE WorkerSickens(n)
    BY <2>2 DEF WorkerSickens
  <2>3. CASE ForeignRestart(n)
    BY <2>3 DEF ForeignRestart
  <2>4. CASE RamDrops(n)
    BY <2>4 DEF RamDrops
  <2>5. CASE RamRecovers(n)
    BY <2>5 DEF RamRecovers
  <2> QED
    BY <1>2, <2>1, <2>2, <2>3, <2>4, <2>5 DEF HostStep
<1>3. ASSUME NEW n \in Nodes, NEW c \in Calls, AgentStep(n, c)
      PROVE  NodeTypeOK'
  <2>1. CASE CreateAdmit(n, c)
    BY <2>1 DEF CreateAdmit
  <2>2. CASE CreateRequest(n, c)
    BY <2>2 DEF CreateRequest
  <2>3. CASE CreateAttempt(n, c)
    BY <2>3 DEF CreateAttempt
  <2>4. CASE CreateRecord(n, c)
    BY <2>4 DEF CreateRecord
  <2>5. CASE RecoverKnown(n, c)
    BY <2>5 DEF RecoverKnown
  <2>6. CASE RecoverFind(n, c)
    BY <2>6 DEF RecoverFind
  <2>7. CASE RecoverRecord(n, c)
    BY <2>7 DEF RecoverRecord
  <2>8. CASE StartCheck(n, c)
    BY <2>8 DEF StartCheck
  <2>9. CASE StartCommit(n, c)
    BY <2>9 DEF StartCommit
  <2>10. CASE StartReply(n, c)
    BY <2>10 DEF StartReply
  <2>11. CASE StopInspect(n, c)
    <3>1. /\ c \in Commanding
          /\ Goto(n, c, "issued") \/ Goto(n, c, "acked")
          /\ \/ cli' = [cli EXCEPT ![n] = @ \cup {c}]
             \/ cli' = cli
          /\ UNCHANGED <<files, box, boot, ram, starts>>
      BY <2>11 DEF StopInspect
    <3>2. op' \in [Nodes -> [Calls -> Steps]]
      <4>1. "issued" \in Steps /\ "acked" \in Steps
        OBVIOUS
      <4> HIDE DEF Goto, Steps
      <4> QED
        BY <3>1, <4>1, GotoType
    <3>3. cli' \in [Nodes -> SUBSET Commanding]
      BY <3>1
    <3> QED
      BY <3>1, <3>2, <3>3
  <2>12. CASE StopConfirm(n, c)
    BY <2>12 DEF StopConfirm
  <2> QED
    BY <1>3, <2>1, <2>2, <2>3, <2>4, <2>5, <2>6, <2>7, <2>8, <2>9, <2>10, <2>11, <2>12 DEF AgentStep
<1>4. ASSUME NEW n \in Nodes, NEW c \in Calls, DockerStep(n, c)
      PROVE  NodeTypeOK'
  <2>1. CASE DockerCreates(n, c)
    BY <2>1 DEF DockerCreates
  <2>2. CASE DockerStarts(n, c)
    BY <2>2 DEF DockerStarts
  <2>3. CASE DockerStops(n, c)
    BY <2>3 DEF DockerStops
  <2>4. CASE DockerRefuses(n, c)
    BY <2>4 DEF DockerRefuses
  <2> QED
    BY <1>4, <2>1, <2>2, <2>3, <2>4 DEF DockerStep
<1>5. ASSUME NEW n \in Nodes, NEW c \in Calls,
             \/ Call(n, c) \/ Return(n, c)
             \/ AgentFails(n, c) \/ CommandTimeout(n, c) \/ AgentKilled(n, c)
      PROVE  NodeTypeOK'
  <2>1. CASE Call(n, c)
    BY <2>1 DEF Call
  <2>2. CASE Return(n, c)
    BY <2>2 DEF Return
  <2>3. CASE AgentFails(n, c)
    BY <2>3 DEF AgentFails
  <2>4. CASE CommandTimeout(n, c)
    BY <2>4 DEF CommandTimeout
  <2>5. CASE AgentKilled(n, c)
    BY <2>5 DEF AgentKilled
  <2> QED
    BY <1>5, <2>1, <2>2, <2>3, <2>4, <2>5
<1> QED
  BY <1>1, <1>2, <1>3, <1>4, <1>5 DEF NodeNext

(* A container that exited stays exited: the one docker start has been      *)
(* served by then.                                                          *)
LEMMA ExitedStep ==
  ASSUME NodeInv, [NodeNext]_nodeVars, NEW m \in Nodes, box[m] = "exited"
  PROVE  box'[m] = "exited"
<1> USE DEF NodeInv, NodeTypeOK, Up
<1>1. CASE UNCHANGED nodeVars
  BY <1>1 DEF nodeVars
<1>2. ASSUME NEW n \in Nodes, HostStep(n)
      PROVE  box'[m] = "exited"
  BY <1>2 DEF HostStep, WorkerExits, WorkerSickens, ForeignRestart, RamDrops, RamRecovers
<1>3. ASSUME NEW n \in Nodes, NEW c \in Calls, DockerStep(n, c)
      PROVE  box'[m] = "exited"
  <2>1. CASE DockerStarts(n, c)
    \* Its command would be in flight, and the container not yet started.
    BY <2>1 DEF DockerStarts, Knows
  <2> QED
    BY <1>3, <2>1 DEF DockerStep, DockerCreates, DockerStops, DockerRefuses
<1>4. ASSUME NEW n \in Nodes, NEW c \in Calls, AgentStep(n, c)
      PROVE  box' = box
  BY <1>4 DEF AgentStep, CreateAdmit, CreateRequest, CreateAttempt, CreateRecord,
     RecoverKnown, RecoverFind, RecoverRecord, StartCheck, StartCommit, StartReply,
     StopInspect, StopConfirm
<1>5. ASSUME NEW n \in Nodes, NEW c \in Calls,
             \/ Call(n, c) \/ Return(n, c)
             \/ AgentFails(n, c) \/ CommandTimeout(n, c) \/ AgentKilled(n, c)
      PROVE  box' = box
  BY <1>5 DEF Call, Return, AgentFails, Fail, CommandTimeout, AgentKilled
<1> QED
  BY <1>1, <1>2, <1>3, <1>4, <1>5 DEF NodeNext

(* The initial state: no file, no container, no process.                    *)
LEMMA InvInit == NodeInit => NodeInv
  BY CallAssumption DEF NodeInit, NodeInv, NodeTypeOK, Evidence, Knows, OneStart, At,
     Steps, BoxStates, RunFiles, Up, Replies

(* A step of one process leaves the others where they are.                  *)
LEMMA OneMoves ==
  ASSUME NodeTypeOK, NEW n \in Nodes, NEW c \in Calls,
         NEW s, op' = [op EXCEPT ![n][c] = s]
  PROVE  \A m \in Nodes, d \in Calls : op'[m][d] = op[m][d] \/ d = c
BY DEF NodeTypeOK

(* Where only a stop process has moved, every process knows what it knew.    *)
LEMMA StopKnowsNothing ==
  ASSUME NEW m, NEW d, NEW c, Kind[c] = "stop", Knows(m, d),
         op'[m][d] = op[m][d] \/ d = c,
         d \in cli'[m] => d \in cli[m] \/ d = c,
         files'[m] = files[m], box'[m] = box[m]
  PROVE  Knows(m, d)'
BY DEF Knows, At

(* The inspection of a stop action, with or without its docker command.     *)
LEMMA StopInspectKeeps ==
  ASSUME NodeInv, NEW n \in Nodes, NEW c \in Calls, StopInspect(n, c),
         NEW m \in Nodes
  PROVE  Evidence(m)' /\ OneStart(m)' /\ \A d \in Calls : Knows(m, d)'
<1>1. Kind[c] = "stop" /\ UNCHANGED <<files, box, starts>>
  BY DEF StopInspect, At
<1>2. \A d \in Calls : op'[m][d] = op[m][d] \/ d = c
  BY OneMoves DEF StopInspect, Goto, NodeInv
<1>3. \A d : d \in cli'[m] => d \in cli[m] \/ d = c
  BY DEF StopInspect, Issue, NodeInv, NodeTypeOK
<1>4. Evidence(m)'
  BY <1>1 DEF NodeInv, Evidence
<1>5. OneStart(m)'
  BY <1>1, <1>3 DEF NodeInv, OneStart
<1>6. ASSUME NEW d \in Calls
      PROVE  Knows(m, d)'
  <2>1. Knows(m, d)
    BY DEF NodeInv
  <2> QED
    BY <1>1, <1>2, <1>3, <2>1, StopKnowsNothing
<1> QED
  BY <1>4, <1>5, <1>6

(* Every step keeps the evidence, what the processes know of it and the one *)
(* start, on every node.                                                    *)
LEMMA InvStep ==
  ASSUME NodeInv, [NodeNext]_nodeVars
  PROVE  NodeInv'
<1> DEFINE Facts(m) == Evidence(m) /\ OneStart(m) /\ \A d \in Calls : Knows(m, d)
<1>1. NodeTypeOK /\ NodeTypeOK'
  BY TypeStep DEF NodeInv
<1>2. ASSUME NEW m \in Nodes
      PROVE  Facts(m)'
  <2> USE <1>1 DEF Evidence, OneStart, Knows, NodeInv, NodeTypeOK, Commanding, Up,
          At, Goto, Absent, Exclusive, Issue, Served, Acked, Fail
  <2>1. CASE UNCHANGED nodeVars
    BY <2>1 DEF nodeVars
  <2>2. ASSUME NEW n \in Nodes, HostStep(n)
        PROVE  Facts(m)'
    <3>1. CASE WorkerExits(n)
      BY <3>1 DEF WorkerExits
    <3>2. CASE WorkerSickens(n)
      BY <3>2 DEF WorkerSickens
    <3>3. CASE ForeignRestart(n)
      BY <3>3 DEF ForeignRestart
    <3>4. CASE RamDrops(n) \/ RamRecovers(n)
      BY <3>4 DEF RamDrops, RamRecovers
    <3> QED
      BY <2>2, <3>1, <3>2, <3>3, <3>4 DEF HostStep
  <2>3. ASSUME NEW n \in Nodes, NEW c \in Calls, AgentStep(n, c)
        PROVE  Facts(m)'
    <3>1. CASE CreateAdmit(n, c)
      BY <3>1 DEF CreateAdmit
    <3>2. CASE CreateRequest(n, c)
      BY <3>2 DEF CreateRequest
    <3>3. CASE CreateAttempt(n, c)
      BY <3>3 DEF CreateAttempt
    <3>4. CASE CreateRecord(n, c)
      BY <3>4 DEF CreateRecord
    <3>5. CASE RecoverKnown(n, c)
      BY <3>5 DEF RecoverKnown
    <3>6. CASE RecoverFind(n, c)
      BY <3>6 DEF RecoverFind
    <3>7. CASE RecoverRecord(n, c)
      BY <3>7 DEF RecoverRecord
    <3>8. CASE StartCheck(n, c)
      BY <3>8 DEF StartCheck
    <3>9. CASE StartCommit(n, c)
      \* The file is new, so no start command was in flight.
      <4>1. Evidence(m)'
        BY <3>9 DEF StartCommit
      <4>2. OneStart(m)'
        <5>1. starts'[m] = IF "start-attempt" \in files'[m] THEN 1 ELSE 0
          BY <3>9 DEF StartCommit
        <5>2. \A d \in cli'[m] : d \in cli[m] \/ (m = n /\ d = c)
          BY <3>9 DEF StartCommit
        <5>3. m = n => \A d \in cli[m] : Kind[d] # "start"
          BY <3>9 DEF StartCommit
        <5> QED
          BY <5>1, <5>2, <5>3
      <4>3. ASSUME NEW d \in Calls
            PROVE  Knows(m, d)'
        <5>1. box[n] = "created"
          BY <3>9 DEF StartCommit, BoxStates
        <5> QED
          BY <3>9, <5>1 DEF StartCommit
      <4> QED
        BY <4>1, <4>2, <4>3
    <3>10. CASE StartReply(n, c)
      BY <3>10 DEF StartReply
    <3>11. CASE StopInspect(n, c)
      <4> HIDE DEF Evidence, OneStart, Knows, NodeInv
      <4> QED
        BY <3>11, StopInspectKeeps
    <3>12. CASE StopConfirm(n, c)
      BY <3>12 DEF StopConfirm
    <3> QED
      BY <2>3, <3>1, <3>2, <3>3, <3>4, <3>5, <3>6, <3>7, <3>8, <3>9, <3>10, <3>11, <3>12 DEF AgentStep
  <2>4. ASSUME NEW n \in Nodes, NEW c \in Calls, DockerStep(n, c)
        PROVE  Facts(m)'
    <3>1. CASE DockerCreates(n, c)
      BY <3>1 DEF DockerCreates
    <3>2. CASE DockerStarts(n, c)
      BY <3>2 DEF DockerStarts
    <3>3. CASE DockerStops(n, c)
      BY <3>3 DEF DockerStops
    <3>4. CASE DockerRefuses(n, c)
      BY <3>4 DEF DockerRefuses
    <3> QED
      BY <2>4, <3>1, <3>2, <3>3, <3>4 DEF DockerStep
  <2>5. ASSUME NEW n \in Nodes, NEW c \in Calls,
               \/ Call(n, c) \/ Return(n, c)
               \/ AgentFails(n, c) \/ CommandTimeout(n, c) \/ AgentKilled(n, c)
        PROVE  Facts(m)'
    <3>1. CASE Call(n, c) \/ Return(n, c)
      BY <3>1 DEF Call, Return
    <3>2. CASE AgentFails(n, c) \/ CommandTimeout(n, c)
      BY <3>2 DEF AgentFails, CommandTimeout
    <3>3. CASE AgentKilled(n, c)
      BY <3>3 DEF AgentKilled
    <3> QED
      BY <2>5, <3>1, <3>2, <3>3
  <2> QED
    BY <2>1, <2>2, <2>3, <2>4, <2>5 DEF NodeNext
<1> QED
  BY <1>1, <1>2 DEF NodeInv

(* NodeInv holds of every behaviour, for every set of nodes, of calls and   *)
(* whatever each of them does.                                              *)
THEOREM NodeInvariant == NodeSpec => []NodeInv
<1>1. NodeInit => NodeInv
  BY InvInit
<1>2. NodeInv /\ [NodeNext]_nodeVars => NodeInv'
  BY InvStep
<1> QED
  BY <1>1, <1>2, PTL DEF NodeSpec

(* The type invariant; in particular the recovery of a lost create reply    *)
(* never has a docker command in flight.                                    *)
THEOREM NodeTypeCorrect == NodeSpec => []NodeTypeOK
<1>1. NodeInv => NodeTypeOK
  BY DEF NodeInv
<1> QED
  BY <1>1, NodeInvariant, PTL

(* docker start is issued at most once, however many start actions race.    *)
THEOREM StartsOnce == NodeSpec => []StartOnce
<1>1. NodeInv => StartOnce
  BY DEF NodeInv, OneStart, StartOnce
<1> QED
  BY <1>1, NodeInvariant, PTL

(* created.json names a container that exists.                              *)
THEOREM CreatedRecordsAreReal == NodeSpec => []CreatedIsReal
<1>1. NodeInv => CreatedIsReal
  BY DEF NodeInv, Evidence, CreatedIsReal
<1> QED
  BY <1>1, NodeInvariant, PTL

(* The write-ahead files precede the container and its start.               *)
THEOREM EvidencePrecedesEffect == NodeSpec => []EvidenceBeforeEffect
<1>1. NodeInv => EvidenceBeforeEffect
  BY DEF NodeInv, Evidence, EvidenceBeforeEffect, Up
<1> QED
  BY <1>1, NodeInvariant, PTL

(* Nothing the agent issues starts an exited container.                     *)
THEOREM ExitedStaysExited == NodeSpec => NeverRevives
<1>1. NodeInv /\ [NodeNext]_nodeVars
        => [\A n \in Nodes : box[n] = "exited" => box'[n] = "exited"]_nodeVars
  BY ExitedStep
<1> QED
  BY <1>1, NodeInvariant, PTL DEF NodeSpec, NeverRevives
=============================================================================
