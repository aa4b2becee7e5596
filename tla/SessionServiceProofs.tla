------------------------- MODULE SessionServiceProofs -------------------------
(* The invariants of the session aggregate for every blueprint, every number *)
(* of attempts and gates, and every order of the calls; and what the trace of *)
(* the calls tells of it, whatever overlaps and is cut.                      *)
EXTENDS SessionEvents, FiniteSetTheorems, SequenceTheorems, TLAPS

(* The executions and the decisions of a session are tables indexed by node  *)
(* and number.                                                               *)
Table(I, S) == [Nodes -> [I -> S]]

(* The properties are inductive together: what an execution's status says of *)
(* its node needs the node's legal moves, and these need the numbering.      *)
ServiceInv ==
  /\ ServiceTypeOK
  /\ LeasedIsRunning
  /\ OneSuccess
  /\ FailureIsFinal
  /\ DecisionsBind

USE BoundsAssumption

(* A node leaves COMPLETED and FAILED by no call within a plan; a workflow      *)
(* revision takes back a COMPLETED one (RevisionInv).                         *)
LEMMA NodeMoves ==
  ASSUME NEW n \in Nodes, NEW s \in NodeStatus \ {"STALE"}, CanMoveNode(n, s)
  PROVE  /\ node[n] \notin {"COMPLETED", "FAILED"}
         /\ node[n] = "APPROVED" => s = "COMPLETED"
         /\ s = "COMPLETED" => node[n] \in {"RUNNING", "APPROVED"}
  BY DEF CanMoveNode, NodeTransitions, NodeStatus

LEMMA ServiceInitInv == ServiceInit => ServiceInv
<1> SUFFICES ASSUME ServiceInit PROVE ServiceInv
  OBVIOUS
<1>1. ServiceTypeOK
  <2>1. 0 \in 0..MaxAttempts /\ 0 \in 0..MaxGates /\ \A i \in AttemptNos : i > 0
    BY DEF AttemptNos
  <2>2. QED
    BY <2>1 DEF ServiceInit, ServiceTypeOK, SessionStatus, NodeStatus, LeaseState
<1>2. QED
  BY <1>1 DEF ServiceInit, ServiceInv, LeasedIsRunning, OneSuccess, FailureIsFinal, DecisionsBind

LEMMA MarkSessionInv ==
  ASSUME ServiceInv, NEW s \in SessionStatus, MarkSession(s)
  PROVE  ServiceInv'
<1>1. ServiceTypeOK'
  BY DEF MarkSession, ServiceInv, ServiceTypeOK, NoLease, LeaseState
<1>2. LeasedIsRunning'
  BY DEF MarkSession, ServiceInv, LeasedIsRunning, NoLease
<1>3. QED
  BY <1>1, <1>2 DEF MarkSession, ServiceInv, OneSuccess, FailureIsFinal, DecisionsBind

(* Ending the running execution of a node changes that execution only, and   *)
(* clears its lease.                                                         *)
LEMMA EndRunning ==
  ASSUME ServiceTypeOK, NEW n \in Nodes, NEW s \in {"SUCCEEDED", "FAILED", "ABORTED"},
         EndRunningAttempt(n, s)
  PROVE  /\ attempt' \in Table(AttemptNos, AttemptStatus \cup {"NONE"})
         /\ lease' \in Table(AttemptNos, LeaseState)
         /\ \A m \in Nodes : \A i \in AttemptNos :
              \/ attempt'[m][i] = attempt[m][i] /\ lease'[m][i] = lease[m][i]
              \/ /\ m = n /\ i = count[n] /\ attempt[m][i] = "RUNNING"
                 /\ attempt'[m][i] = s /\ lease'[m][i] = "none"
<1>1. /\ attempt \in Table(AttemptNos, AttemptStatus \cup {"NONE"})
      /\ lease \in Table(AttemptNos, LeaseState)
      /\ count[n] \in 0..MaxAttempts
  BY DEF ServiceTypeOK, Table
<1>2. CASE LatestRuns(n)
  <2>1. /\ count[n] \in AttemptNos /\ attempt[n][count[n]] = "RUNNING"
        /\ attempt' = [attempt EXCEPT ![n][count[n]] = s]
        /\ lease' = [lease EXCEPT ![n][count[n]] = "none"]
    BY <1>1, <1>2 DEF LatestRuns, AttemptNos, EndRunningAttempt
  <2>2. s \in AttemptStatus \cup {"NONE"} /\ "none" \in LeaseState
    BY DEF AttemptStatus, LeaseState
  <2>3. QED
    BY <1>1, <2>1, <2>2 DEF Table
<1>3. CASE ~LatestRuns(n)
  BY <1>1, <1>3 DEF EndRunningAttempt
<1>4. QED
  BY <1>2, <1>3

(* Appending an execution leaves the executions before it alone.             *)
LEMMA AppendFresh ==
  ASSUME ServiceTypeOK, NEW n \in Nodes, AppendAttempt(n)
  PROVE  /\ count' = [count EXCEPT ![n] = @ + 1]
         /\ count' \in [Nodes -> 0..MaxAttempts]
         /\ attempt' \in Table(AttemptNos, AttemptStatus \cup {"NONE"})
         /\ \A m \in Nodes : \A i \in AttemptNos :
              \/ attempt'[m][i] = attempt[m][i] /\ (m # n \/ i # count[n] + 1)
              \/ /\ m = n /\ i = count[n] + 1
                 /\ attempt[m][i] = "NONE" /\ attempt'[m][i] = "RUNNING"
<1>1. /\ attempt \in Table(AttemptNos, AttemptStatus \cup {"NONE"})
      /\ count[n] \in Nat /\ count[n] + 1 \in AttemptNos
      /\ count[n] + 1 \in 0..MaxAttempts
  BY DEF ServiceTypeOK, Table, AppendAttempt, CanAppendAttempt, AttemptNos
<1>2. attempt[n][count[n] + 1] = "NONE"
  BY <1>1 DEF ServiceTypeOK
<1>3. "RUNNING" \in AttemptStatus \cup {"NONE"}
  BY DEF AttemptStatus
<1>4. attempt' = [attempt EXCEPT ![n][count[n] + 1] = "RUNNING"]
  BY DEF AppendAttempt
<1>5. QED
  BY <1>1, <1>2, <1>3, <1>4 DEF AppendAttempt, ServiceTypeOK, Table

------------------------------------------------------------------------------
(* One lemma per kind of call *)

LEMMA MoveNodeInv ==
  ASSUME ServiceInv, NEW n \in Nodes,
         NEW s \in {"RUNNING", "PENDING_GATE", "APPROVED", "NEEDS_REVISION"},
         MoveNode(n, s)
  PROVE  ServiceInv'
<1>1. /\ node' = [node EXCEPT ![n] = s] /\ s \in NodeStatus
      /\ node[n] \notin {"COMPLETED", "FAILED", "APPROVED"}
      /\ UNCHANGED <<session, count, attempt, lease, gates, decision, noted, redone, revoked>>
  BY NodeMoves DEF MoveNode, NodeStatus
<1>2. ServiceTypeOK'
  BY <1>1 DEF ServiceInv, ServiceTypeOK
<1>3. LeasedIsRunning' /\ OneSuccess' /\ FailureIsFinal' /\ DecisionsBind'
  BY <1>1 DEF ServiceInv, ServiceTypeOK, LeasedIsRunning, OneSuccess, FailureIsFinal,
              DecisionsBind
<1>4. QED
  BY <1>2, <1>3 DEF ServiceInv

(* complete_node, fail_node and requeue_node_for_retry: the node moves and   *)
(* its running execution ends with the matching status.                      *)
LEMMA EndNodeInv ==
  ASSUME ServiceInv, NEW n \in Nodes, NEW s \in {"COMPLETED", "FAILED", "QUEUED"},
         node' = [node EXCEPT ![n] = s],
         node[n] \notin {"COMPLETED", "FAILED"},
         node[n] = "APPROVED" => s = "COMPLETED",
         NEW t \in {"SUCCEEDED", "FAILED", "ABORTED"}, EndRunningAttempt(n, t),
         t = "SUCCEEDED" => s = "COMPLETED", t = "FAILED" => s = "FAILED",
         UNCHANGED <<session, count, gates, decision, noted, redone, revoked>>
  PROVE  ServiceInv'
<1>1. ServiceTypeOK
  BY DEF ServiceInv
<1>2. /\ attempt' \in Table(AttemptNos, AttemptStatus \cup {"NONE"})
      /\ lease' \in Table(AttemptNos, LeaseState)
  BY <1>1, EndRunning
<1>3. \A m \in Nodes : \A i \in AttemptNos :
        \/ attempt'[m][i] = attempt[m][i] /\ lease'[m][i] = lease[m][i]
        \/ /\ m = n /\ i = count[n] /\ attempt[m][i] = "RUNNING"
           /\ attempt'[m][i] = t /\ lease'[m][i] = "none"
  BY <1>1, EndRunning
<1>4. /\ node' \in [Nodes -> NodeStatus] /\ node'[n] = s
      /\ \A m \in Nodes : m # n => node'[m] = node[m]
  BY <1>1 DEF ServiceTypeOK, NodeStatus
<1>5. ServiceTypeOK'
  <2>1. \A m \in Nodes : \A i \in AttemptNos : attempt[m][i] = "NONE" <=> i > count[m]
    BY <1>1 DEF ServiceTypeOK
  <2>2. \A m \in Nodes : \A i \in AttemptNos : attempt'[m][i] = "NONE" <=> i > count'[m]
    BY <1>3, <2>1
  <2>3. QED
    BY <1>1, <1>2, <1>4, <2>2 DEF ServiceTypeOK, Table
<1>6. LeasedIsRunning'
  BY <1>3 DEF ServiceInv, LeasedIsRunning
<1>7. OneSuccess'
  BY <1>3, <1>4 DEF ServiceInv, OneSuccess
<1>8. FailureIsFinal'
  BY <1>3, <1>4 DEF ServiceInv, FailureIsFinal
<1>9. DecisionsBind'
  BY <1>4 DEF ServiceInv, DecisionsBind
<1>10. QED
  BY <1>5, <1>6, <1>7, <1>8, <1>9 DEF ServiceInv

LEMMA CompleteNodeInv ==
  ASSUME ServiceInv, NEW n \in Nodes, CompleteNode(n)
  PROVE  ServiceInv'
  BY EndNodeInv, NodeMoves DEF CompleteNode, NodeStatus

LEMMA FailNodeInv ==
  ASSUME ServiceInv, NEW n \in Nodes, FailNode(n)
  PROVE  ServiceInv'
  BY EndNodeInv, NodeMoves DEF FailNode, NodeStatus

LEMMA RequeueNodeInv ==
  ASSUME ServiceInv, NEW n \in Nodes, RequeueNode(n)
  PROVE  ServiceInv'
<1>1. node[n] \notin {"COMPLETED", "FAILED", "APPROVED"}
  BY NodeMoves DEF RequeueNode, CanRequeueNode, NodeStatus
<1>2. QED
  BY <1>1, EndNodeInv DEF RequeueNode

LEMMA AppendInv ==
  ASSUME ServiceInv, NEW n \in Nodes, AppendAttempt(n),
         UNCHANGED <<session, node, lease, gates, decision, noted, redone, revoked>>
  PROVE  ServiceInv'
<1>1. ServiceTypeOK
  BY DEF ServiceInv
<1>2. /\ count' = [count EXCEPT ![n] = @ + 1]
      /\ count' \in [Nodes -> 0..MaxAttempts]
      /\ attempt' \in Table(AttemptNos, AttemptStatus \cup {"NONE"})
  BY <1>1, AppendFresh
<1>3. \A m \in Nodes : \A i \in AttemptNos :
        \/ attempt'[m][i] = attempt[m][i] /\ (m # n \/ i # count[n] + 1)
        \/ /\ m = n /\ i = count[n] + 1
           /\ attempt[m][i] = "NONE" /\ attempt'[m][i] = "RUNNING"
  BY <1>1, AppendFresh
<1>4. ServiceTypeOK'
  <2>1. \A m \in Nodes : \A i \in AttemptNos : attempt'[m][i] = "NONE" <=> i > count'[m]
    <3>1. /\ \A m \in Nodes : count[m] \in Nat /\ count'[m] = IF m = n THEN count[m] + 1 ELSE count[m]
          /\ \A m \in Nodes : \A i \in AttemptNos :
               i \in Nat /\ (attempt[m][i] = "NONE" <=> i > count[m])
      BY <1>1, <1>2 DEF ServiceTypeOK, AttemptNos
    <3>2. QED
      BY <1>3, <3>1
  <2>2. QED
    BY <1>1, <1>2, <2>1 DEF ServiceTypeOK, Table
<1>5. LeasedIsRunning'
  BY <1>3 DEF ServiceInv, LeasedIsRunning
<1>6. OneSuccess' /\ FailureIsFinal'
  BY <1>3 DEF ServiceInv, OneSuccess, FailureIsFinal
<1>7. DecisionsBind'
  BY DEF ServiceInv, DecisionsBind
<1>8. QED
  BY <1>4, <1>5, <1>6, <1>7 DEF ServiceInv

(* A lease is granted or expires on a running execution, or is cleared.      *)
LEMMA LeaseInv ==
  ASSUME ServiceInv, NEW n \in Nodes, NEW i \in AttemptNos, NEW l \in LeaseState,
         attempt[n][i] = "RUNNING" \/ l = "none",
         lease' = [lease EXCEPT ![n][i] = l],
         UNCHANGED <<session, node, count, attempt, gates, decision, noted, redone, revoked>>
  PROVE  ServiceInv'
<1>1. lease \in Table(AttemptNos, LeaseState)
  BY DEF ServiceInv, ServiceTypeOK, Table
<1>2. /\ lease' \in Table(AttemptNos, LeaseState)
      /\ lease'[n][i] = l
      /\ \A m \in Nodes : \A j \in AttemptNos : m # n \/ j # i => lease'[m][j] = lease[m][j]
  BY <1>1 DEF Table
<1>3. ServiceTypeOK'
  BY <1>2 DEF ServiceInv, ServiceTypeOK, Table
<1>4. LeasedIsRunning'
  BY <1>2 DEF ServiceInv, LeasedIsRunning
<1>5. OneSuccess' /\ FailureIsFinal' /\ DecisionsBind'
  BY DEF ServiceInv, OneSuccess, FailureIsFinal, DecisionsBind
<1>6. QED
  BY <1>3, <1>4, <1>5 DEF ServiceInv

LEMMA RecoverExpiredInv ==
  ASSUME ServiceInv, RecoverExpired
  PROVE  ServiceInv'
<1> USE DEF ServiceInv, RecoverExpired
<1>1. \A n \in Nodes : Recoverable(n) =>
        /\ node[n] = "RUNNING" /\ count[n] \in AttemptNos
        /\ attempt[n][count[n]] = "RUNNING"
  BY DEF Recoverable, LatestRuns, ServiceTypeOK, AttemptNos
<1>2. ServiceTypeOK'
  <2>1. /\ node' \in [Nodes -> NodeStatus]
        /\ attempt' \in [Nodes -> [AttemptNos -> AttemptStatus \cup {"NONE"}]]
        /\ lease' \in [Nodes -> [AttemptNos -> LeaseState]]
    BY DEF ServiceTypeOK, NodeStatus, AttemptStatus, LeaseState
  <2>2. \A m \in Nodes : \A i \in AttemptNos : attempt'[m][i] = "NONE" <=> i > count'[m]
    BY <1>1 DEF ServiceTypeOK
  <2>3. QED
    BY <2>1, <2>2 DEF ServiceTypeOK
<1>3. LeasedIsRunning'
  BY DEF LeasedIsRunning
<1>4. OneSuccess'
  BY <1>1 DEF OneSuccess
<1>5. FailureIsFinal'
  BY <1>1 DEF FailureIsFinal
<1>6. DecisionsBind'
  BY <1>1 DEF DecisionsBind
<1>7. QED
  BY <1>2, <1>3, <1>4, <1>5, <1>6

LEMMA RecordGateInv ==
  ASSUME ServiceInv, NEW n \in Nodes, RecordGate(n)
  PROVE  ServiceInv'
<1> DEFINE Decision == DecisionAction \cup {"UNDECIDED", "NONE"}
<1>1. /\ gates[n] \in Nat /\ gates[n] + 1 \in GateNos /\ gates[n] + 1 \in 0..MaxGates
      /\ decision \in Table(GateNos, Decision)
  BY DEF ServiceInv, ServiceTypeOK, RecordGate, CanRecordGate, GateNos, Table
<1>2. /\ decision' \in Table(GateNos, Decision)
      /\ decision'[n][gates[n] + 1] = "UNDECIDED"
      /\ \A m \in Nodes : \A g \in GateNos :
           m # n \/ g # gates[n] + 1 => decision'[m][g] = decision[m][g]
  <2>1. decision' = [decision EXCEPT ![n][gates[n] + 1] = "UNDECIDED"]
    BY DEF RecordGate
  <2>2. "UNDECIDED" \in Decision
    OBVIOUS
  <2> HIDE DEF Decision
  <2>3. QED
    BY <1>1, <2>1, <2>2 DEF Table
<1>3. ServiceTypeOK'
  BY <1>1, <1>2 DEF ServiceInv, ServiceTypeOK, RecordGate, Table
<1>4. LeasedIsRunning' /\ OneSuccess' /\ FailureIsFinal'
  BY DEF ServiceInv, LeasedIsRunning, OneSuccess, FailureIsFinal, RecordGate
<1>5. DecisionsBind'
  BY <1>2 DEF ServiceInv, DecisionsBind, RecordGate
<1>6. QED
  BY <1>3, <1>4, <1>5 DEF ServiceInv

LEMMA ApplyGateDecisionInv ==
  ASSUME ServiceInv, NEW n \in Nodes, NEW g \in GateNos, NEW a \in DecisionAction,
         ApplyGateDecision(n, g, a)
  PROVE  ServiceInv'
<1> DEFINE Decision == DecisionAction \cup {"UNDECIDED", "NONE"}
           s == DecisionTarget(a)
<1>1. /\ s \in {"APPROVED", "NEEDS_REVISION", "FAILED"}
      /\ a = "APPROVE" => s = "APPROVED"
      /\ a = "REJECT" => s = "FAILED"
  BY DEF DecisionTarget, DecisionAction
<1>2. /\ node' = [node EXCEPT ![n] = s]
      /\ decision' = [decision EXCEPT ![n][g] = a]
      /\ revoked' = [revoked EXCEPT ![n] = @ \ {g}]
      /\ UNCHANGED <<session, count, attempt, lease, gates, noted, redone>>
      /\ CanMoveNode(n, s)
  BY DEF ApplyGateDecision
<1> HIDE DEF s
<1>3. node[n] \notin {"COMPLETED", "FAILED", "APPROVED"}
  BY <1>1, <1>2, NodeMoves DEF NodeStatus
<1>4. /\ decision' \in Table(GateNos, Decision)
      /\ decision'[n][g] = a
      /\ \A m \in Nodes : \A h \in GateNos :
           m # n \/ h # g => decision'[m][h] = decision[m][h]
  <2>1. decision \in Table(GateNos, Decision) /\ a \in Decision
    BY DEF ServiceInv, ServiceTypeOK, Table
  <2> HIDE DEF Decision
  <2>2. QED
    BY <1>2, <2>1 DEF Table
<1>5. ServiceTypeOK'
  <2>1. revoked' \in [Nodes -> SUBSET GateNos]
    BY <1>2 DEF ServiceInv, ServiceTypeOK
  <2>2. QED
    BY <1>1, <1>2, <1>4, <2>1 DEF ServiceInv, ServiceTypeOK, Table, NodeStatus
<1>6. LeasedIsRunning' /\ OneSuccess' /\ FailureIsFinal'
  BY <1>1, <1>2, <1>3 DEF ServiceInv, ServiceTypeOK, LeasedIsRunning, OneSuccess,
                          FailureIsFinal
<1>7. DecisionsBind'
  <2>1. \A m \in Nodes : \A h \in GateNos :
          (m # n \/ h # g) /\ h \in revoked[m] => h \in revoked'[m]
    BY <1>2 DEF ServiceInv, ServiceTypeOK
  <2>2. QED
    BY <1>1, <1>2, <1>3, <1>4, <2>1 DEF ServiceInv, ServiceTypeOK, DecisionsBind
<1>8. QED
  BY <1>5, <1>6, <1>7 DEF ServiceInv

------------------------------------------------------------------------------
LEMMA NodeCallInv ==
  ASSUME ServiceInv, NEW n \in Nodes, NodeCall(n)
  PROVE  ServiceInv'
<1>1. CASE \E s \in {"RUNNING", "PENDING_GATE", "APPROVED", "NEEDS_REVISION"} : MoveNode(n, s)
  BY <1>1, MoveNodeInv
<1>2. CASE CompleteNode(n)
  BY <1>2, CompleteNodeInv
<1>3. CASE FailNode(n)
  BY <1>3, FailNodeInv
<1>4. CASE RequeueNode(n)
  BY <1>4, RequeueNodeInv
<1>5. CASE StartAttempt(n)
  BY <1>5, AppendInv DEF StartAttempt
<1>6. CASE RecordGate(n)
  BY <1>6, RecordGateInv
<1>7. CASE \E g \in GateNos, a \in DecisionAction : ApplyGateDecision(n, g, a)
  BY <1>7, ApplyGateDecisionInv
<1>8. QED
  BY <1>1, <1>2, <1>3, <1>4, <1>5, <1>6, <1>7 DEF NodeCall

LEMMA ExecutionCallInv ==
  ASSUME ServiceInv, NEW n \in Nodes, NEW i \in 1..count[n], ExecutionCall(n, i)
  PROVE  ServiceInv'
<1>1. i \in AttemptNos /\ {"none", "live", "expired"} \subseteq LeaseState
  BY DEF ServiceInv, ServiceTypeOK, AttemptNos, LeaseState
<1>2. CASE ConsumeAgentReport(n, i)
  <2>1. CASE AppendAttempt(n)
    BY <1>2, <2>1, AppendInv DEF ConsumeAgentReport
  <2>2. CASE UNCHANGED <<count, attempt>>
    BY <1>2, <2>2 DEF ConsumeAgentReport, ServiceInv, ServiceTypeOK, LeasedIsRunning,
                      OneSuccess, FailureIsFinal, DecisionsBind
  <2>3. QED
    BY <1>2, <2>1, <2>2 DEF ConsumeAgentReport
<1>3. CASE GrantLease(n, i)
  BY <1>1, <1>3, LeaseInv DEF GrantLease, CanGrantLease
<1>4. CASE ReleaseLease(n, i)
  BY <1>1, <1>4, LeaseInv DEF ReleaseLease
<1>5. CASE ExpireLease(n, i)
  <2>1. attempt[n][i] = "RUNNING"
    BY <1>1, <1>5 DEF ExpireLease, ServiceInv, LeasedIsRunning
  <2>2. QED
    BY <1>1, <1>5, <2>1, LeaseInv DEF ExpireLease
<1>6. QED
  BY <1>2, <1>3, <1>4, <1>5 DEF ExecutionCall

LEMMA PlanCallInv ==
  ASSUME ServiceInv, PlanCall
  PROVE  ServiceInv'
<1>1. CASE \E s \in SessionStatus : MarkSession(s)
  BY <1>1, MarkSessionInv
<1>2. CASE NoteOutcome
  BY <1>2 DEF NoteOutcome, ServiceInv, ServiceTypeOK, LeasedIsRunning, OneSuccess,
              FailureIsFinal, DecisionsBind
<1>3. CASE RecoverExpired
  BY <1>3, RecoverExpiredInv
<1>4. CASE \E n \in Nodes : NodeCall(n)
  BY <1>4, NodeCallInv
<1>5. CASE \E n \in Nodes : \E i \in 1..count[n] : ExecutionCall(n, i)
  BY <1>5, ExecutionCallInv
<1>6. QED
  BY <1>1, <1>2, <1>3, <1>4, <1>5 DEF PlanCall

(* A revision takes back no node that failed, and what it takes back it records: *)
(* the node's successes and its approvals bind it no longer.                    *)
LEMMA RevisionInv ==
  ASSUME ServiceInv, NEW removed \in SUBSET Nodes, NEW requeued \in SUBSET Nodes,
         ApplyWorkflowRevision(removed, requeued)
  PROVE  ServiceInv'
<1> DEFINE B == TakenBack(removed, requeued)
<1>1. /\ \A n \in B : node[n] # "FAILED"
      /\ node' = [n \in Nodes |->
                    IF n \notin B THEN node[n] ELSE IF n \in removed THEN "STALE" ELSE "QUEUED"]
      /\ redone' = [n \in Nodes |-> IF n \notin B THEN redone[n]
                      ELSE redone[n] \cup {i \in AttemptNos : attempt[n][i] = "SUCCEEDED"}]
      /\ revoked' = [n \in Nodes |-> IF n \notin B THEN revoked[n]
                       ELSE revoked[n] \cup {g \in GateNos : decision[n][g] = "APPROVE"}]
      /\ UNCHANGED <<session, count, attempt, lease, gates, decision, noted>>
  BY DEF ApplyWorkflowRevision, CanRevise, TakenBack
<1> HIDE DEF B
<1>2. ServiceTypeOK'
  <2>1. /\ node' \in [Nodes -> NodeStatus]
        /\ redone' \in [Nodes -> SUBSET AttemptNos]
        /\ revoked' \in [Nodes -> SUBSET GateNos]
    BY <1>1 DEF ServiceInv, ServiceTypeOK, NodeStatus
  <2>2. QED
    BY <1>1, <2>1 DEF ServiceInv, ServiceTypeOK
<1>3. LeasedIsRunning'
  BY <1>1 DEF ServiceInv, LeasedIsRunning
<1>4. OneSuccess'
  BY <1>1 DEF ServiceInv, OneSuccess
<1>5. FailureIsFinal'
  BY <1>1 DEF ServiceInv, FailureIsFinal
<1>6. DecisionsBind'
  BY <1>1 DEF ServiceInv, DecisionsBind
<1>7. QED
  BY <1>2, <1>3, <1>4, <1>5, <1>6 DEF ServiceInv

LEMMA ServiceNextInv == ServiceInv /\ [ServiceNext]_serviceVars => ServiceInv'
<1> SUFFICES ASSUME ServiceInv, [ServiceNext]_serviceVars PROVE ServiceInv'
  OBVIOUS
<1>1. CASE PlanCall
  BY <1>1, PlanCallInv
<1>2. CASE RevisionCall
  BY <1>2, RevisionInv DEF RevisionCall
<1>3. CASE UNCHANGED serviceVars
  BY <1>3 DEF serviceVars, ServiceInv, ServiceTypeOK, LeasedIsRunning, OneSuccess,
              FailureIsFinal, DecisionsBind
<1>4. QED
  BY <1>1, <1>2, <1>3 DEF ServiceNext

LEMMA ServiceInvariant == ServiceSpec => []ServiceInv
  BY ServiceInitInv, ServiceNextInv, PTL DEF ServiceSpec

------------------------------------------------------------------------------
(* The session aggregate stays well formed under any calls, in any order.    *)
THEOREM ServiceTypeCorrect == ServiceSpec => []ServiceTypeOK
<1>1. ServiceInv => ServiceTypeOK
  BY DEF ServiceInv
<1>2. QED
  BY ServiceInvariant, <1>1, PTL

(* A lease authorises a running execution only.                              *)
THEOREM LeasesAreOfRunning == ServiceSpec => []LeasedIsRunning
<1>1. ServiceInv => LeasedIsRunning
  BY DEF ServiceInv
<1>2. QED
  BY ServiceInvariant, <1>1, PTL

(* No node succeeds twice unless a workflow revision has taken it back since   *)
(* the first success, and no failure is recorded on a node that goes on.       *)
THEOREM OutcomesAreUnique == ServiceSpec => [](OneSuccess /\ FailureIsFinal)
<1>1. ServiceInv => OneSuccess /\ FailureIsFinal
  BY DEF ServiceInv
<1>2. QED
  BY ServiceInvariant, <1>1, PTL

(* A recorded failure stays the outcome of its node: the node never runs,    *)
(* waits or succeeds after it (mark_node_failed, apply_workflow_revision).   *)
THEOREM FailuresAreFinal == ServiceSpec => []FailureIsFinal
<1>1. ServiceInv => FailureIsFinal
  BY DEF ServiceInv
<1>2. QED
  BY ServiceInvariant, <1>1, PTL

(* A rejection binds the node for good, and an approval until a workflow         *)
(* revision takes the node back, whatever is decided before and after on its    *)
(* other gates and whatever else is called.                                    *)
THEOREM DecisionsAreBinding == ServiceSpec => []DecisionsBind
<1>1. ServiceInv => DecisionsBind
  BY DEF ServiceInv
<1>2. QED
  BY ServiceInvariant, <1>1, PTL

(* What the entry of an ended execution is after a call.                     *)
EndedStay ==
  \A n \in Nodes : \A i \in AttemptNos :
    attempt[n][i] \in {"SUCCEEDED", "FAILED", "ABORTED"} =>
      attempt'[n][i] = attempt[n][i] /\ lease'[n][i] = "none"

(* A success is the first one of its node, or the first since a revision.      *)
NewSuccess ==
  \A n \in Nodes : \A i, j \in AttemptNos :
    attempt[n][i] # "SUCCEEDED" /\ attempt'[n][i] = "SUCCEEDED" /\ attempt[n][j] = "SUCCEEDED"
      => j \in redone[n]

(* A call on one node ends only its running execution, and appends only past *)
(* its latest one.                                                           *)
LEMMA NodeCallHistory ==
  ASSUME ServiceInv, NEW n \in Nodes, NodeCall(n)
  PROVE  /\ session' = session /\ EndedStay /\ NewSuccess
         /\ \A m \in Nodes : count[m] <= count'[m]
<1>1. /\ ServiceTypeOK
      /\ \A m \in Nodes : count[m] \in Nat
      /\ \A m \in Nodes : \A i \in AttemptNos :
           attempt[m][i] \in {"SUCCEEDED", "FAILED", "ABORTED"} => lease[m][i] = "none"
  BY DEF ServiceInv, ServiceTypeOK, LeasedIsRunning
<1>2. ASSUME UNCHANGED <<session, count, attempt, lease>>
      PROVE  /\ session' = session /\ EndedStay /\ NewSuccess
             /\ \A m \in Nodes : count[m] <= count'[m]
  BY <1>1, <1>2 DEF EndedStay, NewSuccess
<1>3. CASE \E s \in {"RUNNING", "PENDING_GATE", "APPROVED", "NEEDS_REVISION"} : MoveNode(n, s)
  BY <1>2, <1>3 DEF MoveNode
<1>4. CASE RecordGate(n)
  BY <1>2, <1>4 DEF RecordGate
<1>5. CASE \E g \in GateNos, a \in DecisionAction : ApplyGateDecision(n, g, a)
  BY <1>2, <1>5 DEF ApplyGateDecision
<1>6. ASSUME NEW s \in {"SUCCEEDED", "FAILED", "ABORTED"}, EndRunningAttempt(n, s),
             s = "SUCCEEDED" => node[n] # "COMPLETED",
             UNCHANGED <<session, count>>
      PROVE  /\ session' = session /\ EndedStay /\ NewSuccess
             /\ \A m \in Nodes : count[m] <= count'[m]
  <2>1. \A m \in Nodes : \A i \in AttemptNos :
          \/ attempt'[m][i] = attempt[m][i] /\ lease'[m][i] = lease[m][i]
          \/ attempt[m][i] = "RUNNING"
    BY <1>1, <1>6, EndRunning
  <2>2. NewSuccess
    <3>1. \A m \in Nodes : \A i \in AttemptNos :
            attempt'[m][i] = attempt[m][i] \/ (m = n /\ attempt'[m][i] = s)
      BY <1>1, <1>6, EndRunning
    <3>2. s = "SUCCEEDED" => \A j \in AttemptNos : attempt[n][j] = "SUCCEEDED" => j \in redone[n]
      BY <1>6 DEF ServiceInv, OneSuccess
    <3>3. QED
      BY <3>1, <3>2 DEF NewSuccess
  <2>3. QED
    BY <1>1, <1>6, <2>1, <2>2 DEF EndedStay
<1>7. CASE CompleteNode(n) \/ FailNode(n) \/ RequeueNode(n)
  <2>1. CompleteNode(n) => node[n] # "COMPLETED"
    BY NodeMoves DEF CompleteNode, NodeStatus
  <2>2. QED
    BY <1>6, <1>7, <2>1 DEF CompleteNode, FailNode, RequeueNode
<1>8. CASE StartAttempt(n)
  <2>1. AppendAttempt(n) /\ UNCHANGED <<session, lease>>
    BY <1>8 DEF StartAttempt
  <2>2. /\ count' = [count EXCEPT ![n] = @ + 1]
        /\ \A m \in Nodes : \A i \in AttemptNos :
             \/ attempt'[m][i] = attempt[m][i]
             \/ attempt[m][i] = "NONE" /\ attempt'[m][i] = "RUNNING"
    BY <1>1, <2>1, AppendFresh
  <2>3. EndedStay /\ NewSuccess
    BY <1>1, <2>1, <2>2 DEF EndedStay, NewSuccess
  <2>4. \A m \in Nodes : count[m] <= count'[m]
    BY <1>1, <2>2 DEF ServiceTypeOK
  <2>5. QED
    BY <2>1, <2>3, <2>4
<1>9. QED
  BY <1>3, <1>4, <1>5, <1>7, <1>8 DEF NodeCall

LEMMA ExecutionCallHistory ==
  ASSUME ServiceInv, NEW n \in Nodes, NEW i \in 1..count[n], ExecutionCall(n, i)
  PROVE  /\ session' = session /\ EndedStay /\ NewSuccess
         /\ \A m \in Nodes : count[m] <= count'[m]
<1>1. /\ ServiceTypeOK /\ i \in AttemptNos
      /\ \A m \in Nodes : count[m] \in Nat
      /\ \A m \in Nodes : \A j \in AttemptNos :
           attempt[m][j] \in {"SUCCEEDED", "FAILED", "ABORTED"} => lease[m][j] = "none"
  BY DEF ServiceInv, ServiceTypeOK, LeasedIsRunning, AttemptNos
<1>2. CASE ConsumeAgentReport(n, i)
  <2>1. CASE AppendAttempt(n)
    <3>1. /\ count' = [count EXCEPT ![n] = @ + 1]
          /\ \A m \in Nodes : \A j \in AttemptNos :
               \/ attempt'[m][j] = attempt[m][j]
               \/ attempt[m][j] = "NONE" /\ attempt'[m][j] = "RUNNING"
      BY <1>1, <2>1, AppendFresh
    <3>2. EndedStay /\ NewSuccess /\ session' = session
      BY <1>1, <1>2, <3>1 DEF EndedStay, NewSuccess, ConsumeAgentReport
    <3>3. \A m \in Nodes : count[m] <= count'[m]
      BY <1>1, <3>1 DEF ServiceTypeOK
    <3>4. QED
      BY <3>2, <3>3
  <2>2. CASE UNCHANGED <<count, attempt>>
    BY <1>1, <1>2, <2>2 DEF ConsumeAgentReport, EndedStay, NewSuccess
  <2>3. QED
    BY <1>2, <2>1, <2>2 DEF ConsumeAgentReport
<1>3. CASE GrantLease(n, i) \/ ReleaseLease(n, i) \/ ExpireLease(n, i)
  <2>1. /\ attempt[n][i] = "RUNNING"
        /\ UNCHANGED <<session, count, attempt>>
        /\ \E l \in LeaseState : lease' = [lease EXCEPT ![n][i] = l]
    BY <1>1, <1>3 DEF GrantLease, CanGrantLease, ReleaseLease, CanReleaseLease, ExpireLease,
                      ServiceInv, LeasedIsRunning, LeaseState
  <2>2. \A m \in Nodes : \A j \in AttemptNos :
          lease'[m][j] = lease[m][j] \/ (m = n /\ j = i)
    BY <1>1, <2>1 DEF ServiceTypeOK
  <2>3. QED
    BY <1>1, <2>1, <2>2 DEF EndedStay, NewSuccess
<1>4. QED
  BY <1>2, <1>3 DEF ExecutionCall

LEMMA CallHistory ==
  ASSUME ServiceInv, [ServiceNext]_serviceVars
  PROVE  HistoryFrozen
<1>1. /\ ServiceTypeOK
      /\ \A m \in Nodes : count[m] \in Nat
      /\ \A m \in Nodes : \A j \in AttemptNos :
           attempt[m][j] \in {"SUCCEEDED", "FAILED", "ABORTED"} => lease[m][j] = "none"
  BY DEF ServiceInv, ServiceTypeOK, LeasedIsRunning
<1>2. ASSUME NEW s \in SessionStatus, MarkSession(s) PROVE HistoryFrozen
  <2>1. session \notin TerminalSession
    BY <1>2 DEF MarkSession, CanMarkSession, SessionTransitions, TerminalSession
  <2>2. \A m \in Nodes : \A j \in AttemptNos :
          lease'[m][j] = lease[m][j] \/ lease'[m][j] = "none"
    BY <1>2 DEF MarkSession, NoLease
  <2>3. QED
    BY <1>1, <1>2, <2>1, <2>2 DEF MarkSession, HistoryFrozen
<1>3. CASE NoteOutcome
  BY <1>1, <1>3 DEF NoteOutcome, HistoryFrozen
<1>4. CASE RecoverExpired
  <2>1. \A m \in Nodes : \A j \in AttemptNos :
          \/ attempt[m][j] = "RUNNING" /\ attempt'[m][j] = "ABORTED"
          \/ attempt'[m][j] = attempt[m][j] /\ lease'[m][j] = lease[m][j]
    BY <1>4 DEF RecoverExpired, Recoverable, LatestRuns
  <2>2. UNCHANGED <<session, count>>
    BY <1>4 DEF RecoverExpired
  <2>3. QED
    BY <1>1, <2>1, <2>2 DEF HistoryFrozen
<1>5. CASE \E n \in Nodes : NodeCall(n)
  BY <1>5, NodeCallHistory DEF EndedStay, NewSuccess, HistoryFrozen
<1>6. CASE \E n \in Nodes : \E i \in 1..count[n] : ExecutionCall(n, i)
  BY <1>6, ExecutionCallHistory DEF EndedStay, NewSuccess, HistoryFrozen
<1>7. CASE UNCHANGED serviceVars
  BY <1>1, <1>7 DEF serviceVars, HistoryFrozen
<1>8. CASE RevisionCall
  <2>1. UNCHANGED <<session, count, attempt, lease>>
    BY <1>8 DEF RevisionCall, ApplyWorkflowRevision
  <2>2. QED
    BY <1>1, <2>1 DEF HistoryFrozen
<1>9. QED
  BY <1>2, <1>3, <1>4, <1>5, <1>6, <1>7, <1>8 DEF ServiceNext, PlanCall

(* Ended executions, their numbers and terminal sessions never change, and a    *)
(* second success of a node needs a workflow revision after the first.          *)
THEOREM HistoryStaysFrozen == ServiceSpec => HistoryIsFrozen
<1>1. ServiceInv /\ [ServiceNext]_serviceVars => [HistoryFrozen]_serviceVars
  BY CallHistory
<1>2. QED
  BY ServiceInvariant, <1>1, PTL DEF ServiceSpec, HistoryIsFrozen

------------------------------------------------------------------------------
(* The trace of SessionEvents.  Every event that comes is true of the session  *)
(* that the calls have made, and every difference between the session and the  *)
(* summary is told by one of them; complete_node and fail_node tell the end of *)
(* an execution before it is stored, so that the session of their put counts.  *)

Summary ==
  [session : SessionStatus, terminal : TerminalSession \cup {None}, gates : [Nodes -> Nat],
   node : [Nodes -> NodeStatus], execution : Table(AttemptNos, AttemptStatus \cup {"NONE"}),
   leased : SUBSET (Nodes \X AttemptNos)]

Event ==
  [tells : {"session"}, to : SessionStatus]
  \cup [tells : {"node", "decision"}, node : Nodes, to : NodeStatus]
  \cup [tells : {"execution"}, node : Nodes, no : AttemptNos, to : AttemptStatus]
  \cup [tells : {"lease"}, node : Nodes, no : AttemptNos, to : LeaseState]
  \cup [tells : {"gate"}, node : Nodes]

Coming(P) == {P[k] : k \in DOMAIN P}

(* what a reader takes from e of the lease of an execution                     *)
Marks(e, n, i) ==
  \/ e.tells = "session" /\ e.to \in TerminalSession
  \/ e.tells \in {"execution", "lease"} /\ e.node = n /\ e.no = i

IsTrue(e, s, nd, A, L) ==
  /\ e.tells = "session" => /\ e.to = s
                            /\ s \in TerminalSession =>
                                 \A n \in Nodes, i \in AttemptNos : L[n][i] = "none"
  /\ e.tells \in {"node", "decision"} => e.to = nd[e.node]
  /\ e.tells = "execution" => e.to = A[e.node][e.no] /\ L[e.node][e.no] = "none"
  /\ e.tells = "lease" => (e.to = "live" <=> L[e.node][e.no] # "none")

TellsNodes(t, nd, C) ==
  \A n \in Nodes :
    t.node[n] = nd[n] \/ \E e \in C : e.tells \in {"node", "decision"} /\ e.node = n

TellsExecutions(t, A, C) ==
  \A n \in Nodes, i \in AttemptNos :
    \/ t.execution[n][i] = "NONE" \/ t.execution[n][i] = A[n][i]
    \/ \E e \in C : e.tells = "execution" /\ e.node = n /\ e.no = i

TellsLeases(t, L, C) ==
  \A n \in Nodes, i \in AttemptNos :
    (<<n, i>> \in t.leased <=> L[n][i] # "none") \/ \E e \in C : Marks(e, n, i)

TellsGates(t, g, P) ==
  \/ t.gates = g /\ \A e \in Coming(P) : e.tells # "gate"
  \/ \E n \in Nodes : P = <<GateEvent(n)>> /\ g = [t.gates EXCEPT ![n] = @ + 1]

(* The events that come are true of a session, and what the summary does not   *)
(* tell of it yet one of them will tell.                                       *)
Agrees(t, s, nd, g, A, L, P) ==
  /\ \A e \in Coming(P) : IsTrue(e, s, nd, A, L)
  /\ t.session = s \/ \E e \in Coming(P) : e.tells = "session"
  /\ TellsNodes(t, nd, Coming(P))
  /\ TellsExecutions(t, A, Coming(P))
  /\ TellsLeases(t, L, Coming(P))
  /\ TellsGates(t, g, P)

(* complete_node and fail_node tell the end of an execution before it is stored *)
Closing(w) ==
  /\ step[w] = "got" /\ request[w].op \in {"complete", "fail"}
  /\ LatestRuns(request[w].node)
Closed(w) == <<request[w].node, count[request[w].node]>>
Verdict(c) == IF c.op = "complete" THEN "SUCCEEDED" ELSE "FAILED"
DueExecutions(w) ==
  IF Closing(w) THEN [attempt EXCEPT ![Closed(w)[1]][Closed(w)[2]] = Verdict(request[w])]
  ELSE attempt
DueLeases(w) == IF Closing(w) THEN [lease EXCEPT ![Closed(w)[1]][Closed(w)[2]] = "none"] ELSE lease

ReportTypes ==
  /\ version \in Nat /\ begun \in Nat /\ copied \in [Callers -> Nat]
  /\ step \in [Callers -> {"idle", "got", "put"}]
  /\ request \in [Callers -> ServiceCalls \cup {NoServiceCall}]
  /\ pending \in [Callers -> Seq(Event)]
  /\ trace \in Summary /\ alone \in BOOLEAN /\ whole \in BOOLEAN /\ untold \in SUBSET Nodes
  /\ \A w \in Callers :
       /\ step[w] = "idle" => pending[w] = <<>>
       /\ step[w] # "idle" => request[w] \in ServiceCalls
       /\ step[w] = "got" /\ request[w].op = "report" =>
            request[w].no <= count[request[w].node]

(* an end that is told, or about to be, is that of the session, and an end that *)
(* is not told yet is about to be                                             *)
EndIsTold ==
  /\ trace.terminal # None => session = trace.terminal
  /\ \A w \in Callers : \A e \in Coming(pending[w]) :
       e.tells = "session" /\ e.to \in TerminalSession => session = e.to
  /\ whole /\ session \in TerminalSession =>
       trace.terminal = session
         \/ \E w \in Callers : SessionEvent(session) \in Coming(pending[w])

(* What the trace is to tell of the nodes: of one that a revision moved, what it  *)
(* told before.                                                               *)
Seen(t, U, nd) == [n \in Nodes |-> IF n \in U THEN t.node[n] ELSE nd[n]]
Visible == Seen(trace, untold, node)

AloneIsTold ==
  alone =>
    /\ \A v, w \in Callers : step[v] # "idle" /\ step[w] # "idle" => v = w
    /\ \A w \in Callers : step[w] = "got" =>
         /\ version = copied[w]
         /\ request[w].op \in {"complete", "fail"} => Legal(request[w])
         /\ request[w].op = "heartbeat" => lease[request[w].node][request[w].no] # "none"
         /\ ~Closing(w) => pending[w] = <<>>
    /\ whole /\ AllReturned => Agrees(trace, session, Visible, gates, attempt, lease, <<>>)
    /\ whole => \A w \in Callers : step[w] # "idle" =>
         Agrees(trace, session, Visible, gates, DueExecutions(w), DueLeases(w), pending[w])

TraceInv == ServiceInv /\ ReportTypes /\ EndIsTold /\ AloneIsTold

LEMMA Appended ==
  ASSUME NEW P \in Seq(Event), P # <<>>
  PROVE  /\ Head(P) \in Event /\ Tail(P) \in Seq(Event)
         /\ Head(P) \in Coming(P)
         /\ Coming(Tail(P)) \subseteq Coming(P)
         /\ \A e \in Coming(P) : e = Head(P) \/ e \in Coming(Tail(P))
<1>1. /\ Head(P) = P[1] /\ 1 \in DOMAIN P /\ Tail(P) \in Seq(Event)
      /\ Len(P) \in Nat /\ DOMAIN P = 1..Len(P) /\ Len(Tail(P)) = Len(P) - 1
      /\ DOMAIN Tail(P) = 1..(Len(P) - 1)
      /\ \A k \in 1..(Len(P) - 1) : Tail(P)[k] = P[k + 1]
      /\ \A k \in DOMAIN P : P[k] \in Event
  BY EmptySeq, HeadTailProperties
<1>2. Coming(Tail(P)) \subseteq Coming(P)
  <2>1. \A k \in 1..(Len(P) - 1) : k + 1 \in 1..Len(P)
    BY <1>1
  <2>2. QED
    BY <1>1, <2>1 DEF Coming
<1>3. ASSUME NEW e \in Coming(P) PROVE e = Head(P) \/ e \in Coming(Tail(P))
  <2>1. PICK k \in 1..Len(P) : e = P[k]
    BY <1>1 DEF Coming
  <2>2. CASE k = 1
    BY <1>1, <2>1, <2>2
  <2>3. CASE k # 1
    <3>1. k - 1 \in 1..(Len(P) - 1) /\ (k - 1) + 1 = k
      BY <1>1, <2>3
    <3>2. e = Tail(P)[k - 1]
      BY <1>1, <2>1, <3>1
    <3>3. QED
      BY <1>1, <3>1, <3>2 DEF Coming
  <2>4. QED
    BY <2>2, <2>3
<1>4. QED
  BY <1>1, <1>2, <1>3 DEF Coming

LEMMA NothingComes == Coming(<<>>) = {}
BY DEF Coming

LEMMA OneComes == \A e : Coming(<<e>>) = {e}
BY DEF Coming

LEMMA Follows ==
  ASSUME NEW E \in Seq(Event), NEW f \in Event
  PROVE  \A e \in Coming(E \o <<f>>) : e \in Coming(E) \/ e = f
<1>1. <<f>> \in Seq(Event) /\ Len(<<f>>) = 1 /\ <<f>>[1] = f /\ Len(E) \in Nat /\ DOMAIN E = 1..Len(E)
  OBVIOUS
<1>2. PICK Q : Q = E \o <<f>>
  OBVIOUS
<1>3. /\ Q \in Seq(Event) /\ DOMAIN Q = 1..(Len(E) + 1)
      /\ \A k \in 1..(Len(E) + 1) : Q[k] = IF k <= Len(E) THEN E[k] ELSE <<f>>[k - Len(E)]
  <2>1. /\ Q \in Seq(Event) /\ Len(Q) = Len(E) + 1
        /\ \A k \in 1..(Len(E) + 1) : Q[k] = IF k <= Len(E) THEN E[k] ELSE <<f>>[k - Len(E)]
    BY <1>1, <1>2, ConcatProperties
  <2>2. QED
    BY <2>1
<1>4. ASSUME NEW k \in 1..(Len(E) + 1) PROVE Q[k] \in Coming(E) \/ Q[k] = f
  <2>1. CASE k <= Len(E)
    BY <1>1, <1>3, <2>1 DEF Coming
  <2>2. CASE ~(k <= Len(E))
    <3>1. k - Len(E) = 1
      BY <1>1, <2>2
    <3>2. QED
      BY <1>1, <1>3, <2>2, <3>1
  <2>3. QED
    BY <2>1, <2>2
<1>5. QED
  BY <1>2, <1>3, <1>4 DEF Coming

(* what a reader of one event makes of the summary                             *)
Reads(t, e, u) ==
  /\ u.session = IF e.tells = "session" THEN e.to ELSE t.session
  /\ u.terminal = IF e.tells = "session" /\ e.to \in TerminalSession THEN e.to ELSE t.terminal
  /\ \A n \in Nodes :
       u.node[n] = IF e.tells \in {"node", "decision"} /\ e.node = n THEN e.to ELSE t.node[n]
  /\ \A n \in Nodes, i \in AttemptNos :
       /\ u.execution[n][i] = IF e.tells = "execution" /\ e.node = n /\ e.no = i THEN e.to
                              ELSE t.execution[n][i]
       /\ <<n, i>> \in u.leased <=>
            IF Marks(e, n, i) THEN e.tells = "lease" /\ e.to = "live" ELSE <<n, i>> \in t.leased
  /\ u.gates = IF e.tells = "gate" THEN [t.gates EXCEPT ![e.node] = @ + 1] ELSE t.gates

LEMMA ReaderReads ==
  ASSUME trace \in Summary, NEW e \in Event
  PROVE  ReadEvent(e) \in Summary /\ Reads(trace, e, ReadEvent(e))
<1>1. PICK t : t = trace
  OBVIOUS
<1>2. t \in Summary
  BY <1>1
<1>3. CASE e \in [tells : {"session"}, to : SessionStatus]
  <2> DEFINE u == [t EXCEPT !.session = e.to,
                       !.terminal = IF e.to \in TerminalSession THEN e.to ELSE @,
                       !.leased = IF e.to \in TerminalSession THEN {} ELSE @]
  <2>1. ReadEvent(e) = u /\ e.tells = "session" /\ e.to \in SessionStatus
    BY <1>1, <1>3 DEF ReadEvent
  <2>2. u \in Summary
    BY <1>2, <2>1 DEF Summary
  <2>3. Reads(t, e, u)
    BY <1>2, <2>1 DEF Summary, Reads, Marks
  <2>4. QED
    BY <1>1, <2>1, <2>2, <2>3
<1>4. CASE e \in [tells : {"node", "decision"}, node : Nodes, to : NodeStatus]
  <2> DEFINE u == [t EXCEPT !.node[e.node] = e.to]
  <2>1. /\ ReadEvent(e) = u /\ e.tells \in {"node", "decision"}
        /\ e.node \in Nodes /\ e.to \in NodeStatus
    BY <1>1, <1>4 DEF ReadEvent
  <2>2. u \in Summary
    BY <1>2, <2>1 DEF Summary
  <2>3. Reads(t, e, u)
    BY <1>2, <2>1 DEF Summary, Reads, Marks
  <2>4. QED
    BY <1>1, <2>1, <2>2, <2>3
<1>5. CASE e \in [tells : {"execution"}, node : Nodes, no : AttemptNos, to : AttemptStatus]
  <2> DEFINE u == [t EXCEPT !.execution[e.node][e.no] = e.to,
                       !.leased = @ \ {<<e.node, e.no>>}]
  <2>1. /\ ReadEvent(e) = u /\ e.tells = "execution"
        /\ e.node \in Nodes /\ e.no \in AttemptNos /\ e.to \in AttemptStatus
    BY <1>1, <1>5 DEF ReadEvent
  <2>2. t.execution \in Table(AttemptNos, AttemptStatus \cup {"NONE"})
        /\ t.leased \subseteq Nodes \X AttemptNos
    BY <1>2 DEF Summary
  <2>3. u \in Summary
    BY <1>2, <2>1, <2>2 DEF Summary, Table
  <2>4. Reads(t, e, u)
    BY <1>2, <2>1, <2>2 DEF Summary, Reads, Marks, Table
  <2>5. QED
    BY <1>1, <2>1, <2>3, <2>4
<1>6. CASE e \in [tells : {"lease"}, node : Nodes, no : AttemptNos, to : LeaseState]
  <2> DEFINE u == [t EXCEPT !.leased = IF e.to = "live" THEN @ \cup {<<e.node, e.no>>}
                                                   ELSE @ \ {<<e.node, e.no>>}]
  <2>1. /\ ReadEvent(e) = u /\ e.tells = "lease"
        /\ e.node \in Nodes /\ e.no \in AttemptNos
    BY <1>1, <1>6 DEF ReadEvent
  <2>2. u \in Summary
    BY <1>2, <2>1 DEF Summary
  <2>3. Reads(t, e, u)
    BY <1>2, <2>1 DEF Summary, Reads, Marks
  <2>4. QED
    BY <1>1, <2>1, <2>2, <2>3
<1>7. CASE e \in [tells : {"gate"}, node : Nodes]
  <2> DEFINE u == [t EXCEPT !.gates[e.node] = @ + 1]
  <2>1. ReadEvent(e) = u /\ e.tells = "gate" /\ e.node \in Nodes
    BY <1>1, <1>7 DEF ReadEvent
  <2>2. u \in Summary
    BY <1>2, <2>1 DEF Summary
  <2>3. Reads(t, e, u)
    BY <1>2, <2>1 DEF Summary, Reads, Marks
  <2>4. QED
    BY <1>1, <2>1, <2>2, <2>3
<1>8. QED
  BY <1>3, <1>4, <1>5, <1>6, <1>7 DEF Event

LEMMA ReadAgrees ==
  ASSUME NEW t, NEW u, NEW s, NEW nd, NEW g, NEW A, NEW L,
         NEW P \in Seq(Event), P # <<>>, Reads(t, Head(P), u), Agrees(t, s, nd, g, A, L, P)
  PROVE  Agrees(u, s, nd, g, A, L, Tail(P))
<1> DEFINE e == Head(P)
           C == Coming(P)
           D == Coming(Tail(P))
<1>1. e \in Event /\ e \in C /\ D \subseteq C /\ \A f \in C : f = e \/ f \in D
  BY Appended
<1>2. IsTrue(e, s, nd, A, L) /\ \A f \in D : IsTrue(f, s, nd, A, L)
  BY <1>1 DEF Agrees
<1>3. Reads(t, e, u)
  OBVIOUS
<1>4. u.session = s \/ \E f \in D : f.tells = "session"
  <2>1. t.session = s \/ \E f \in C : f.tells = "session"
    BY DEF Agrees
  <2> HIDE DEF e, C, D
  <2>2. QED
    BY <2>1, <1>1, <1>2, <1>3 DEF IsTrue, Reads
<1>5. TellsNodes(u, nd, D)
  <2>1. TellsNodes(t, nd, C)
    BY DEF Agrees
  <2> HIDE DEF e, C, D
  <2>2. QED
    BY <2>1, <1>1, <1>2, <1>3 DEF IsTrue, Reads, TellsNodes
<1>6. TellsExecutions(u, A, D)
  <2>1. TellsExecutions(t, A, C)
    BY DEF Agrees
  <2> HIDE DEF e, C, D
  <2>2. ASSUME NEW n \in Nodes, NEW i \in AttemptNos
        PROVE  \/ u.execution[n][i] = "NONE" \/ u.execution[n][i] = A[n][i]
               \/ \E f \in D : f.tells = "execution" /\ f.node = n /\ f.no = i
    <3>1. CASE e.tells = "execution" /\ e.node = n /\ e.no = i
      BY <3>1, <1>2, <1>3 DEF IsTrue, Reads
    <3>2. CASE ~(e.tells = "execution" /\ e.node = n /\ e.no = i)
      <4>1. u.execution[n][i] = t.execution[n][i]
        BY <3>2, <1>3 DEF Reads
      <4>2. QED
        BY <2>1, <3>2, <4>1, <1>1 DEF TellsExecutions
    <3>3. QED
      BY <3>1, <3>2
  <2>3. QED
    BY <2>2 DEF TellsExecutions
<1>7. TellsLeases(u, L, D)
  <2>1. TellsLeases(t, L, C)
    BY DEF Agrees
  <2> HIDE DEF e, C, D
  <2>2. ASSUME NEW n \in Nodes, NEW i \in AttemptNos
        PROVE  (<<n, i>> \in u.leased <=> L[n][i] # "none") \/ \E f \in D : Marks(f, n, i)
    <3>1. CASE Marks(e, n, i)
      <4>1. <<n, i>> \in u.leased <=> e.tells = "lease" /\ e.to = "live"
        BY <1>3, <3>1 DEF Reads
      <4>2. e.tells = "lease" /\ e.to = "live" <=> L[n][i] # "none"
        BY <1>2, <3>1 DEF IsTrue, Marks
      <4>3. QED
        BY <4>1, <4>2
    <3>2. CASE ~Marks(e, n, i)
      <4>1. <<n, i>> \in u.leased <=> <<n, i>> \in t.leased
        BY <1>3, <3>2 DEF Reads
      <4>2. QED
        BY <2>1, <3>2, <4>1, <1>1 DEF TellsLeases
    <3>3. QED
      BY <3>1, <3>2
  <2>3. QED
    BY <2>2 DEF TellsLeases
<1>8. TellsGates(u, g, Tail(P))
  <2>1. CASE t.gates = g /\ \A f \in C : f.tells # "gate"
    <3>1. u.gates = g /\ \A f \in D : f.tells # "gate"
      <4> HIDE DEF e, C, D
      <4>1. QED
        BY <2>1, <1>1, <1>3 DEF Reads
    <3>2. QED
      BY <3>1 DEF TellsGates
  <2>2. ASSUME NEW n \in Nodes, P = <<GateEvent(n)>>, g = [t.gates EXCEPT ![n] = @ + 1]
        PROVE  u.gates = g /\ \A f \in D : f.tells # "gate"
    <3>1. e = GateEvent(n) /\ Tail(P) = <<>>
      BY <2>2
    <3>2. D = {}
      BY <3>1, NothingComes
    <3>3. e.tells = "gate" /\ e.node = n
      BY <3>1 DEF GateEvent
    <3> HIDE DEF e, D
    <3>4. QED
      BY <2>2, <3>2, <3>3, <1>3 DEF Reads
  <2>3. TellsGates(t, g, P)
    BY DEF Agrees
  <2>4. QED
    BY <2>1, <2>2, <2>3 DEF TellsGates
<1>9. QED
  BY <1>2, <1>4, <1>5, <1>6, <1>7, <1>8 DEF Agrees

(* with nothing to come the summary tells it all                                *)
LEMMA ExactlyTold ==
  ASSUME NEW t, NEW s, NEW nd, NEW g, NEW A, NEW L
  PROVE  Agrees(t, s, nd, g, A, L, <<>>) <=>
           /\ t.session = s /\ t.gates = g /\ \A n \in Nodes : t.node[n] = nd[n]
           /\ \A n \in Nodes, i \in AttemptNos :
                /\ t.execution[n][i] = "NONE" \/ t.execution[n][i] = A[n][i]
                /\ <<n, i>> \in t.leased <=> L[n][i] # "none"
<1>1. Coming(<<>>) = {} /\ \A m : <<>> # <<GateEvent(m)>>
  BY NothingComes
<1>2. QED
  BY <1>1 DEF Agrees, TellsNodes, TellsExecutions, TellsLeases, TellsGates

(* the summary tells of a running execution that ends, once its end is read    *)
LEMMA ClosingAgrees ==
  ASSUME NEW t, NEW s, NEW nd, NEW g,
         NEW A \in Table(AttemptNos, AttemptStatus \cup {"NONE"}), NEW L \in Table(AttemptNos, LeaseState),
         NEW n \in Nodes, NEW i \in AttemptNos, NEW v \in AttemptStatus,
         Agrees(t, s, nd, g, A, L, <<>>)
  PROVE  Agrees(t, s, nd, g, [A EXCEPT ![n][i] = v], [L EXCEPT ![n][i] = "none"],
                <<ExecutionEvent(n, i, v)>>)
<1> DEFINE e == ExecutionEvent(n, i, v)
           B == [A EXCEPT ![n][i] = v]
           M == [L EXCEPT ![n][i] = "none"]
<1>1. e.tells = "execution" /\ e.node = n /\ e.no = i /\ e.to = v
  BY DEF ExecutionEvent
<1>2. \A m \in Nodes, j \in AttemptNos :
        /\ B[m][j] = IF m = n /\ j = i THEN v ELSE A[m][j]
        /\ M[m][j] = IF m = n /\ j = i THEN "none" ELSE L[m][j]
  BY DEF Table
<1>3. Coming(<<e>>) = {e}
  BY OneComes
<1> HIDE DEF e, B, M
<1>4. IsTrue(e, s, nd, B, M)
  BY <1>1, <1>2 DEF IsTrue
<1>5. Agrees(t, s, nd, g, B, M, <<e>>)
  <2>1. /\ t.session = s /\ t.gates = g /\ \A m \in Nodes : t.node[m] = nd[m]
        /\ \A m \in Nodes, j \in AttemptNos :
             /\ t.execution[m][j] = "NONE" \/ t.execution[m][j] = A[m][j]
             /\ <<m, j>> \in t.leased <=> L[m][j] # "none"
    BY ExactlyTold
  <2>2. \A m \in Nodes, j \in AttemptNos : m = n /\ j = i => Marks(e, m, j)
    BY <1>1 DEF Marks
  <2>3. TellsExecutions(t, B, {e}) /\ TellsLeases(t, M, {e})
    <3>1. ASSUME NEW m \in Nodes, NEW j \in AttemptNos
          PROVE  /\ \/ t.execution[m][j] = "NONE" \/ t.execution[m][j] = B[m][j]
                    \/ e.tells = "execution" /\ e.node = m /\ e.no = j
                 /\ (<<m, j>> \in t.leased <=> M[m][j] # "none") \/ Marks(e, m, j)
      <4>1. CASE m = n /\ j = i
        BY <4>1, <1>1, <2>2
      <4>2. CASE ~(m = n /\ j = i)
        <5>1. B[m][j] = A[m][j] /\ M[m][j] = L[m][j]
          BY <4>2, <1>2
        <5>2. QED
          BY <5>1, <2>1
      <4>3. QED
        BY <4>1, <4>2
    <3>2. QED
      BY <3>1 DEF TellsExecutions, TellsLeases
  <2>4. TellsNodes(t, nd, {e}) /\ TellsGates(t, g, <<e>>)
    BY <2>1, <1>1, <1>3 DEF TellsNodes, TellsGates
  <2>5. QED
    BY <2>1, <2>3, <2>4, <1>3, <1>4 DEF Agrees
<1>6. QED
  BY <1>5 DEF e, B, M

(* a finite set of numbers has one increasing enumeration, which leaves out none *)
LEMMA InOrder ==
  ASSUME NEW S \in SUBSET Nat, IsFiniteSet(S)
  PROVE  LET C == Cardinality(S)
             f == CHOOSE f \in [1..C -> S] : \A j, k \in DOMAIN f : j < k => f[j] < f[k]
         IN  C \in Nat /\ f \in [1..C -> S] /\ \A n \in S : \E k \in 1..C : f[k] = n
<1> DEFINE C == Cardinality(S)
           UpTo(i) == {j \in S : j <= i}
           rank == [i \in S |-> Cardinality(UpTo(i))]
           Grows(f) == \A j, k \in DOMAIN f : j < k => f[j] < f[k]
<1>1. C \in Nat /\ IsFiniteSet(1..C) /\ Cardinality(1..C) = C
  <2>1. C \in Nat
    BY FS_CardinalityType
  <2> HIDE DEF C
  <2>2. IsFiniteSet(1..C) /\ Cardinality(1..C) = IF 1 > C THEN 0 ELSE C - 1 + 1
    BY <2>1, FS_Interval
  <2>3. QED
    BY <2>1, <2>2
<1>2. ASSUME NEW i \in S
      PROVE  IsFiniteSet(UpTo(i)) /\ Cardinality(UpTo(i)) \in 1..C
  <2>1. UpTo(i) \in SUBSET S /\ i \in UpTo(i)
    OBVIOUS
  <2>2. IsFiniteSet(UpTo(i)) /\ Cardinality(UpTo(i)) <= C
    BY <2>1, FS_Subset
  <2>3. Cardinality(UpTo(i)) \in Nat
    BY <2>2, FS_CardinalityType
  <2>4. Cardinality(UpTo(i)) # 0
    BY <2>1, <2>2, FS_EmptySet
  <2> HIDE DEF UpTo, C
  <2>5. QED
    BY <1>1, <2>2, <2>3, <2>4
<1>3. ASSUME NEW i \in S, NEW j \in S, i < j
      PROVE  rank[i] < rank[j]
  <2>1. /\ \A l \in S : l <= i => l <= j
        /\ j <= j /\ ~(j <= i)
    <3>1. i \in Nat /\ j \in Nat /\ \A l \in S : l \in Nat
      OBVIOUS
    <3>2. QED
      BY <1>3, <3>1
  <2>2. UpTo(i) \in SUBSET UpTo(j) /\ j \in UpTo(j) /\ j \notin UpTo(i)
    BY <2>1, Zenon
  <2>3. IsFiniteSet(UpTo(j)) /\ Cardinality(UpTo(i)) \in 1..C /\ Cardinality(UpTo(j)) \in 1..C
    BY <1>2
  <2>4. Cardinality(UpTo(i)) <= Cardinality(UpTo(j)) /\ Cardinality(UpTo(i)) # Cardinality(UpTo(j))
    <3> HIDE DEF UpTo
    <3>1. QED
      BY <2>2, <2>3, FS_Subset
  <2>5. rank[i] = Cardinality(UpTo(i)) /\ rank[j] = Cardinality(UpTo(j))
    OBVIOUS
  <2> HIDE DEF UpTo, rank, C
  <2>6. QED
    BY <1>1, <2>3, <2>4, <2>5
<1>4. rank \in [S -> 1..C]
  BY <1>2
<1> HIDE DEF rank
<1>5. ASSUME NEW i \in S, NEW j \in S, i # j PROVE rank[i] # rank[j]
  <2>1. i \in Nat /\ j \in Nat
    OBVIOUS
  <2>2. i < j \/ j < i
    BY <1>5, <2>1
  <2>3. rank[i] \in 1..C /\ rank[j] \in 1..C
    BY <1>4
  <2> HIDE DEF C
  <2>4. QED
    BY <1>1, <1>3, <2>2, <2>3
<1>6. rank \in Surjection(S, 1..C)
  <2>1. rank \in Injection(S, 1..C)
    BY <1>4, <1>5 DEF Injection, IsInjective
  <2>2. QED
    BY <1>1, <2>1, FS_Injection
<1> DEFINE inverse == [k \in 1..C |-> CHOOSE i \in S : rank[i] = k]
<1>7. \A k \in 1..C : inverse[k] \in S /\ rank[inverse[k]] = k
  BY <1>6 DEF Surjection
<1> HIDE DEF inverse
<1>8. inverse \in [1..C -> S]
  BY <1>7 DEF inverse
<1>9. Grows(inverse)
  <2>1. ASSUME NEW j \in 1..C, NEW k \in 1..C, j < k PROVE inverse[j] < inverse[k]
    <3>1. inverse[j] \in S /\ inverse[k] \in S /\ inverse[j] \in Nat /\ inverse[k] \in Nat
      BY <1>7
    <3>2. ~(rank[inverse[k]] < rank[inverse[j]]) /\ rank[inverse[j]] # rank[inverse[k]]
      <4>1. j \in Int /\ k \in Int
        BY <1>1
      <4>2. QED
        BY <4>1, <2>1, <1>7
    <3>3. ~(inverse[k] < inverse[j]) /\ inverse[j] # inverse[k]
      BY <3>1, <3>2, <1>3
    <3>4. QED
      BY <3>1, <3>3
  <2>2. QED
    BY <2>1, <1>8
<1> DEFINE f == CHOOSE f \in [1..C -> S] : Grows(f)
<1>10. f \in [1..C -> S] /\ Grows(f)
  BY <1>8, <1>9
<1> HIDE DEF f
<1>11. f \in Injection(1..C, S)
  <2>1. ASSUME NEW j \in 1..C, NEW k \in 1..C, j # k PROVE f[j] # f[k]
    <3>1. j \in Nat /\ k \in Nat
      BY <1>1
    <3>2. j < k \/ k < j
      BY <2>1, <3>1
    <3>3. f[j] < f[k] \/ f[k] < f[j]
      BY <3>2, <1>10
    <3>4. f[j] \in Nat /\ f[k] \in Nat
      BY <1>10
    <3>5. QED
      BY <3>3, <3>4
  <2>2. QED
    BY <2>1, <1>10 DEF Injection, IsInjective
<1>12. f \in Surjection(1..C, S)
  <2> HIDE DEF C
  <2>1. Cardinality(S) = C
    BY DEF C
  <2>2. QED
    BY <1>1, <1>11, <2>1, FS_Injection
<1>13. QED
  BY <1>1, <1>10, <1>12 DEF f, Surjection

LEMMA RecoveryTells ==
  ASSUME ServiceTypeOK
  PROVE  /\ RecoveryEvents \in Seq(Event)
         /\ \A e \in Coming(RecoveryEvents) : \E n \in Nodes :
              /\ Recoverable(n)
              /\ e = ExecutionEvent(n, count[n], "ABORTED") \/ e = NodeEvent(n, "QUEUED")
         /\ \A n \in Nodes : Recoverable(n) =>
              /\ ExecutionEvent(n, count[n], "ABORTED") \in Coming(RecoveryEvents)
              /\ NodeEvent(n, "QUEUED") \in Coming(RecoveryEvents)
<1> DEFINE found == {n \in Nodes : Recoverable(n)}
           C == Cardinality(found)
           nodes == CHOOSE f \in [1..C -> found] : \A j, k \in DOMAIN f : j < k => f[j] < f[k]
           Nth(k) == LET n == nodes[(k + 1) \div 2] IN
                     IF k % 2 = 1 THEN ExecutionEvent(n, count[n], "ABORTED") ELSE NodeEvent(n, "QUEUED")
<1>1. found \in SUBSET Nat /\ IsFiniteSet(found)
  BY FS_Subset, ServiceCallsAssumption, BlueprintAssumption
<1>2. C \in Nat /\ nodes \in [1..C -> found] /\ \A n \in found : \E k \in 1..C : nodes[k] = n
  <2> HIDE DEF found
  <2>1. QED
    BY <1>1, InOrder
<1>3. RecoveryEvents = [k \in 1..(2 * C) |-> Nth(k)]
  BY DEF RecoveryEvents
<1>4. \A n \in found : n \in Nodes /\ Recoverable(n) /\ count[n] \in AttemptNos
  BY DEF Recoverable, LatestRuns, ServiceTypeOK, AttemptNos
<1> HIDE DEF C, nodes, found
<1>5. \A k \in 1..(2 * C) : (k + 1) \div 2 \in 1..C
  BY <1>2
<1>6. ASSUME NEW k \in 1..(2 * C)
      PROVE  /\ Nth(k) \in Event
             /\ \E n \in Nodes :
                  /\ Recoverable(n)
                  /\ Nth(k) = ExecutionEvent(n, count[n], "ABORTED") \/ Nth(k) = NodeEvent(n, "QUEUED")
  <2>1. PICK n \in found : n = nodes[(k + 1) \div 2]
    BY <1>2, <1>5
  <2>2. Nth(k) = ExecutionEvent(n, count[n], "ABORTED") \/ Nth(k) = NodeEvent(n, "QUEUED")
    BY <2>1
  <2> HIDE DEF Nth
  <2>3. n \in Nodes /\ Recoverable(n) /\ count[n] \in AttemptNos
    BY <1>4
  <2>4. ExecutionEvent(n, count[n], "ABORTED") \in Event /\ NodeEvent(n, "QUEUED") \in Event
    BY <2>3 DEF Event, ExecutionEvent, NodeEvent, AttemptStatus, NodeStatus
  <2>5. QED
    BY <2>2, <2>3, <2>4
<1>7. ASSUME NEW n \in found
      PROVE  \E j, k \in 1..(2 * C) : /\ Nth(j) = ExecutionEvent(n, count[n], "ABORTED")
                                      /\ Nth(k) = NodeEvent(n, "QUEUED")
  <2>1. PICK m \in 1..C : nodes[m] = n
    BY <1>2
  <2>2. /\ 2 * m - 1 \in 1..(2 * C) /\ (2 * m - 1) % 2 = 1 /\ ((2 * m - 1) + 1) \div 2 = m
        /\ 2 * m \in 1..(2 * C) /\ (2 * m) % 2 = 0 /\ (2 * m + 1) \div 2 = m
    BY <1>2
  <2>3. Nth(2 * m - 1) = ExecutionEvent(n, count[n], "ABORTED") /\ Nth(2 * m) = NodeEvent(n, "QUEUED")
    BY <2>1, <2>2
  <2> HIDE DEF Nth
  <2>4. QED
    BY <2>2, <2>3
<1>8. /\ RecoveryEvents \in Seq(Event) /\ DOMAIN RecoveryEvents = 1..(2 * C)
      /\ \A k \in 1..(2 * C) : RecoveryEvents[k] = Nth(k)
  <2> HIDE DEF Nth
  <2>1. RecoveryEvents \in [1..(2 * C) -> Event]
    BY <1>3, <1>6
  <2>2. 2 * C \in Nat
    BY <1>2
  <2>3. QED
    BY <1>3, <2>1, <2>2
<1> HIDE DEF Nth
<1>9. \A e \in Coming(RecoveryEvents) : \E k \in 1..(2 * C) : e = Nth(k)
  BY <1>8 DEF Coming
<1>10. \A k \in 1..(2 * C) : Nth(k) \in Coming(RecoveryEvents)
  BY <1>8 DEF Coming
<1>11. \A n \in Nodes : Recoverable(n) => n \in found
  BY DEF found
<1>12. \A n \in found : /\ ExecutionEvent(n, count[n], "ABORTED") \in Coming(RecoveryEvents)
                        /\ NodeEvent(n, "QUEUED") \in Coming(RecoveryEvents)
  BY <1>7, <1>10
<1>13. \A e \in Coming(RecoveryEvents) : \E n \in Nodes :
         /\ Recoverable(n)
         /\ e = ExecutionEvent(n, count[n], "ABORTED") \/ e = NodeEvent(n, "QUEUED")
  BY <1>6, <1>9
<1>14. QED
  BY <1>8, <1>11, <1>12, <1>13

------------------------------------------------------------------------------
(* What is told of a change of the session *)

LEMMA CallFields ==
  ASSUME NEW c \in ServiceCalls
  PROVE  /\ c.op = "session" => c.to \in SessionStatus
         /\ c.op = "move" => c.to \in {"RUNNING", "PENDING_GATE", "APPROVED", "NEEDS_REVISION"}
         /\ c.op \notin {"session", "recover", "revise", "metadata"} => c.node \in Nodes
         /\ c.op \in {"report", "grant", "heartbeat", "release"} => c.no \in AttemptNos
         /\ c.op = "decide" => c.gate \in GateNos /\ c.action \in DecisionAction
         /\ c.op = "revise" => c.removed \in SUBSET Nodes /\ c.requeued \in SUBSET Nodes
         /\ c.op \in {"session", "move", "complete", "fail", "requeue", "start", "record", "report",
                     "grant", "heartbeat", "release", "decide", "recover", "revise", "metadata"}
BY DEF ServiceCalls

(* one event that is true and tells all that has changed                        *)
LEMMA OneTells ==
  ASSUME NEW t, NEW s, NEW nd, NEW g, NEW A, NEW L, NEW e, e.tells # "gate",
         IsTrue(e, s, nd, A, L),
         t.session = s \/ e.tells = "session", t.gates = g,
         \A n \in Nodes : t.node[n] = nd[n] \/ (e.tells \in {"node", "decision"} /\ e.node = n),
         \A n \in Nodes, i \in AttemptNos :
           /\ \/ t.execution[n][i] = "NONE" \/ t.execution[n][i] = A[n][i]
              \/ e.tells = "execution" /\ e.node = n /\ e.no = i
           /\ (<<n, i>> \in t.leased <=> L[n][i] # "none") \/ Marks(e, n, i)
  PROVE  Agrees(t, s, nd, g, A, L, <<e>>)
<1>1. Coming(<<e>>) = {e}
  BY OneComes
<1>2. TellsNodes(t, nd, {e}) /\ TellsGates(t, g, <<e>>)
  BY <1>1 DEF TellsNodes, TellsGates
<1>3. TellsExecutions(t, A, {e}) /\ TellsLeases(t, L, {e})
  BY DEF TellsExecutions, TellsLeases
<1>4. QED
  BY <1>1, <1>2, <1>3 DEF Agrees

(* the status of the session: a terminal one ends every lease                   *)
LEMMA SessionTells ==
  ASSUME NEW t, NEW s, NEW nd, NEW g, NEW A, NEW L, NEW v \in SessionStatus,
         Agrees(t, s, nd, g, A, L, <<>>)
  PROVE  /\ <<SessionEvent(v)>> \in Seq(Event)
         /\ Agrees(t, v, nd, g, A, IF v \in TerminalSession THEN NoLease ELSE L, <<SessionEvent(v)>>)
<1> DEFINE e == SessionEvent(v)
           M == IF v \in TerminalSession THEN NoLease ELSE L
<1>1. e \in Event /\ e.tells = "session" /\ e.to = v
  BY DEF SessionEvent, Event
<1>2. v \in TerminalSession => \A n \in Nodes, i \in AttemptNos : M[n][i] = "none"
  BY DEF NoLease
<1>3. v \notin TerminalSession => M = L
  OBVIOUS
<1>4. /\ t.gates = g /\ \A n \in Nodes : t.node[n] = nd[n]
      /\ \A n \in Nodes, i \in AttemptNos :
           /\ t.execution[n][i] = "NONE" \/ t.execution[n][i] = A[n][i]
           /\ <<n, i>> \in t.leased <=> L[n][i] # "none"
  BY ExactlyTold
<1> HIDE DEF e, M
<1>5. IsTrue(e, v, nd, A, M)
  BY <1>1, <1>2 DEF IsTrue
<1>6. \A n \in Nodes, i \in AttemptNos :
        (<<n, i>> \in t.leased <=> M[n][i] # "none") \/ Marks(e, n, i)
  BY <1>1, <1>3, <1>4 DEF Marks
<1>7. Agrees(t, v, nd, g, A, M, <<e>>)
  <2>1. e.tells # "gate" /\ (t.session = v \/ e.tells = "session")
    BY <1>1
  <2>2. \A n \in Nodes : t.node[n] = nd[n] \/ (e.tells \in {"node", "decision"} /\ e.node = n)
    BY <1>4
  <2>3. \A n \in Nodes, i \in AttemptNos :
           /\ \/ t.execution[n][i] = "NONE" \/ t.execution[n][i] = A[n][i]
              \/ e.tells = "execution" /\ e.node = n /\ e.no = i
           /\ (<<n, i>> \in t.leased <=> M[n][i] # "none") \/ Marks(e, n, i)
    BY <1>4, <1>6
  <2>4. t.gates = g
    BY <1>4
  <2>5. QED
    BY <2>1, <2>2, <2>3, <2>4, <1>5, OneTells
<1>8. <<e>> \in Seq(Event)
  BY <1>1
<1>9. QED
  BY <1>7, <1>8 DEF e, M

(* the status of a node, by a call or by a decision                             *)
LEMMA NodeTells ==
  ASSUME NEW t, NEW s, NEW nd \in [Nodes -> NodeStatus], NEW g, NEW A, NEW L,
         NEW n \in Nodes, NEW v \in NodeStatus, NEW e,
         e \in {NodeEvent(n, v), DecisionEvent(n, v)},
         Agrees(t, s, nd, g, A, L, <<>>)
  PROVE  /\ <<e>> \in Seq(Event)
         /\ Agrees(t, s, [nd EXCEPT ![n] = v], g, A, L, <<e>>)
<1> DEFINE nd2 == [nd EXCEPT ![n] = v]
<1>1. e \in Event /\ e.tells \in {"node", "decision"} /\ e.node = n /\ e.to = v
  BY DEF NodeEvent, DecisionEvent, Event
<1>2. \A m \in Nodes : nd2[m] = IF m = n THEN v ELSE nd[m]
  OBVIOUS
<1>3. /\ t.session = s /\ t.gates = g /\ \A m \in Nodes : t.node[m] = nd[m]
      /\ \A m \in Nodes, i \in AttemptNos :
           /\ t.execution[m][i] = "NONE" \/ t.execution[m][i] = A[m][i]
           /\ <<m, i>> \in t.leased <=> L[m][i] # "none"
  BY ExactlyTold
<1> HIDE DEF nd2
<1>4. IsTrue(e, s, nd2, A, L)
  BY <1>1, <1>2 DEF IsTrue
<1>5. \A m \in Nodes : t.node[m] = nd2[m] \/ (e.tells \in {"node", "decision"} /\ e.node = m)
  BY <1>1, <1>2, <1>3
<1>6. Agrees(t, s, nd2, g, A, L, <<e>>)
  <2>1. e.tells # "gate" /\ t.session = s /\ t.gates = g
    BY <1>1, <1>3
  <2>2. \A m \in Nodes, i \in AttemptNos :
           /\ \/ t.execution[m][i] = "NONE" \/ t.execution[m][i] = A[m][i]
              \/ e.tells = "execution" /\ e.node = m /\ e.no = i
           /\ (<<m, i>> \in t.leased <=> L[m][i] # "none") \/ Marks(e, m, i)
    BY <1>3
  <2>3. QED
    BY <2>1, <2>2, <1>4, <1>5, OneTells
<1>7. <<e>> \in Seq(Event)
  BY <1>1
<1>8. QED
  BY <1>6, <1>7 DEF nd2

(* the lease of an execution: granted, prolonged or released                    *)
LEMMA LeaseTells ==
  ASSUME NEW t, NEW s, NEW nd, NEW g, NEW A,
         NEW L \in Table(AttemptNos, LeaseState), NEW M,
         NEW n \in Nodes, NEW i \in AttemptNos, NEW v \in {"live", "none"},
         M = [L EXCEPT ![n][i] = v] \/ (M = L /\ L[n][i] # "none" /\ v = "live"),
         Agrees(t, s, nd, g, A, L, <<>>)
  PROVE  /\ <<LeaseEvent(n, i, v)>> \in Seq(Event)
         /\ Agrees(t, s, nd, g, A, M, <<LeaseEvent(n, i, v)>>)
<1> DEFINE e == LeaseEvent(n, i, v)
<1>1. e \in Event /\ e.tells = "lease" /\ e.node = n /\ e.no = i /\ e.to = v
  BY DEF LeaseEvent, Event, LeaseState
<1>2. /\ t.session = s /\ t.gates = g /\ \A m \in Nodes : t.node[m] = nd[m]
      /\ \A m \in Nodes, j \in AttemptNos :
           /\ t.execution[m][j] = "NONE" \/ t.execution[m][j] = A[m][j]
           /\ <<m, j>> \in t.leased <=> L[m][j] # "none"
  BY ExactlyTold
<1> HIDE DEF e
<1>3. IsTrue(e, s, nd, A, M)
  <2>1. M[n][i] # "none" <=> v = "live"
    BY DEF Table
  <2>2. QED
    BY <1>1, <2>1 DEF IsTrue
<1>4. ASSUME NEW m \in Nodes, NEW j \in AttemptNos
      PROVE  (<<m, j>> \in t.leased <=> M[m][j] # "none") \/ Marks(e, m, j)
  <2>1. CASE m = n /\ j = i
    BY <2>1, <1>1 DEF Marks
  <2>2. CASE ~(m = n /\ j = i)
    <3>1. M[m][j] = L[m][j]
      BY <2>2 DEF Table
    <3>2. QED
      BY <3>1, <1>2
  <2>3. QED
    BY <2>1, <2>2
<1>5. Agrees(t, s, nd, g, A, M, <<e>>)
  <2>1. e.tells # "gate" /\ t.session = s /\ t.gates = g
    BY <1>1, <1>2
  <2>2. \A m \in Nodes : t.node[m] = nd[m] \/ (e.tells \in {"node", "decision"} /\ e.node = m)
    BY <1>2
  <2>3. \A m \in Nodes, j \in AttemptNos :
           /\ \/ t.execution[m][j] = "NONE" \/ t.execution[m][j] = A[m][j]
              \/ e.tells = "execution" /\ e.node = m /\ e.no = j
           /\ (<<m, j>> \in t.leased <=> M[m][j] # "none") \/ Marks(e, m, j)
    BY <1>2, <1>4
  <2>4. QED
    BY <2>1, <2>2, <2>3, <1>3, OneTells
<1>6. <<e>> \in Seq(Event)
  BY <1>1
<1>7. QED
  BY <1>5, <1>6 DEF e

(* a new execution, which is reported twice and is not leased yet               *)
LEMMA StartTells ==
  ASSUME NEW t, NEW s, NEW nd, NEW g,
         NEW A \in Table(AttemptNos, AttemptStatus \cup {"NONE"}), NEW L,
         NEW n \in Nodes, NEW i \in AttemptNos, L[n][i] = "none",
         Agrees(t, s, nd, g, A, L, <<>>)
  PROVE  LET e == ExecutionEvent(n, i, "RUNNING") IN
         /\ <<e, e>> \in Seq(Event)
         /\ Agrees(t, s, nd, g, [A EXCEPT ![n][i] = "RUNNING"], L, <<e, e>>)
<1> DEFINE e == ExecutionEvent(n, i, "RUNNING")
           B == [A EXCEPT ![n][i] = "RUNNING"]
<1>1. e \in Event /\ e.tells = "execution" /\ e.node = n /\ e.no = i /\ e.to = "RUNNING"
  BY DEF ExecutionEvent, Event, AttemptStatus
<1>2. \A m \in Nodes, j \in AttemptNos : B[m][j] = IF m = n /\ j = i THEN "RUNNING" ELSE A[m][j]
  BY DEF Table
<1>3. /\ t.session = s /\ t.gates = g /\ \A m \in Nodes : t.node[m] = nd[m]
      /\ \A m \in Nodes, j \in AttemptNos :
           /\ t.execution[m][j] = "NONE" \/ t.execution[m][j] = A[m][j]
           /\ <<m, j>> \in t.leased <=> L[m][j] # "none"
  BY ExactlyTold
<1> HIDE DEF e, B
<1>4. Coming(<<e, e>>) = {e} /\ <<e, e>> \in Seq(Event)
  <2>1. DOMAIN <<e, e>> = {1, 2} /\ <<e, e>>[1] = e /\ <<e, e>>[2] = e
    OBVIOUS
  <2>2. QED
    BY <2>1, <1>1 DEF Coming
<1>5. IsTrue(e, s, nd, B, L)
  BY <1>1, <1>2 DEF IsTrue
<1>6. TellsNodes(t, nd, {e}) /\ TellsGates(t, g, <<e, e>>)
  BY <1>1, <1>3, <1>4 DEF TellsNodes, TellsGates
<1>7. TellsLeases(t, L, {e})
  BY <1>3 DEF TellsLeases
<1>8. TellsExecutions(t, B, {e})
  <2>1. ASSUME NEW m \in Nodes, NEW j \in AttemptNos
        PROVE  \/ t.execution[m][j] = "NONE" \/ t.execution[m][j] = B[m][j]
               \/ \E f \in {e} : f.tells = "execution" /\ f.node = m /\ f.no = j
    <3>1. CASE m = n /\ j = i
      BY <3>1, <1>1
    <3>2. CASE ~(m = n /\ j = i)
      <4>1. B[m][j] = A[m][j]
        BY <3>2, <1>2
      <4>2. QED
        BY <4>1, <1>3
    <3>3. QED
      BY <3>1, <3>2
  <2>2. QED
    BY <2>1 DEF TellsExecutions
<1>9. Agrees(t, s, nd, g, B, L, <<e, e>>)
  BY <1>3, <1>4, <1>5, <1>6, <1>7, <1>8 DEF Agrees
<1>10. QED
  BY <1>4, <1>9 DEF e, B

LEMMA GateTells ==
  ASSUME NEW t, NEW s, NEW nd, NEW g, NEW A, NEW L, NEW n \in Nodes,
         Agrees(t, s, nd, g, A, L, <<>>)
  PROVE  /\ <<GateEvent(n)>> \in Seq(Event)
         /\ Agrees(t, s, nd, [g EXCEPT ![n] = @ + 1], A, L, <<GateEvent(n)>>)
<1> DEFINE e == GateEvent(n)
           h == [g EXCEPT ![n] = @ + 1]
<1>1. e \in Event /\ e.tells = "gate"
  BY DEF GateEvent, Event
<1>2. /\ t.session = s /\ t.gates = g /\ \A m \in Nodes : t.node[m] = nd[m]
      /\ \A m \in Nodes, j \in AttemptNos :
           /\ t.execution[m][j] = "NONE" \/ t.execution[m][j] = A[m][j]
           /\ <<m, j>> \in t.leased <=> L[m][j] # "none"
  BY ExactlyTold
<1>3. TellsGates(t, h, <<e>>)
  <2>1. <<e>> = <<GateEvent(n)>> /\ h = [t.gates EXCEPT ![n] = @ + 1]
    BY <1>2
  <2> HIDE DEF e, h
  <2>2. QED
    BY <2>1 DEF TellsGates
<1>4. Coming(<<e>>) = {e}
  BY OneComes
<1> HIDE DEF e, h
<1>5. IsTrue(e, s, nd, A, L)
  BY <1>1 DEF IsTrue
<1>6. TellsNodes(t, nd, {e}) /\ TellsExecutions(t, A, {e}) /\ TellsLeases(t, L, {e})
  BY <1>2 DEF TellsNodes, TellsExecutions, TellsLeases
<1>7. Agrees(t, s, nd, h, A, L, <<e>>)
  BY <1>2, <1>3, <1>4, <1>5, <1>6 DEF Agrees
<1>8. QED
  BY <1>1, <1>7 DEF e, h

(* an execution that a report starts is told by nobody, nor is it denied        *)
LEMMA SilenceTells ==
  ASSUME NEW t, NEW s, NEW nd, NEW g, NEW A, NEW B, NEW L,
         \A n \in Nodes, i \in AttemptNos : A[n][i] = "NONE" \/ B[n][i] = A[n][i],
         Agrees(t, s, nd, g, A, L, <<>>)
  PROVE  <<>> \in Seq(Event) /\ Agrees(t, s, nd, g, B, L, <<>>)
<1>1. /\ t.session = s /\ t.gates = g /\ \A m \in Nodes : t.node[m] = nd[m]
      /\ \A m \in Nodes, j \in AttemptNos :
           /\ t.execution[m][j] = "NONE" \/ t.execution[m][j] = A[m][j]
           /\ <<m, j>> \in t.leased <=> L[m][j] # "none"
  BY ExactlyTold
<1>2. ASSUME NEW m \in Nodes, NEW j \in AttemptNos
      PROVE  /\ t.execution[m][j] = "NONE" \/ t.execution[m][j] = B[m][j]
             /\ <<m, j>> \in t.leased <=> L[m][j] # "none"
  <2>1. /\ t.execution[m][j] = "NONE" \/ t.execution[m][j] = A[m][j]
        /\ <<m, j>> \in t.leased <=> L[m][j] # "none"
    BY <1>1
  <2>2. A[m][j] = "NONE" \/ B[m][j] = A[m][j]
    OBVIOUS
  <2>3. QED
    BY <2>1, <2>2
<1>3. Agrees(t, s, nd, g, B, L, <<>>)
  BY <1>1, <1>2, ExactlyTold
<1>4. QED
  BY <1>3

(* a node goes back to the queue, after the end of its running execution        *)
LEMMA RequeueTells ==
  ASSUME NEW t, NEW s, NEW nd \in [Nodes -> NodeStatus], NEW g,
         NEW A \in Table(AttemptNos, AttemptStatus \cup {"NONE"}), NEW L \in Table(AttemptNos, LeaseState),
         NEW n \in Nodes, NEW i \in AttemptNos, NEW v \in AttemptStatus, NEW to \in NodeStatus,
         Agrees(t, s, nd, g, A, L, <<>>)
  PROVE  LET P == <<ExecutionEvent(n, i, v)>> \o <<NodeEvent(n, to)>> IN
         /\ P \in Seq(Event)
         /\ Agrees(t, s, [nd EXCEPT ![n] = to], g,
                   [A EXCEPT ![n][i] = v], [L EXCEPT ![n][i] = "none"], P)
<1> DEFINE e == ExecutionEvent(n, i, v)
           f == NodeEvent(n, to)
           nd2 == [nd EXCEPT ![n] = to]
           B == [A EXCEPT ![n][i] = v]
           M == [L EXCEPT ![n][i] = "none"]
<1>1. /\ e \in Event /\ e.tells = "execution" /\ e.node = n /\ e.no = i /\ e.to = v
      /\ f \in Event /\ f.tells = "node" /\ f.node = n /\ f.to = to
  BY DEF ExecutionEvent, NodeEvent, Event
<1>2. Agrees(t, s, nd, g, B, M, <<e>>)
  BY ClosingAgrees
<1>3. \A m \in Nodes : nd2[m] = IF m = n THEN to ELSE nd[m]
  OBVIOUS
<1> HIDE DEF e, f, nd2, B, M
<1> DEFINE P == <<e>> \o <<f>>
<1>4. P \in Seq(Event) /\ Len(P) = 2 /\ P[1] = e /\ P[2] = f
  <2>1. <<e>> \in Seq(Event) /\ <<f>> \in Seq(Event) /\ Len(<<e>>) = 1 /\ Len(<<f>>) = 1
    BY <1>1
  <2>2. <<e>>[1] = e /\ <<f>>[1] = f
    OBVIOUS
  <2>3. QED
    BY <2>1, <2>2, ConcatProperties
<1> HIDE DEF P
<1>5. Coming(P) = {e, f} /\ Coming(<<e>>) = {e}
  <2>1. DOMAIN P = {1, 2}
    BY <1>4
  <2>2. QED
    BY <2>1, <1>4, OneComes DEF Coming
<1>6. /\ IsTrue(e, s, nd, B, M) /\ t.session = s /\ t.gates = g
      /\ \A m \in Nodes : t.node[m] = nd[m]
      /\ TellsExecutions(t, B, {e}) /\ TellsLeases(t, M, {e})
  <2>1. TellsNodes(t, nd, {e}) /\ TellsGates(t, g, <<e>>)
    BY <1>2, <1>5 DEF Agrees
  <2>2. \A m \in Nodes : t.node[m] = nd[m]
    BY <2>1, <1>1 DEF TellsNodes
  <2>3. t.gates = g
    <3>1. \A m : <<e>> # <<GateEvent(m)>>
      BY <1>1 DEF GateEvent
    <3>2. QED
      BY <2>1, <3>1 DEF TellsGates
  <2>4. QED
    BY <1>1, <1>2, <1>5, <2>2, <2>3 DEF Agrees
<1>7. IsTrue(e, s, nd2, B, M) /\ IsTrue(f, s, nd2, B, M)
  BY <1>1, <1>3, <1>6 DEF IsTrue
<1>8. TellsNodes(t, nd2, {e, f})
  BY <1>1, <1>3, <1>6 DEF TellsNodes
<1>9. TellsExecutions(t, B, {e, f}) /\ TellsLeases(t, M, {e, f})
  BY <1>6 DEF TellsExecutions, TellsLeases
<1>10. TellsGates(t, g, P)
  BY <1>1, <1>5, <1>6 DEF TellsGates
<1>11. Agrees(t, s, nd2, g, B, M, P)
  BY <1>5, <1>6, <1>7, <1>8, <1>9, <1>10 DEF Agrees
<1>12. QED
  BY <1>4, <1>11 DEF P, e, f, nd2, B, M

LEMMA RecoverTold ==
  ASSUME ServiceTypeOK, RecoverExpired,
         NEW t, NEW s, NEW nd, NEW g, NEW A, NEW L,
         NEW nd2, NEW B, NEW M,
         A = attempt, L = lease, B = attempt', M = lease',
         nd2 = [n \in Nodes |-> IF Recoverable(n) THEN "QUEUED" ELSE nd[n]],
         Agrees(t, s, nd, g, A, L, <<>>)
  PROVE  /\ RecoveryEvents \in Seq(Event)
         /\ Agrees(t, s, nd2, g, B, M, RecoveryEvents)
<1>1. PICK P : P = RecoveryEvents
  OBVIOUS
<1>2. PICK R \in SUBSET Nodes : \A n \in Nodes : n \in R <=> Recoverable(n)
  <2>1. {n \in Nodes : Recoverable(n)} \in SUBSET Nodes
    OBVIOUS
  <2>2. QED
    BY <2>1
<1>3. PICK c \in [Nodes -> 0..MaxAttempts] : c = count
  BY DEF ServiceTypeOK
<1>4. \A n \in R : c[n] \in AttemptNos
  BY <1>2, <1>3 DEF Recoverable, LatestRuns, AttemptNos
<1>5. /\ P \in Seq(Event)
      /\ \A e \in Coming(P) : \E n \in R : e = ExecutionEvent(n, c[n], "ABORTED") \/ e = NodeEvent(n, "QUEUED")
      /\ \A n \in R : ExecutionEvent(n, c[n], "ABORTED") \in Coming(P) /\ NodeEvent(n, "QUEUED") \in Coming(P)
  BY <1>1, <1>2, <1>3, RecoveryTells
<1>6. \A n \in Nodes :
        /\ nd2[n] = IF n \in R THEN "QUEUED" ELSE nd[n]
        /\ \A i \in AttemptNos :
             /\ B[n][i] = IF n \in R /\ i = c[n] THEN "ABORTED" ELSE A[n][i]
             /\ M[n][i] = IF n \in R /\ i = c[n] THEN "none" ELSE L[n][i]
  BY <1>2, <1>3 DEF RecoverExpired
<1>7. /\ t.session = s /\ t.gates = g /\ \A m \in Nodes : t.node[m] = nd[m]
      /\ \A m \in Nodes, j \in AttemptNos :
           /\ t.execution[m][j] = "NONE" \/ t.execution[m][j] = A[m][j]
           /\ <<m, j>> \in t.leased <=> L[m][j] # "none"
  BY ExactlyTold
<1>8. \A n, i, v : /\ ExecutionEvent(n, i, v).tells = "execution" /\ ExecutionEvent(n, i, v).node = n
                   /\ ExecutionEvent(n, i, v).no = i /\ ExecutionEvent(n, i, v).to = v
                   /\ NodeEvent(n, v).tells = "node" /\ NodeEvent(n, v).node = n /\ NodeEvent(n, v).to = v
  BY DEF ExecutionEvent, NodeEvent
<1> DEFINE C == Coming(P)
<1> HIDE DEF C
<1>9. \A e \in C : IsTrue(e, s, nd2, B, M) /\ e.tells # "gate"
  <2>1. ASSUME NEW e \in C PROVE IsTrue(e, s, nd2, B, M) /\ e.tells # "gate"
    <3>1. PICK n \in R : e = ExecutionEvent(n, c[n], "ABORTED") \/ e = NodeEvent(n, "QUEUED")
      BY <1>5 DEF C
    <3>2. CASE e = ExecutionEvent(n, c[n], "ABORTED")
      BY <3>2, <1>4, <1>6, <1>8 DEF IsTrue
    <3>3. CASE e = NodeEvent(n, "QUEUED")
      BY <3>3, <1>6, <1>8 DEF IsTrue
    <3>4. QED
      BY <3>1, <3>2, <3>3
  <2>2. QED
    BY <2>1
<1>10. TellsNodes(t, nd2, C)
  <2>1. ASSUME NEW n \in Nodes
        PROVE  t.node[n] = nd2[n] \/ \E e \in C : e.tells \in {"node", "decision"} /\ e.node = n
    <3>1. CASE n \in R
      <4>1. NodeEvent(n, "QUEUED") \in C
        BY <3>1, <1>5 DEF C
      <4>2. NodeEvent(n, "QUEUED").tells = "node" /\ NodeEvent(n, "QUEUED").node = n
        BY <1>8
      <4>3. QED
        BY <4>1, <4>2
    <3>2. CASE n \notin R
      BY <3>2, <1>6, <1>7
    <3>3. QED
      BY <3>1, <3>2
  <2>2. QED
    BY <2>1 DEF TellsNodes
<1>11. TellsExecutions(t, B, C) /\ TellsLeases(t, M, C)
  <2>1. ASSUME NEW n \in Nodes, NEW i \in AttemptNos, n \in R, i = c[n]
        PROVE  /\ \E e \in C : e.tells = "execution" /\ e.node = n /\ e.no = i
               /\ \E e \in C : Marks(e, n, i)
    <3>1. ExecutionEvent(n, i, "ABORTED") \in C
      BY <2>1, <1>5 DEF C
    <3>2. Marks(ExecutionEvent(n, i, "ABORTED"), n, i)
      BY <1>8 DEF Marks
    <3>3. QED
      BY <3>1, <3>2, <1>8
  <2>2. ASSUME NEW n \in Nodes, NEW i \in AttemptNos, ~(n \in R /\ i = c[n])
        PROVE  /\ t.execution[n][i] = "NONE" \/ t.execution[n][i] = B[n][i]
               /\ <<n, i>> \in t.leased <=> M[n][i] # "none"
    <3>1. B[n][i] = A[n][i] /\ M[n][i] = L[n][i]
      BY <2>2, <1>6
    <3>2. QED
      BY <3>1, <1>7
  <2>3. TellsExecutions(t, B, C)
    <3>1. ASSUME NEW n \in Nodes, NEW i \in AttemptNos
          PROVE  \/ t.execution[n][i] = "NONE" \/ t.execution[n][i] = B[n][i]
                 \/ \E e \in C : e.tells = "execution" /\ e.node = n /\ e.no = i
      <4>1. CASE n \in R /\ i = c[n]
        BY <2>1, <4>1
      <4>2. CASE ~(n \in R /\ i = c[n])
        BY <2>2, <4>2
      <4>3. QED
        BY <4>1, <4>2
    <3>2. QED
      BY <3>1 DEF TellsExecutions
  <2>4. TellsLeases(t, M, C)
    <3>1. ASSUME NEW n \in Nodes, NEW i \in AttemptNos
          PROVE  (<<n, i>> \in t.leased <=> M[n][i] # "none") \/ \E e \in C : Marks(e, n, i)
      <4>1. CASE n \in R /\ i = c[n]
        BY <2>1, <4>1
      <4>2. CASE ~(n \in R /\ i = c[n])
        BY <2>2, <4>2
      <4>3. QED
        BY <4>1, <4>2
    <3>2. QED
      BY <3>1 DEF TellsLeases
  <2>5. QED
    BY <2>3, <2>4
<1>12. Agrees(t, s, nd2, g, B, M, P)
  BY <1>7, <1>9, <1>10, <1>11 DEF Agrees, TellsGates, C
<1>13. QED
  BY <1>1, <1>5, <1>12

(* how a put changes what the trace is to tell of the nodes                     *)
SeenFollows(c, nd, nd2) ==
  /\ nd \in [Nodes -> NodeStatus]
  /\ c.op \in {"move", "complete", "fail", "requeue", "decide"} =>
       \A v : node' = [node EXCEPT ![c.node] = v] => nd2 = [nd EXCEPT ![c.node] = v]
  /\ c.op = "recover" => nd2 = [n \in Nodes |-> IF Recoverable(n) THEN "QUEUED" ELSE nd[n]]
  /\ c.op \notin {"move", "complete", "fail", "requeue", "decide", "recover"} => nd2 = nd

(* A revision moves nodes which then count as told; what a call tells of a node  *)
(* counts again.                                                              *)
LEMMA PutSeen ==
  ASSUME ServiceTypeOK, NEW c \in ServiceCalls, Mutate(c), NEW t \in Summary,
         NEW U \in SUBSET Nodes, U = untold, NEW U2, U2 = LeftUntold(c),
         NEW nd, nd = Seen(t, U, node), NEW nd2, nd2 = Seen(t, U2, node'),
         \A n \in Nodes : t.node[n] = nd[n]
  PROVE  SeenFollows(c, nd, nd2)
<1>1. t.node \in [Nodes -> NodeStatus] /\ node \in [Nodes -> NodeStatus]
  BY DEF Summary, ServiceTypeOK
<1>2. /\ nd \in [Nodes -> NodeStatus]
      /\ \A n \in Nodes : nd[n] = IF n \in U THEN t.node[n] ELSE node[n]
      /\ nd2 = [n \in Nodes |-> IF n \in U2 THEN t.node[n] ELSE node'[n]]
  BY <1>1 DEF Seen
<1>3. CASE c.op \in {"move", "complete", "fail", "requeue", "decide"}
  <2>1. U2 = U \ {c.node} /\ c.node \in Nodes
    BY <1>3, CallFields DEF LeftUntold, NodesToTell
  <2>2. ASSUME NEW v, node' = [node EXCEPT ![c.node] = v] PROVE nd2 = [nd EXCEPT ![c.node] = v]
    <3>1. \A n \in Nodes : node'[n] = IF n = c.node THEN v ELSE node[n]
      BY <2>1, <2>2, <1>1
    <3>2. \A n \in Nodes : nd2[n] = IF n = c.node THEN v ELSE nd[n]
      BY <2>1, <3>1, <1>2
    <3>3. QED
      BY <3>2, <1>2
  <2>3. QED
    BY <1>2, <1>3, <2>2 DEF SeenFollows
<1>4. CASE c.op = "recover"
  <2>1. U2 = U \ {n \in Nodes : Recoverable(n)}
    BY <1>4 DEF LeftUntold, NodesToTell
  <2>2. node' = [n \in Nodes |-> IF Recoverable(n) THEN "QUEUED" ELSE node[n]]
    BY <1>4 DEF Mutate, RecoverExpired
  <2>3. \A n \in Nodes : nd2[n] = IF Recoverable(n) THEN "QUEUED" ELSE nd[n]
    BY <2>1, <2>2, <1>2
  <2>4. nd2 = [n \in Nodes |-> IF Recoverable(n) THEN "QUEUED" ELSE nd[n]]
    BY <2>3, <1>2
  <2>5. QED
    BY <1>2, <1>4, <2>4 DEF SeenFollows
<1>5. CASE c.op = "revise"
  <2>1. \A n \in Nodes : n \in U2 <=> n \in U \/ node'[n] # node[n]
    BY <1>5 DEF LeftUntold
  <2>2. \A n \in Nodes : nd2[n] = nd[n]
    BY <2>1, <1>2
  <2>3. nd2 = nd
    BY <2>2, <1>2
  <2>4. QED
    BY <1>2, <1>5, <2>3 DEF SeenFollows
<1>6. CASE c.op \notin {"move", "complete", "fail", "requeue", "decide", "recover", "revise"}
  <2>1. U2 = U
    BY <1>6 DEF LeftUntold, NodesToTell
  <2>2. node' = node
    BY <1>6 DEF Mutate, MarkSession, StartAttempt, RecordGate, ConsumeAgentReport, GrantLease,
                ReleaseLease, serviceVars
  <2>3. nd2 = nd
    BY <2>1, <2>2 DEF Seen
  <2>4. QED
    BY <1>2, <1>6, <2>3 DEF SeenFollows
<1>7. QED
  BY <1>3, <1>4, <1>5, <1>6

(* what a put does is told by what the call emits then                          *)
LEMMA PutTells ==
  ASSUME ServiceInv, NEW c \in ServiceCalls, Mutate(c), NEW t,
         NEW A, NEW L, IF c.op \in {"complete", "fail"} THEN A = attempt' /\ L = lease'
                       ELSE A = attempt /\ L = lease,
         c.op = "heartbeat" => lease[c.node][c.no] # "none",
         NEW s, NEW nd, NEW g, s = session, g = gates,
         Agrees(t, s, nd, g, A, L, <<>>),
         NEW s2, NEW nd2, NEW g2, NEW B, NEW M,
         s2 = session', g2 = gates', B = attempt', M = lease', SeenFollows(c, nd, nd2)
  PROVE  EventsAfter(c) \in Seq(Event) /\ Agrees(t, s2, nd2, g2, B, M, EventsAfter(c))
<1>1. ServiceTypeOK /\ LeasedIsRunning
  BY DEF ServiceInv
<1>2. /\ nd \in [Nodes -> NodeStatus]
      /\ attempt \in Table(AttemptNos, AttemptStatus \cup {"NONE"})
      /\ lease \in Table(AttemptNos, LeaseState)
      /\ \A n \in Nodes : count[n] \in 0..MaxAttempts
  BY <1>1 DEF ServiceTypeOK, Table, SeenFollows
<1>3. CASE c.op = "session"
  <2>1. c.to \in SessionStatus /\ EventsAfter(c) = <<SessionEvent(c.to)>> /\ MarkSession(c.to)
    BY <1>3, CallFields DEF EventsAfter, Mutate
  <2>2. /\ s2 = c.to /\ nd2 = nd /\ g2 = g /\ B = A
        /\ M = IF c.to \in TerminalSession THEN NoLease ELSE L
    BY <1>3, <2>1 DEF MarkSession, SeenFollows
  <2>3. /\ <<SessionEvent(c.to)>> \in Seq(Event)
        /\ Agrees(t, c.to, nd, g, A, IF c.to \in TerminalSession THEN NoLease ELSE L, <<SessionEvent(c.to)>>)
    BY <2>1, SessionTells
  <2>4. QED
    BY <2>1, <2>2, <2>3
<1>4. CASE c.op \in {"move", "complete", "fail"}
  <2>1. PICK v \in NodeStatus :
          /\ EventsAfter(c) = <<NodeEvent(c.node, v)>>
          /\ node' = [node EXCEPT ![c.node] = v]
          /\ UNCHANGED <<session, gates>>
          /\ c.op = "move" => UNCHANGED <<attempt, lease>>
    <3>1. CASE c.op = "move"
      BY <3>1, CallFields DEF EventsAfter, Mutate, MoveNode, NodeStatus
    <3>2. CASE c.op = "complete"
      BY <3>2 DEF EventsAfter, Mutate, CompleteNode, NodeStatus
    <3>3. CASE c.op = "fail"
      BY <3>3 DEF EventsAfter, Mutate, FailNode, NodeStatus
    <3>4. QED
      BY <1>4, <3>1, <3>2, <3>3
  <2>2. c.node \in Nodes
    BY <1>4, CallFields
  <2>3. s2 = s /\ nd2 = [nd EXCEPT ![c.node] = v] /\ g2 = g /\ B = A /\ M = L
    BY <1>4, <2>1 DEF SeenFollows
  <2>4. /\ <<NodeEvent(c.node, v)>> \in Seq(Event)
        /\ Agrees(t, s, [nd EXCEPT ![c.node] = v], g, A, L, <<NodeEvent(c.node, v)>>)
    BY <1>2, <2>2, NodeTells
  <2>5. QED
    BY <2>1, <2>3, <2>4
<1>5. CASE c.op = "requeue"
  <2>1. /\ c.node \in Nodes /\ RequeueNode(c.node)
        /\ EventsAfter(c) = EndEvents(c.node, "ABORTED") \o <<NodeEvent(c.node, "QUEUED")>>
    BY <1>5, CallFields DEF EventsAfter, Mutate
  <2>2. s2 = s /\ nd2 = [nd EXCEPT ![c.node] = "QUEUED"] /\ g2 = g /\ A = attempt /\ L = lease
    BY <1>5, <2>1 DEF RequeueNode, SeenFollows
  <2>3. CASE LatestRuns(c.node)
    <3>1. PICK i \in AttemptNos : i = count[c.node]
      BY <2>1, <2>3, <1>2 DEF LatestRuns, AttemptNos
    <3>2. B = [A EXCEPT ![c.node][i] = "ABORTED"] /\ M = [L EXCEPT ![c.node][i] = "none"]
      BY <2>1, <2>2, <2>3, <3>1 DEF RequeueNode, EndRunningAttempt
    <3>3. EventsAfter(c) = <<ExecutionEvent(c.node, i, "ABORTED")>> \o <<NodeEvent(c.node, "QUEUED")>>
      BY <2>1, <2>3, <3>1 DEF EndEvents
    <3>4. A \in Table(AttemptNos, AttemptStatus \cup {"NONE"}) /\ L \in Table(AttemptNos, LeaseState)
      BY <1>2, <2>2
    <3>5. "ABORTED" \in AttemptStatus /\ "QUEUED" \in NodeStatus
      BY DEF AttemptStatus, NodeStatus
    <3>6. LET P == <<ExecutionEvent(c.node, i, "ABORTED")>> \o <<NodeEvent(c.node, "QUEUED")>> IN
          /\ P \in Seq(Event)
          /\ Agrees(t, s, [nd EXCEPT ![c.node] = "QUEUED"], g,
                    [A EXCEPT ![c.node][i] = "ABORTED"], [L EXCEPT ![c.node][i] = "none"], P)
      BY <1>2, <2>1, <3>4, <3>5, RequeueTells
    <3>7. QED
      BY <2>2, <3>2, <3>3, <3>6
  <2>4. CASE ~LatestRuns(c.node)
    <3>1. B = A /\ M = L
      BY <2>1, <2>2, <2>4 DEF RequeueNode, EndRunningAttempt
    <3>2. EventsAfter(c) = <<NodeEvent(c.node, "QUEUED")>>
      <4>1. <<NodeEvent(c.node, "QUEUED")>> \in Seq({NodeEvent(c.node, "QUEUED")})
        OBVIOUS
      <4>2. EventsAfter(c) = <<>> \o <<NodeEvent(c.node, "QUEUED")>>
        BY <2>1, <2>4 DEF EndEvents
      <4>3. QED
        BY <4>1, <4>2, ConcatEmptySeq
    <3>3. "QUEUED" \in NodeStatus
      BY DEF NodeStatus
    <3>4. /\ <<NodeEvent(c.node, "QUEUED")>> \in Seq(Event)
          /\ Agrees(t, s, [nd EXCEPT ![c.node] = "QUEUED"], g, A, L, <<NodeEvent(c.node, "QUEUED")>>)
      BY <1>2, <2>1, <3>3, NodeTells
    <3>5. QED
      BY <2>2, <3>1, <3>2, <3>4
  <2>5. QED
    BY <2>3, <2>4
<1>6. CASE c.op = "start"
  <2>1. /\ c.node \in Nodes /\ StartAttempt(c.node)
        /\ EventsAfter(c) = StartEvents(c.node)
    BY <1>6, CallFields DEF EventsAfter, Mutate
  <2>2. PICK i \in AttemptNos : i = count[c.node] + 1
    BY <1>2, <2>1, BoundsAssumption DEF StartAttempt, AppendAttempt, CanAppendAttempt, AttemptNos
  <2>3. /\ s2 = s /\ nd2 = nd /\ g2 = g /\ M = L /\ B = [A EXCEPT ![c.node][i] = "RUNNING"]
    BY <1>6, <2>1, <2>2 DEF StartAttempt, AppendAttempt, SeenFollows
  <2>4. L[c.node][i] = "none"
    <3>1. attempt[c.node][i] = "NONE"
      BY <1>1, <1>2, <2>1, <2>2 DEF ServiceTypeOK
    <3>2. QED
      BY <3>1, <1>1, <1>6, <2>1 DEF LeasedIsRunning
  <2>5. EventsAfter(c) = <<ExecutionEvent(c.node, i, "RUNNING"), ExecutionEvent(c.node, i, "RUNNING")>>
    BY <2>1, <2>2 DEF StartEvents
  <2>6. A \in Table(AttemptNos, AttemptStatus \cup {"NONE"})
    BY <1>2, <1>6
  <2>7. LET e == ExecutionEvent(c.node, i, "RUNNING") IN
        /\ <<e, e>> \in Seq(Event)
        /\ Agrees(t, s, nd, g, [A EXCEPT ![c.node][i] = "RUNNING"], L, <<e, e>>)
    BY <2>1, <2>4, <2>6, StartTells
  <2>8. QED
    BY <2>3, <2>5, <2>7
<1>7. CASE c.op = "record"
  <2>1. c.node \in Nodes /\ RecordGate(c.node) /\ EventsAfter(c) = <<GateEvent(c.node)>>
    BY <1>7, CallFields DEF EventsAfter, Mutate
  <2>2. s2 = s /\ nd2 = nd /\ g2 = [g EXCEPT ![c.node] = @ + 1] /\ B = A /\ M = L
    BY <1>7, <2>1 DEF RecordGate, SeenFollows
  <2>3. /\ <<GateEvent(c.node)>> \in Seq(Event)
        /\ Agrees(t, s, nd, [g EXCEPT ![c.node] = @ + 1], A, L, <<GateEvent(c.node)>>)
    BY <2>1, GateTells
  <2>4. QED
    BY <2>1, <2>2, <2>3
<1>8. CASE c.op = "report"
  <2>1. c.node \in Nodes /\ c.no \in AttemptNos /\ ConsumeAgentReport(c.node, c.no) /\ EventsAfter(c) = <<>>
    BY <1>8, CallFields DEF EventsAfter, Mutate
  <2>2. s2 = s /\ nd2 = nd /\ g2 = g /\ M = L
    BY <1>8, <2>1 DEF ConsumeAgentReport, SeenFollows
  <2>3. \A n \in Nodes, i \in AttemptNos : A[n][i] = "NONE" \/ B[n][i] = A[n][i]
    <3>1. CASE UNCHANGED attempt
      BY <3>1, <1>8
    <3>2. CASE AppendAttempt(c.node)
      <4>1. PICK j : j = count[c.node] + 1
        OBVIOUS
      <4>2. j > count[c.node]
        BY <1>2, <2>1, <4>1
      <4>3. \A i \in AttemptNos : i = j => A[c.node][i] = "NONE"
        BY <1>1, <1>8, <2>1, <4>2 DEF ServiceTypeOK
      <4>4. B = [A EXCEPT ![c.node][j] = "RUNNING"]
        BY <1>8, <3>2, <4>1 DEF AppendAttempt
      <4>5. A \in Table(AttemptNos, AttemptStatus \cup {"NONE"})
        BY <1>2, <1>8
      <4>6. \A n \in Nodes, i \in AttemptNos : (n = c.node /\ i = j) \/ B[n][i] = A[n][i]
        BY <4>4, <4>5 DEF Table
      <4>7. QED
        BY <4>3, <4>6
    <3>3. QED
      BY <2>1, <3>1, <3>2 DEF ConsumeAgentReport
  <2>4. QED
    BY <2>1, <2>2, <2>3, SilenceTells
<1>9. CASE c.op \in {"grant", "heartbeat", "release"}
  <2>1. c.node \in Nodes /\ c.no \in AttemptNos
    BY <1>9, CallFields
  <2>2. L = lease /\ A = attempt
    BY <1>9
  <2>3. PICK v \in {"live", "none"} :
          /\ EventsAfter(c) = <<LeaseEvent(c.node, c.no, v)>>
          /\ lease' = [lease EXCEPT ![c.node][c.no] = v] \/ (lease' = lease /\ lease[c.node][c.no] # "none" /\ v = "live")
          /\ UNCHANGED <<session, node, attempt, gates>>
    <3>1. CASE c.op = "grant"
      BY <3>1 DEF EventsAfter, Mutate, GrantLease
    <3>2. CASE c.op = "release"
      BY <3>2 DEF EventsAfter, Mutate, ReleaseLease
    <3>3. CASE c.op = "heartbeat"
      BY <3>3 DEF EventsAfter, Mutate, serviceVars
    <3>4. QED
      BY <1>9, <3>1, <3>2, <3>3
  <2>4. /\ L \in Table(AttemptNos, LeaseState)
        /\ \/ M = [L EXCEPT ![c.node][c.no] = v]
           \/ M = L /\ L[c.node][c.no] # "none" /\ v = "live"
    BY <1>2, <2>2, <2>3
  <2>5. s2 = s /\ nd2 = nd /\ g2 = g /\ B = A
    BY <1>9, <2>2, <2>3 DEF SeenFollows
  <2>6. /\ <<LeaseEvent(c.node, c.no, v)>> \in Seq(Event)
        /\ Agrees(t, s, nd, g, A, M, <<LeaseEvent(c.node, c.no, v)>>)
    BY <2>1, <2>4, LeaseTells
  <2>7. QED
    BY <2>3, <2>5, <2>6
<1>10. CASE c.op = "decide"
  <2>1. PICK v : v = DecisionTarget(c.action)
    OBVIOUS
  <2>2. /\ c.node \in Nodes /\ ApplyGateDecision(c.node, c.gate, c.action) /\ v \in NodeStatus
        /\ EventsAfter(c) = <<DecisionEvent(c.node, v)>>
    BY <1>10, <2>1, CallFields DEF EventsAfter, Mutate, DecisionTarget, DecisionAction, NodeStatus
  <2>3. s2 = s /\ nd2 = [nd EXCEPT ![c.node] = v] /\ g2 = g /\ B = A /\ M = L
    BY <1>10, <2>1, <2>2 DEF ApplyGateDecision, SeenFollows
  <2>4. /\ <<DecisionEvent(c.node, v)>> \in Seq(Event)
        /\ Agrees(t, s, [nd EXCEPT ![c.node] = v], g, A, L, <<DecisionEvent(c.node, v)>>)
    BY <1>2, <2>2, NodeTells
  <2>5. QED
    BY <2>2, <2>3, <2>4
<1>11. CASE c.op = "recover"
  <2>1. RecoverExpired /\ EventsAfter(c) = RecoveryEvents
    BY <1>11 DEF EventsAfter, Mutate
  <2>2. s2 = s /\ g2 = g /\ A = attempt /\ L = lease
    BY <1>11, <2>1 DEF RecoverExpired
  <2>3. nd2 = [n \in Nodes |-> IF Recoverable(n) THEN "QUEUED" ELSE nd[n]]
    BY <1>11 DEF SeenFollows
  <2>4. QED
    BY <1>1, <2>1, <2>2, <2>3, RecoverTold
<1>12. CASE c.op = "metadata"
  <2>1. UNCHANGED serviceVars /\ EventsAfter(c) = <<>>
    BY <1>12 DEF EventsAfter, Mutate
  <2>2. s2 = s /\ nd2 = nd /\ g2 = g /\ B = A /\ M = L
    BY <1>12, <2>1 DEF serviceVars, SeenFollows
  <2>3. QED
    BY <2>1, <2>2
<1>13. CASE c.op = "revise"
  <2>1. ApplyWorkflowRevision(c.removed, c.requeued) /\ EventsAfter(c) = <<>>
    BY <1>13 DEF EventsAfter, Mutate
  <2>2. s2 = s /\ nd2 = nd /\ g2 = g /\ B = A /\ M = L
    BY <1>13, <2>1 DEF ApplyWorkflowRevision, SeenFollows
  <2>3. QED
    BY <2>1, <2>2
<1>14. QED
  BY <1>3, <1>4, <1>5, <1>6, <1>7, <1>8, <1>9, <1>10, <1>11, <1>12, <1>13, CallFields

------------------------------------------------------------------------------
(* The calls keep the session well formed, and what they emit is well formed *)

LEMMA ExpiryIsCall ==
  ASSUME ServiceInv, NEW n \in Nodes, NEW i \in AttemptNos, ExpireLease(n, i)
  PROVE  ServiceNext
<1>1. i \in 1..count[n]
  <2>1. attempt[n][i] # "NONE"
    BY DEF ExpireLease, ServiceInv, LeasedIsRunning
  <2>2. QED
    BY <2>1 DEF ServiceInv, ServiceTypeOK, AttemptNos
<1>2. QED
  BY <1>1 DEF ServiceNext, PlanCall, ExecutionCall

LEMMA PutIsCall ==
  ASSUME ServiceInv, NEW c \in ServiceCalls, Mutate(c),
         c.op = "report" => c.no <= count[c.node]
  PROVE  [ServiceNext]_serviceVars
<1>1. CASE c.op = "session"
  BY <1>1, CallFields DEF Mutate, ServiceNext, PlanCall
<1>2. CASE c.op \in {"move", "complete", "fail", "requeue", "start", "record", "decide"}
  <2>1. c.node \in Nodes
    BY <1>2, CallFields
  <2>2. NodeCall(c.node)
    BY <1>2, CallFields DEF Mutate, NodeCall
  <2>3. QED
    BY <2>1, <2>2 DEF ServiceNext, PlanCall
<1>3. CASE c.op \in {"report", "grant", "release"}
  <2>1. c.node \in Nodes /\ c.no \in AttemptNos
    BY <1>3, CallFields
  <2>2. ConsumeAgentReport(c.node, c.no) \/ GrantLease(c.node, c.no) \/ ReleaseLease(c.node, c.no)
    BY <1>3 DEF Mutate
  <2>3. c.no \in 1..count[c.node]
    <3>1. CASE c.op = "report"
      BY <3>1, <2>1 DEF ServiceInv, ServiceTypeOK, AttemptNos
    <3>2. CASE c.op \in {"grant", "release"}
      <4>1. attempt[c.node][c.no] = "RUNNING"
        BY <3>2 DEF Mutate, GrantLease, CanGrantLease, ReleaseLease, CanReleaseLease
      <4>2. QED
        BY <2>1, <4>1 DEF ServiceInv, ServiceTypeOK, AttemptNos
    <3>3. QED
      BY <1>3, <3>1, <3>2
  <2>4. QED
    BY <2>1, <2>2, <2>3 DEF ServiceNext, PlanCall, ExecutionCall
<1>4. CASE c.op = "recover"
  BY <1>4 DEF Mutate, ServiceNext, PlanCall
<1>5. CASE c.op \in {"heartbeat", "metadata"}
  BY <1>5 DEF Mutate
<1>6. CASE c.op = "revise"
  BY <1>6, CallFields DEF Mutate, ServiceNext, RevisionCall
<1>7. QED
  BY <1>1, <1>2, <1>3, <1>4, <1>5, <1>6, CallFields

LEMMA EndEventsTyped ==
  ASSUME ServiceTypeOK, NEW n \in Nodes, NEW v \in AttemptStatus
  PROVE  /\ EndEvents(n, v) \in Seq(Event)
         /\ \A e \in Coming(EndEvents(n, v)) : e.tells = "execution"
<1>1. CASE LatestRuns(n)
  <2>1. PICK i \in AttemptNos : i = count[n]
    BY <1>1 DEF LatestRuns, ServiceTypeOK, AttemptNos
  <2>2. EndEvents(n, v) = <<ExecutionEvent(n, i, v)>>
    BY <1>1, <2>1 DEF EndEvents
  <2>3. ExecutionEvent(n, i, v) \in Event /\ ExecutionEvent(n, i, v).tells = "execution"
    BY DEF ExecutionEvent, Event
  <2>4. QED
    BY <2>2, <2>3, OneComes
<1>2. CASE ~LatestRuns(n)
  BY <1>2, NothingComes DEF EndEvents
<1>3. QED
  BY <1>1, <1>2

LEMMA EventsBeforeTyped ==
  ASSUME ServiceTypeOK, NEW c \in ServiceCalls
  PROVE  /\ EventsBefore(c) \in Seq(Event)
         /\ \A e \in Coming(EventsBefore(c)) : e.tells = "execution"
<1>1. CASE c.op \in {"complete", "fail"}
  <2>1. c.node \in Nodes /\ "SUCCEEDED" \in AttemptStatus /\ "FAILED" \in AttemptStatus
    BY <1>1, CallFields DEF AttemptStatus
  <2>2. EventsBefore(c) = EndEvents(c.node, "SUCCEEDED") \/ EventsBefore(c) = EndEvents(c.node, "FAILED")
    BY <1>1 DEF EventsBefore
  <2>3. QED
    BY <2>1, <2>2, EndEventsTyped
<1>2. CASE c.op \notin {"complete", "fail"}
  BY <1>2, NothingComes DEF EventsBefore
<1>3. QED
  BY <1>1, <1>2

LEMMA EventsAfterTyped ==
  ASSUME ServiceTypeOK, NEW c \in ServiceCalls, Mutate(c)
  PROVE  /\ EventsAfter(c) \in Seq(Event)
         /\ c.op # "session" => \A e \in Coming(EventsAfter(c)) : e.tells # "session"
<1> DEFINE Fine == /\ EventsAfter(c) \in Seq(Event)
                   /\ c.op # "session" => \A e \in Coming(EventsAfter(c)) : e.tells # "session"
<1>1. ASSUME NEW e \in Event, EventsAfter(c) = <<e>>, e.tells # "session" \/ c.op = "session"
      PROVE  Fine
  BY <1>1, OneComes
<1>2. CASE c.op = "session"
  <2>1. SessionEvent(c.to) \in Event
    BY <1>2, CallFields DEF SessionEvent, Event
  <2>2. EventsAfter(c) = <<SessionEvent(c.to)>>
    BY <1>2 DEF EventsAfter
  <2>3. QED
    BY <1>1, <1>2, <2>1, <2>2
<1>3. CASE c.op \in {"move", "complete", "fail"}
  <2>1. PICK v \in NodeStatus : EventsAfter(c) = <<NodeEvent(c.node, v)>>
    BY <1>3, CallFields DEF EventsAfter, NodeStatus
  <2>2. NodeEvent(c.node, v) \in Event /\ NodeEvent(c.node, v).tells = "node"
    BY <1>3, CallFields DEF NodeEvent, Event
  <2>3. QED
    BY <1>1, <2>1, <2>2
<1>4. CASE c.op = "requeue"
  <2>1. PICK E : E = EndEvents(c.node, "ABORTED")
    OBVIOUS
  <2>2. PICK f : f = NodeEvent(c.node, "QUEUED")
    OBVIOUS
  <2>3. EventsAfter(c) = E \o <<f>>
    BY <1>4, <2>1, <2>2 DEF EventsAfter
  <2>4. E \in Seq(Event) /\ \A e \in Coming(E) : e.tells = "execution"
    BY <1>4, <2>1, CallFields, EndEventsTyped DEF AttemptStatus
  <2>5. f \in Event /\ f.tells = "node"
    BY <1>4, <2>2, CallFields DEF NodeEvent, Event, NodeStatus
  <2>6. \A e \in Coming(E \o <<f>>) : e \in Coming(E) \/ e = f
    BY <2>4, <2>5, Follows
  <2>7. E \o <<f>> \in Seq(Event)
    BY <2>4, <2>5
  <2>8. QED
    BY <2>3, <2>4, <2>5, <2>6, <2>7
<1>5. CASE c.op = "recover"
  <2>1. EventsAfter(c) = RecoveryEvents
    BY <1>5 DEF EventsAfter
  <2>2. \A n, i, v : ExecutionEvent(n, i, v).tells = "execution" /\ NodeEvent(n, v).tells = "node"
    BY DEF ExecutionEvent, NodeEvent
  <2>3. QED
    BY <2>1, <2>2, RecoveryTells
<1>6. CASE c.op = "start"
  <2>1. c.node \in Nodes /\ StartAttempt(c.node) /\ EventsAfter(c) = StartEvents(c.node)
    BY <1>6, CallFields DEF EventsAfter, Mutate
  <2>2. PICK i \in AttemptNos : i = count[c.node] + 1
    <3>1. count[c.node] \in 0..MaxAttempts /\ count[c.node] < MaxAttempts /\ MaxAttempts \in Nat
      BY <2>1, BoundsAssumption DEF ServiceTypeOK, StartAttempt, AppendAttempt, CanAppendAttempt
    <3>2. QED
      BY <3>1 DEF AttemptNos
  <2>3. PICK e : e = ExecutionEvent(c.node, i, "RUNNING")
    OBVIOUS
  <2>4. EventsAfter(c) = <<e, e>>
    BY <2>1, <2>2, <2>3 DEF StartEvents
  <2>5. e \in Event /\ e.tells = "execution"
    BY <2>1, <2>3 DEF ExecutionEvent, Event, AttemptStatus
  <2>6. Coming(<<e, e>>) = {e} /\ <<e, e>> \in Seq(Event)
    <3>1. DOMAIN <<e, e>> = {1, 2} /\ <<e, e>>[1] = e /\ <<e, e>>[2] = e
      OBVIOUS
    <3>2. QED
      BY <3>1, <2>5 DEF Coming
  <2>7. QED
    BY <2>4, <2>5, <2>6
<1>7. CASE c.op \in {"grant", "heartbeat", "release"}
  <2>1. PICK v \in {"live", "none"} : EventsAfter(c) = <<LeaseEvent(c.node, c.no, v)>>
    BY <1>7 DEF EventsAfter
  <2>2. LeaseEvent(c.node, c.no, v) \in Event /\ LeaseEvent(c.node, c.no, v).tells = "lease"
    BY <1>7, CallFields DEF LeaseEvent, Event, LeaseState
  <2>3. QED
    BY <1>1, <2>1, <2>2
<1>8. CASE c.op = "record"
  <2>1. EventsAfter(c) = <<GateEvent(c.node)>>
    BY <1>8 DEF EventsAfter
  <2>2. GateEvent(c.node) \in Event /\ GateEvent(c.node).tells = "gate"
    BY <1>8, CallFields DEF GateEvent, Event
  <2>3. QED
    BY <1>1, <2>1, <2>2
<1>9. CASE c.op = "decide"
  <2>1. PICK v : v = DecisionTarget(c.action)
    OBVIOUS
  <2>2. c.node \in Nodes /\ v \in NodeStatus /\ EventsAfter(c) = <<DecisionEvent(c.node, v)>>
    BY <1>9, <2>1, CallFields DEF EventsAfter, DecisionTarget, DecisionAction, NodeStatus
  <2>3. DecisionEvent(c.node, v) \in Event /\ DecisionEvent(c.node, v).tells = "decision"
    BY <2>2 DEF DecisionEvent, Event
  <2>4. QED
    BY <1>1, <2>2, <2>3
<1>10. CASE c.op \in {"report", "revise", "metadata"}
  BY <1>10, NothingComes DEF EventsAfter
<1>11. QED
  BY <1>2, <1>3, <1>4, <1>5, <1>6, <1>7, <1>8, <1>9, <1>10, CallFields

------------------------------------------------------------------------------
(* One step of a caller or of the clock *)

LEMMA SessionStays ==
  ASSUME ServiceInv, UNCHANGED serviceVars
  PROVE  ServiceInv'
BY ServiceNextInv

(* the caller returns: it is idle and has nothing to emit                       *)
LEMMA Returned ==
  ASSUME ReportTypes, NEW w \in Callers, Return(w)
  PROVE  /\ step' \in [Callers -> {"idle", "got", "put"}] /\ copied' \in [Callers -> Nat]
         /\ request' \in [Callers -> ServiceCalls \cup {NoServiceCall}]
         /\ pending' \in [Callers -> Seq(Event)]
         /\ step'[w] = "idle" /\ pending'[w] = <<>>
         /\ \A v \in Callers \ {w} : /\ step'[v] = step[v] /\ request'[v] = request[v]
                                     /\ copied'[v] = copied[v] /\ pending'[v] = pending[v]
<1>1. /\ step' = [step EXCEPT ![w] = "idle"] /\ request' = [request EXCEPT ![w] = NoServiceCall]
      /\ copied' = [copied EXCEPT ![w] = 0] /\ pending' = [pending EXCEPT ![w] = <<>>]
  BY DEF Return
<1>2. <<>> \in Seq(Event)
  OBVIOUS
<1>3. QED
  BY <1>1, <1>2 DEF ReportTypes

LEMMA ReturnTypes ==
  ASSUME ReportTypes, NEW w \in Callers, Return(w), UNCHANGED count,
         version' \in Nat, begun' \in Nat, trace' \in Summary, alone' \in BOOLEAN, whole' \in BOOLEAN,
         UNCHANGED untold
  PROVE  ReportTypes'
<1>1. \A v \in Callers :
        /\ step'[v] = "idle" => pending'[v] = <<>>
        /\ step'[v] # "idle" => request'[v] \in ServiceCalls
        /\ step'[v] = "got" /\ request'[v].op = "report" => request'[v].no <= count'[request'[v].node]
  BY Returned DEF ReportTypes
<1>2. QED
  BY <1>1, Returned DEF ReportTypes

LEMMA GetTypes ==
  ASSUME ServiceInv, ReportTypes, NEW w \in Callers, NEW c \in ServiceCalls, GetSession(w, c)
  PROVE  ReportTypes'
<1>1. /\ step[w] = "idle" /\ begun' = begun + 1
      /\ step' = [step EXCEPT ![w] = "got"] /\ request' = [request EXCEPT ![w] = c]
      /\ copied' = [copied EXCEPT ![w] = version] /\ pending' = [pending EXCEPT ![w] = EventsBefore(c)]
      /\ alone' = (alone /\ AllReturned) /\ UNCHANGED <<version, trace, whole, untold, count>>
  BY DEF GetSession, serviceVars
<1>2. EventsBefore(c) \in Seq(Event)
  BY EventsBeforeTyped DEF ServiceInv
<1>3. c.op = "report" => c.no <= count[c.node]
  BY DEF GetSession, Legal
<1>4. alone' \in BOOLEAN
  BY <1>1 DEF AllReturned, ReportTypes
<1>5. QED
  BY <1>1, <1>2, <1>3, <1>4 DEF ReportTypes

LEMMA EmitTypes ==
  ASSUME ReportTypes, NEW w \in Callers, EmitEvent(w)
  PROVE  ReportTypes'
<1>1. /\ pending[w] # <<>> /\ trace' = ReadEvent(Head(pending[w]))
      /\ pending' = [pending EXCEPT ![w] = Tail(pending[w])]
      /\ UNCHANGED <<version, begun, request, step, copied, alone, whole, untold, count>>
  BY DEF EmitEvent, serviceVars
<1>2. pending[w] \in Seq(Event) /\ trace \in Summary /\ step[w] # "idle"
  BY <1>1 DEF ReportTypes
<1>3. Head(pending[w]) \in Event /\ Tail(pending[w]) \in Seq(Event)
  BY <1>1, <1>2, Appended
<1>4. trace' \in Summary
  BY <1>1, <1>2, <1>3, ReaderReads
<1>5. QED
  BY <1>1, <1>2, <1>3, <1>4 DEF ReportTypes

LEMMA PutTypes ==
  ASSUME ServiceInv, ReportTypes, NEW w \in Callers, PutSession(w)
  PROVE  ReportTypes' /\ ServiceInv' /\ HistoryFrozen
<1>1. PICK c \in ServiceCalls : c = request[w]
  BY DEF PutSession, ReportTypes
<1>2. /\ step[w] = "got" /\ version' = version + 1 /\ Mutate(c)
      /\ step' = [step EXCEPT ![w] = "put"] /\ copied' = [copied EXCEPT ![w] = version + 1]
      /\ pending' = [pending EXCEPT ![w] = EventsAfter(c)]
      /\ untold' = LeftUntold(c)
      /\ UNCHANGED <<begun, request, trace, alone, whole>>
  BY <1>1 DEF PutSession
<1>3. EventsAfter(c) \in Seq(Event)
  BY <1>2, EventsAfterTyped DEF ServiceInv
<1>4. [ServiceNext]_serviceVars
  BY <1>1, <1>2, PutIsCall DEF ReportTypes
<1>5. HistoryFrozen /\ ServiceInv'
  BY <1>4, CallHistory, ServiceNextInv
<1>6. ASSUME NEW v \in Callers, step'[v] = "got", request'[v].op = "report"
      PROVE  request'[v].no <= count'[request'[v].node]
  <2>1. step[v] = "got" /\ request' = request
    BY <1>2, <1>6 DEF ReportTypes
  <2>2. PICK d \in ServiceCalls : d = request[v]
    BY <2>1 DEF ReportTypes
  <2>3. d.op = "report" /\ d.node \in Nodes /\ d.no \in AttemptNos /\ d.no <= count[d.node]
    BY <1>6, <2>1, <2>2, CallFields DEF ReportTypes
  <2>4. count[d.node] <= count'[d.node] /\ count[d.node] \in Nat /\ count'[d.node] \in Nat
    BY <1>5, <2>3 DEF HistoryFrozen, ServiceInv, ServiceTypeOK
  <2>5. d.no \in Nat
    BY <2>3 DEF AttemptNos
  <2>6. d.no <= count'[d.node]
    BY <2>3, <2>4, <2>5
  <2>7. QED
    BY <2>1, <2>2, <2>6
<1>7. /\ version' \in Nat /\ copied' \in [Callers -> Nat]
      /\ step' \in [Callers -> {"idle", "got", "put"}] /\ pending' \in [Callers -> Seq(Event)]
  BY <1>2, <1>3 DEF ReportTypes
<1>8. \A v \in Callers : /\ step'[v] = "idle" => pending'[v] = <<>>
                         /\ step'[v] # "idle" => request'[v] \in ServiceCalls
  BY <1>1, <1>2 DEF ReportTypes
<1>9. untold' \in SUBSET Nodes
  BY <1>2 DEF LeftUntold, ReportTypes
<1>10. ReportTypes'
  <2>1. begun' \in Nat /\ request' \in [Callers -> ServiceCalls \cup {NoServiceCall}]
        /\ trace' \in Summary /\ alone' \in BOOLEAN /\ whole' \in BOOLEAN
    BY <1>2 DEF ReportTypes
  <2>2. QED
    BY <1>6, <1>7, <1>8, <1>9, <2>1 DEF ReportTypes
<1>11. QED
  BY <1>5, <1>10

------------------------------------------------------------------------------
(* The end of the session is told *)

(* nothing of the end is added, and what is dropped is not missed               *)
LEMMA EndStaysTold ==
  ASSUME EndIsTold, session' = session, trace'.terminal = trace.terminal,
         whole' => whole,
         \A v \in Callers : Coming(pending'[v]) \subseteq Coming(pending[v]),
         whole' => \A v \in Callers : Coming(pending'[v]) = Coming(pending[v])
  PROVE  EndIsTold'
<1>1. PICK C : C = [v \in Callers |-> Coming(pending[v])]
  OBVIOUS
<1>2. PICK D : D = [v \in Callers |-> Coming(pending'[v])]
  OBVIOUS
<1>3. PICK s, x : s = session /\ x = trace.terminal
  OBVIOUS
<1>4. /\ x # None => s = x
      /\ \A v \in Callers : \A e \in C[v] : e.tells = "session" /\ e.to \in TerminalSession => s = e.to
      /\ whole /\ s \in TerminalSession => x = s \/ \E v \in Callers : SessionEvent(s) \in C[v]
  BY <1>1, <1>3 DEF EndIsTold
<1>5. /\ \A v \in Callers : D[v] \subseteq C[v]
      /\ whole' => whole /\ \A v \in Callers : D[v] = C[v]
  BY <1>1, <1>2
<1>6. /\ \A v \in Callers : \A e \in D[v] : e.tells = "session" /\ e.to \in TerminalSession => s = e.to
      /\ whole' /\ s \in TerminalSession => x = s \/ \E v \in Callers : SessionEvent(s) \in D[v]
  BY <1>4, <1>5
<1>7. session' = s /\ trace'.terminal = x
  BY <1>3
<1>8. \A v \in Callers : Coming(pending'[v]) = D[v]
  BY <1>2
<1>9. /\ trace'.terminal # None => session' = trace'.terminal
      /\ \A v \in Callers : \A e \in Coming(pending'[v]) :
           e.tells = "session" /\ e.to \in TerminalSession => session' = e.to
      /\ whole' /\ session' \in TerminalSession =>
           trace'.terminal = session' \/ \E v \in Callers : SessionEvent(session') \in Coming(pending'[v])
  BY <1>4, <1>6, <1>7, <1>8
<1>10. QED
  BY <1>9 DEF EndIsTold

LEMMA ReturnEnd ==
  ASSUME ReportTypes, EndIsTold, NEW w \in Callers, Return(w), UNCHANGED session,
         trace'.terminal = trace.terminal, ~whole' \/ (pending[w] = <<>> /\ whole' = whole)
  PROVE  EndIsTold'
<1>1. \A v \in Callers : v = w \/ Coming(pending'[v]) = Coming(pending[v])
  BY Returned
<1>2. pending'[w] = <<>> /\ Coming(<<>>) = {}
  BY Returned, NothingComes
<1>3. Coming(pending'[w]) = {}
  BY <1>2
<1>4. whole' => Coming(pending[w]) = {}
  BY <1>2
<1>5. \A v \in Callers : Coming(pending'[v]) \subseteq Coming(pending[v])
  BY <1>1, <1>3
<1>6. whole' => \A v \in Callers : Coming(pending'[v]) = Coming(pending[v])
  BY <1>1, <1>3, <1>4
<1>7. whole' => whole
  OBVIOUS
<1>8. QED
  BY <1>5, <1>6, <1>7, EndStaysTold

LEMMA GetEnd ==
  ASSUME ServiceInv, ReportTypes, EndIsTold, NEW w \in Callers, NEW c \in ServiceCalls, GetSession(w, c)
  PROVE  EndIsTold'
<1>1. PICK P : P = EventsBefore(c)
  OBVIOUS
<1>2. \A e \in Coming(P) : e.tells = "execution"
  BY <1>1, EventsBeforeTyped DEF ServiceInv
<1>3. /\ pending' = [pending EXCEPT ![w] = P] /\ UNCHANGED <<session, trace, whole>>
      /\ pending[w] = <<>>
  BY <1>1 DEF GetSession, ReportTypes, serviceVars
<1>4. pending'[w] = P /\ \A v \in Callers \ {w} : pending'[v] = pending[v]
  BY <1>3 DEF ReportTypes
<1>5. PICK C : C = [v \in Callers |-> Coming(pending[v])]
  OBVIOUS
<1>6. PICK D : D = [v \in Callers |-> Coming(pending'[v])]
  OBVIOUS
<1>7. /\ C[w] = {} /\ \A e \in D[w] : e.tells = "execution"
      /\ \A v \in Callers \ {w} : D[v] = C[v]
  BY <1>2, <1>3, <1>4, <1>5, <1>6, NothingComes
<1>8. PICK s, x : s = session /\ x = trace.terminal
  OBVIOUS
<1>9. /\ x # None => s = x
      /\ \A v \in Callers : \A e \in C[v] : e.tells = "session" /\ e.to \in TerminalSession => s = e.to
      /\ whole /\ s \in TerminalSession => x = s \/ \E v \in Callers : SessionEvent(s) \in C[v]
  BY <1>5, <1>8 DEF EndIsTold
<1>10. \A v \in Callers : \A e \in D[v] : e.tells = "session" /\ e.to \in TerminalSession => s = e.to
  BY <1>7, <1>9
<1>11. whole /\ s \in TerminalSession => x = s \/ \E v \in Callers : SessionEvent(s) \in D[v]
  BY <1>7, <1>9
<1>12. session' = s /\ trace'.terminal = x /\ whole' = whole
  BY <1>3, <1>8
<1>13. \A v \in Callers : Coming(pending'[v]) = D[v]
  BY <1>6
<1>14. QED
  BY <1>9, <1>10, <1>11, <1>12, <1>13 DEF EndIsTold

LEMMA EmitEnd ==
  ASSUME ReportTypes, EndIsTold, NEW w \in Callers, pending[w] # <<>>,
         trace' = ReadEvent(Head(pending[w])), UNCHANGED session,
         \A v \in Callers \ {w} : pending'[v] = pending[v],
         \/ pending'[w] = Tail(pending[w]) /\ whole' = whole
         \/ pending'[w] = <<>> /\ ~whole'
  PROVE  EndIsTold'
<1>1. PICK P \in Seq(Event) : P = pending[w]
  BY DEF ReportTypes
<1>2. PICK e \in Event : e = Head(P)
  BY <1>1, Appended
<1>3. /\ e \in Coming(P) /\ Coming(Tail(P)) \subseteq Coming(P)
      /\ \A f \in Coming(P) : f = e \/ f \in Coming(Tail(P))
  BY <1>1, <1>2, Appended
<1>4. PICK C : C = [v \in Callers |-> Coming(pending[v])]
  OBVIOUS
<1>5. PICK D : D = [v \in Callers |-> Coming(pending'[v])]
  OBVIOUS
<1>6. PICK s, x, y : s = session /\ x = trace.terminal /\ y = trace'.terminal
  OBVIOUS
<1>7. y = IF e.tells = "session" /\ e.to \in TerminalSession THEN e.to ELSE x
  <2>1. PICK t, u : t = trace /\ u = ReadEvent(e)
    OBVIOUS
  <2>2. Reads(t, e, u)
    BY <2>1, <1>2, ReaderReads DEF ReportTypes
  <2>3. trace' = u
    BY <2>1, <1>1, <1>2
  <2>4. QED
    BY <2>1, <2>2, <2>3, <1>6 DEF Reads
<1>8. /\ x # None => s = x
      /\ \A v \in Callers : \A f \in C[v] : f.tells = "session" /\ f.to \in TerminalSession => s = f.to
      /\ whole /\ s \in TerminalSession => x = s \/ \E v \in Callers : SessionEvent(s) \in C[v]
  BY <1>4, <1>6 DEF EndIsTold
<1>9. /\ C[w] = Coming(P) /\ \A v \in Callers \ {w} : D[v] = C[v]
      /\ \/ D[w] = Coming(Tail(P)) /\ whole' = whole
         \/ D[w] = {} /\ ~whole'
  <2>1. C[w] = Coming(P) /\ \A v \in Callers \ {w} : D[v] = C[v]
    BY <1>1, <1>4, <1>5
  <2>2. CASE pending'[w] = Tail(pending[w]) /\ whole' = whole
    BY <2>1, <2>2, <1>1, <1>5
  <2>3. CASE pending'[w] = <<>> /\ ~whole'
    BY <2>1, <2>3, <1>5, NothingComes
  <2>4. QED
    BY <2>2, <2>3
<1>10. y # None => s = y
  BY <1>3, <1>7, <1>8, <1>9
<1>11. \A v \in Callers : \A f \in D[v] : f.tells = "session" /\ f.to \in TerminalSession => s = f.to
  BY <1>3, <1>8, <1>9
<1>12. whole' /\ s \in TerminalSession => y = s \/ \E v \in Callers : SessionEvent(s) \in D[v]
  <2>1. SUFFICES ASSUME whole', s \in TerminalSession
                 PROVE  y = s \/ \E v \in Callers : SessionEvent(s) \in D[v]
    OBVIOUS
  <2>2. whole /\ D[w] = Coming(Tail(P))
    BY <2>1, <1>9
  <2>3. CASE x = s
    BY <2>3, <1>3, <1>7, <1>8, <1>9
  <2>4. CASE \E v \in Callers : SessionEvent(s) \in C[v]
    <3>1. PICK v \in Callers : SessionEvent(s) \in C[v]
      BY <2>4
    <3>2. CASE v # w \/ SessionEvent(s) \in Coming(Tail(P))
      BY <3>1, <3>2, <2>2, <1>9
    <3>3. CASE SessionEvent(s) = e
      <4>1. e.tells = "session" /\ e.to = s
        BY <3>3 DEF SessionEvent
      <4>2. QED
        BY <4>1, <2>1, <1>7
    <3>4. QED
      BY <3>1, <3>2, <3>3, <1>3, <1>9
  <2>5. QED
    BY <2>1, <2>2, <2>3, <2>4, <1>8
<1>13. session' = s /\ trace'.terminal = y
  BY <1>6
<1>14. \A v \in Callers : Coming(pending'[v]) = D[v]
  BY <1>5
<1>15. QED
  BY <1>10, <1>11, <1>12, <1>13, <1>14 DEF EndIsTold

LEMMA PutEnd ==
  ASSUME ServiceInv, ReportTypes, EndIsTold, NEW w \in Callers, PutSession(w)
  PROVE  EndIsTold'
<1>1. PICK c \in ServiceCalls : c = request[w]
  BY DEF PutSession, ReportTypes
<1>2. PICK P : P = EventsAfter(c)
  OBVIOUS
<1>3. /\ pending[w] = <<>> /\ Mutate(c) /\ pending' = [pending EXCEPT ![w] = P]
      /\ UNCHANGED <<trace, whole>>
  BY <1>1, <1>2 DEF PutSession
<1>4. pending'[w] = P /\ \A v \in Callers \ {w} : pending'[v] = pending[v]
  BY <1>3 DEF ReportTypes
<1>5. PICK C : C = [v \in Callers |-> Coming(pending[v])]
  OBVIOUS
<1>6. PICK D : D = [v \in Callers |-> Coming(pending'[v])]
  OBVIOUS
<1>7. C[w] = {} /\ D[w] = Coming(P) /\ \A v \in Callers \ {w} : D[v] = C[v]
  BY <1>3, <1>4, <1>5, <1>6, NothingComes
<1>8. PICK s, x, r : s = session /\ x = trace.terminal /\ r = session'
  OBVIOUS
<1>9. /\ x # None => s = x
      /\ \A v \in Callers : \A e \in C[v] : e.tells = "session" /\ e.to \in TerminalSession => s = e.to
      /\ whole /\ s \in TerminalSession => x = s \/ \E v \in Callers : SessionEvent(s) \in C[v]
  BY <1>5, <1>8 DEF EndIsTold
<1>10. CASE c.op = "session"
  <2>1. MarkSession(c.to) /\ P = <<SessionEvent(c.to)>>
    BY <1>2, <1>3, <1>10 DEF Mutate, EventsAfter
  <2>2. s \notin TerminalSession /\ r = c.to
    BY <2>1, <1>8 DEF MarkSession, CanMarkSession, SessionTransitions, TerminalSession
  <2>3. x = None
    <3>1. x \in TerminalSession \cup {None}
      BY <1>8 DEF ReportTypes, Summary
    <3>2. QED
      BY <3>1, <2>2, <1>9
  <2>4. PICK e : e = SessionEvent(c.to)
    OBVIOUS
  <2>5. D[w] = {e} /\ e.to = r /\ SessionEvent(r) = e
    BY <2>1, <2>2, <2>4, <1>7, OneComes DEF SessionEvent
  <2>6. \A v \in Callers : \A f \in D[v] : f.tells = "session" /\ f.to \in TerminalSession => r = f.to
    BY <2>2, <2>5, <1>7, <1>9
  <2>7. SessionEvent(r) \in D[w]
    BY <2>5
  <2>8. session' = r /\ trace'.terminal = None /\ \A v \in Callers : Coming(pending'[v]) = D[v]
    BY <2>3, <1>3, <1>6, <1>8
  <2>9. QED
    BY <2>6, <2>7, <2>8 DEF EndIsTold
<1>11. CASE c.op # "session"
  <2>1. \A e \in Coming(P) : e.tells # "session"
    BY <1>2, <1>3, <1>11, EventsAfterTyped DEF ServiceInv
  <2>2. r = s
    BY <1>3, <1>8, <1>11 DEF Mutate, MoveNode, CompleteNode, FailNode, RequeueNode, StartAttempt, RecordGate,
          ConsumeAgentReport, GrantLease, ReleaseLease, ApplyGateDecision, RecoverExpired,
          ApplyWorkflowRevision, serviceVars
  <2>3. \A v \in Callers : \A e \in D[v] : e.tells = "session" /\ e.to \in TerminalSession => s = e.to
    BY <2>1, <1>7, <1>9
  <2>4. whole /\ s \in TerminalSession => x = s \/ \E v \in Callers : SessionEvent(s) \in D[v]
    BY <1>7, <1>9
  <2>5. /\ session' = s /\ trace'.terminal = x /\ whole' = whole
        /\ \A v \in Callers : Coming(pending'[v]) = D[v]
    BY <2>2, <1>3, <1>6, <1>8
  <2>6. QED
    BY <2>3, <2>4, <2>5, <1>9 DEF EndIsTold
<1>12. QED
  BY <1>10, <1>11

------------------------------------------------------------------------------
(* What calls tell that do not overlap *)

(* a lease that expires is still a lease                                        *)
LEMMA ExpiryAgrees ==
  ASSUME NEW t, NEW s, NEW nd, NEW g, NEW A, NEW L, NEW M, NEW P,
         \A n \in Nodes, i \in AttemptNos : L[n][i] = "none" <=> M[n][i] = "none",
         P \in Seq(Event), Agrees(t, s, nd, g, A, L, P)
  PROVE  Agrees(t, s, nd, g, A, M, P)
<1> DEFINE C == Coming(P)
<1>1. \A e \in C : e \in Event
  BY DEF Coming
<1> HIDE DEF C
<1>2. \A e \in C : IsTrue(e, s, nd, A, M)
  <2>1. ASSUME NEW e \in C PROVE IsTrue(e, s, nd, A, M)
    <3>1. IsTrue(e, s, nd, A, L) /\ e \in Event
      BY <1>1 DEF Agrees, C
    <3>2. e.tells \in {"execution", "lease"} => e.node \in Nodes /\ e.no \in AttemptNos
      BY <3>1 DEF Event
    <3>3. QED
      BY <3>1, <3>2 DEF IsTrue
  <2>2. QED
    BY <2>1
<1>3. TellsLeases(t, M, C)
  <2>1. ASSUME NEW n \in Nodes, NEW i \in AttemptNos
        PROVE  (<<n, i>> \in t.leased <=> M[n][i] # "none") \/ \E e \in C : Marks(e, n, i)
    <3>1. (<<n, i>> \in t.leased <=> L[n][i] # "none") \/ \E e \in C : Marks(e, n, i)
      BY DEF Agrees, TellsLeases, C
    <3>2. L[n][i] = "none" <=> M[n][i] = "none"
      OBVIOUS
    <3>3. QED
      BY <3>1, <3>2
  <2>2. QED
    BY <2>1 DEF TellsLeases
<1>4. QED
  BY <1>2, <1>3 DEF Agrees, C

(* the call of the one that is not idle agrees with what it will have told      *)
CallAgrees(w) ==
  Agrees(trace, session, Visible, gates, DueExecutions(w), DueLeases(w), pending[w])

Prepared(w) ==
  /\ version = copied[w]
  /\ request[w].op \in {"complete", "fail"} => Legal(request[w])
  /\ request[w].op = "heartbeat" => lease[request[w].node][request[w].no] # "none"
  /\ ~Closing(w) => pending[w] = <<>>

AllTold == Agrees(trace, session, Visible, gates, attempt, lease, <<>>)

LEMMA OneAtATime ==
  AloneIsTold <=>
    (alone =>
      /\ \A v, w \in Callers : step[v] # "idle" /\ step[w] # "idle" => v = w
      /\ \A w \in Callers : step[w] = "got" => Prepared(w)
      /\ whole /\ AllReturned => AllTold
      /\ whole => \A w \in Callers : step[w] # "idle" => CallAgrees(w))
BY DEF AloneIsTold, Prepared, AllTold, CallAgrees

(* a caller that returns was the only one, and all is told, unless its call was  *)
(* cut                                                                        *)
LEMMA ReturnAlone ==
  ASSUME ReportTypes, AloneIsTold, NEW w \in Callers, Return(w), step[w] # "idle",
         alone' = alone, whole' => whole /\ AllTold'
  PROVE  AloneIsTold'
<1> SUFFICES ASSUME alone' PROVE AloneIsTold'
  BY OneAtATime DEF AloneIsTold
<1>1. \A v \in Callers : v = w \/ step[v] = "idle"
  BY OneAtATime
<1>2. \A v \in Callers : step'[v] = "idle"
  BY <1>1, Returned
<1>3. whole' => AllTold'
  OBVIOUS
<1>4. whole' => Agrees(trace, session, Visible, gates, attempt, lease, <<>>)'
  BY <1>3 DEF AllTold
<1>5. QED
  BY <1>2, <1>4 DEF AloneIsTold

LEMMA NotClosing ==
  ASSUME NEW w \in Callers, ~Closing(w)
  PROVE  DueExecutions(w) = attempt /\ DueLeases(w) = lease
BY DEF DueExecutions, DueLeases

(* at its end a call has told all, and so have the failing ones before their put *)
LEMMA AtItsEnd ==
  ASSUME AloneIsTold, alone, whole, NEW w \in Callers, step[w] # "idle",
         pending[w] = <<>>, ~Closing(w)
  PROVE  AllTold
<1>1. CallAgrees(w)
  BY OneAtATime
<1>2. DueExecutions(w) = attempt /\ DueLeases(w) = lease
  BY NotClosing
<1>3. QED
  BY <1>1, <1>2 DEF CallAgrees, AllTold

LEMMA VisibleStays ==
  ASSUME UNCHANGED <<trace, untold, node>>
  PROVE  Visible' = Visible
BY DEF Visible, Seen

LEMMA AllStaysTold ==
  ASSUME AllTold, UNCHANGED <<trace, untold, session, node, gates, attempt, lease>>
  PROVE  AllTold'
BY VisibleStays DEF AllTold

LEMMA NoteAlone ==
  ASSUME ReportTypes, AloneIsTold, NEW w \in Callers, PutNote(w) \/ Finish(w)
  PROVE  AloneIsTold'
<1>1. /\ step[w] = "put" /\ pending[w] = <<>> /\ Return(w) /\ UNCHANGED <<trace, alone, whole, untold>>
      /\ UNCHANGED <<session, node, gates, attempt, lease>>
  BY DEF PutNote, Finish, NoteOutcome, serviceVars
<1>2. ~Closing(w) /\ step[w] # "idle"
  BY <1>1 DEF Closing
<1>3. CASE alone /\ whole
  <2>1. AllTold'
    BY <1>1, <1>2, <1>3, AtItsEnd, AllStaysTold
  <2>2. QED
    BY <1>1, <1>2, <1>3, <2>1, ReturnAlone
<1>4. CASE ~alone
  BY <1>1, <1>4 DEF AloneIsTold
<1>5. CASE ~whole
  BY <1>1, <1>2, <1>5, ReturnAlone
<1>6. QED
  BY <1>3, <1>4, <1>5

LEMMA RaiseAlone ==
  ASSUME ReportTypes, AloneIsTold, NEW w \in Callers, RaiseError(w)
  PROVE  AloneIsTold'
<1>1. /\ step[w] \in {"got", "put"} /\ pending[w] = <<>> /\ Return(w) /\ UNCHANGED <<trace, alone, whole, untold>>
      /\ UNCHANGED <<session, node, gates, attempt, lease>>
  BY DEF RaiseError, serviceVars
<1>2. CASE alone /\ whole
  <2>1. ~Closing(w)
    <3>1. ASSUME Closing(w) PROVE FALSE
      <4>1. step[w] = "got" /\ request[w].op \in {"complete", "fail"}
        BY <3>1 DEF Closing
      <4>2. version = copied[w] /\ Legal(request[w])
        BY <4>1, <1>2, OneAtATime DEF Prepared
      <4>3. QED
        BY <4>1, <4>2 DEF RaiseError
    <3>2. QED
      BY <3>1
  <2>2. AllTold'
    BY <1>1, <1>2, <2>1, AtItsEnd, AllStaysTold
  <2>3. QED
    BY <1>1, <1>2, <2>2, ReturnAlone
<1>3. CASE ~alone
  BY <1>1, <1>3 DEF AloneIsTold
<1>4. CASE ~whole
  BY <1>1, <1>4, ReturnAlone
<1>5. QED
  BY <1>2, <1>3, <1>4

LEMMA CutAlone ==
  ASSUME ReportTypes, AloneIsTold, NEW w \in Callers, ObserverFails(w) \/ CallIsCut(w)
  PROVE  AloneIsTold'
<1>1. Return(w) /\ whole' = FALSE /\ alone' = alone /\ step[w] # "idle"
  BY DEF ObserverFails, CallIsCut, ReportTypes
<1>2. QED
  BY <1>1, ReturnAlone

LEMMA GetAlone ==
  ASSUME ServiceInv, ReportTypes, AloneIsTold,
         NEW w \in Callers, NEW c \in ServiceCalls, GetSession(w, c)
  PROVE  AloneIsTold'
<1> SUFFICES ASSUME alone' PROVE AloneIsTold'
  BY DEF AloneIsTold
<1>1. /\ step' = [step EXCEPT ![w] = "got"] /\ request' = [request EXCEPT ![w] = c]
      /\ copied' = [copied EXCEPT ![w] = version] /\ pending' = [pending EXCEPT ![w] = EventsBefore(c)]
      /\ UNCHANGED <<version, trace, whole, untold, session, node, count, attempt, lease, gates>>
      /\ Legal(c) /\ alone /\ AllReturned
  BY DEF GetSession, serviceVars
<1>2. \A v \in Callers : v = w \/ step'[v] = "idle"
  BY <1>1 DEF AllReturned, ReportTypes
<1>3. step'[w] = "got" /\ request'[w] = c /\ copied'[w] = version /\ pending'[w] = EventsBefore(c)
  BY <1>1 DEF ReportTypes
<1>4. c.op \in {"complete", "fail"} => c.node \in Nodes
  BY CallFields
<1>5. Closing(w)' <=> c.op \in {"complete", "fail"} /\ LatestRuns(c.node)
  BY <1>1, <1>3 DEF Closing, LatestRuns
<1>6. ~Closing(w)' => EventsBefore(c) = <<>>
  BY <1>5 DEF EventsBefore, EndEvents
<1>7. c.op \in {"complete", "fail"} => Legal(c)'
  <2>1. CASE c.op = "complete"
    BY <2>1, <1>1 DEF Legal, CanMoveNode
  <2>2. CASE c.op = "fail"
    BY <2>2, <1>1 DEF Legal, CanMoveNode
  <2>3. QED
    BY <2>1, <2>2
<1>8. c.op = "heartbeat" => lease[c.node][c.no] # "none"
  BY <1>1 DEF Legal, CanHeartbeat
<1>9. Prepared(w)'
  <2>1. /\ version' = copied'[w] /\ (c.op \in {"complete", "fail"} => Legal(c)')
        /\ c.op = "heartbeat" => lease'[c.node][c.no] # "none"
        /\ ~Closing(w)' => pending'[w] = <<>>
    BY <1>1, <1>3, <1>6, <1>7, <1>8
  <2>2. Legal(request[w])' <=> Legal(c)'
    BY <1>3 DEF Legal
  <2>3. QED
    BY <1>3, <2>1, <2>2 DEF Prepared
<1>10. whole' => CallAgrees(w)'
  <2>1. SUFFICES ASSUME whole PROVE CallAgrees(w)'
    BY <1>1
  <2>2. AllTold
    BY <2>1, <1>1, OneAtATime
  <2>3. PICK t, s, nd, g, A, L : /\ t = trace /\ s = session /\ nd = Visible /\ g = gates
                                 /\ A = attempt /\ L = lease
    OBVIOUS
  <2>4. Agrees(t, s, nd, g, A, L, <<>>)
    BY <2>2, <2>3 DEF AllTold
  <2>5. PICK B, M, P : B = DueExecutions(w)' /\ M = DueLeases(w)' /\ P = EventsBefore(c)
    OBVIOUS
  <2>6. Agrees(t, s, nd, g, B, M, P)
    <3>1. CASE Closing(w)'
      <4>1. PICK n \in Nodes, i \in AttemptNos : n = c.node /\ i = count[c.node]
        BY <3>1, <1>4, <1>5 DEF LatestRuns, ServiceInv, ServiceTypeOK, AttemptNos
      <4>2. PICK v \in AttemptStatus : v = Verdict(c)
        BY DEF Verdict, AttemptStatus
      <4>3. Closed(w)' = <<n, i>> /\ Verdict(request[w])' = v
        BY <4>1, <4>2, <1>1, <1>3 DEF Closed, Verdict
      <4>4. B = [A EXCEPT ![n][i] = v] /\ M = [L EXCEPT ![n][i] = "none"]
        <5>1. /\ DueExecutions(w)' = [attempt' EXCEPT ![n][i] = v]
              /\ DueLeases(w)' = [lease' EXCEPT ![n][i] = "none"]
          BY <3>1, <4>3 DEF DueExecutions, DueLeases
        <5>2. QED
          BY <5>1, <2>3, <2>5, <1>1
      <4>5. P = <<ExecutionEvent(n, i, v)>>
        BY <2>5, <3>1, <4>1, <4>2, <1>5 DEF EventsBefore, EndEvents, Verdict
      <4>6. A \in Table(AttemptNos, AttemptStatus \cup {"NONE"}) /\ L \in Table(AttemptNos, LeaseState)
        BY <2>3 DEF ServiceInv, ServiceTypeOK, Table
      <4>7. Agrees(t, s, nd, g, [A EXCEPT ![n][i] = v], [L EXCEPT ![n][i] = "none"],
                   <<ExecutionEvent(n, i, v)>>)
        BY <2>4, <4>6, ClosingAgrees
      <4>8. QED
        BY <4>4, <4>5, <4>7
    <3>2. CASE ~Closing(w)'
      <4>1. DueExecutions(w)' = attempt' /\ DueLeases(w)' = lease'
        BY <3>2 DEF DueExecutions, DueLeases
      <4>2. B = A /\ M = L /\ P = <<>>
        BY <3>2, <4>1, <2>3, <2>5, <1>1, <1>6
      <4>3. QED
        BY <4>2, <2>4
    <3>3. QED
      BY <3>1, <3>2
  <2>7. /\ trace' = t /\ session' = s /\ Visible' = nd /\ gates' = g /\ pending'[w] = P
        /\ DueExecutions(w)' = B /\ DueLeases(w)' = M
    BY <1>1, <1>3, <2>3, <2>5, VisibleStays
  <2>8. Agrees(trace', session', Visible', gates', DueExecutions(w)', DueLeases(w)', pending'[w])
    BY <2>6, <2>7
  <2>9. QED
    BY <2>8 DEF CallAgrees
<1>11. QED
  <2>1. /\ \A v, u \in Callers : step'[v] # "idle" /\ step'[u] # "idle" => v = u
        /\ \A v \in Callers : step'[v] = "got" => Prepared(v)'
        /\ ~AllReturned'
        /\ whole' => \A v \in Callers : step'[v] # "idle" => CallAgrees(v)'
    BY <1>2, <1>3, <1>9, <1>10 DEF AllReturned
  <2>2. QED
    BY <2>1 DEF AloneIsTold, Prepared, CallAgrees

(* what is read of a node is what it is to tell already                          *)
LEMMA ReadSeen ==
  ASSUME NEW t, NEW u, NEW U, NEW nd, NEW v, v = Seen(t, U, nd), NEW s, NEW A, NEW L,
         NEW e, IsTrue(e, s, v, A, L), Reads(t, e, u)
  PROVE  Seen(u, U, nd) = v
<1>1. \A n \in Nodes : v[n] = IF n \in U THEN t.node[n] ELSE nd[n]
  BY DEF Seen
<1>2. ASSUME NEW n \in Nodes, n \in U PROVE u.node[n] = t.node[n]
  <2>1. u.node[n] = IF e.tells \in {"node", "decision"} /\ e.node = n THEN e.to ELSE t.node[n]
    BY DEF Reads
  <2>2. e.tells \in {"node", "decision"} /\ e.node = n => e.to = t.node[n]
    BY <1>1, <1>2 DEF IsTrue
  <2>3. QED
    BY <2>1, <2>2
<1>3. \A n \in Nodes : (IF n \in U THEN u.node[n] ELSE nd[n]) = (IF n \in U THEN t.node[n] ELSE nd[n])
  BY <1>2
<1>4. QED
  BY <1>3 DEF Seen

LEMMA EmitAlone ==
  ASSUME ReportTypes, AloneIsTold, NEW w \in Callers, EmitEvent(w)
  PROVE  AloneIsTold'
<1> SUFFICES ASSUME alone' PROVE AloneIsTold'
  BY DEF AloneIsTold
<1>1. /\ pending[w] # <<>> /\ trace' = ReadEvent(Head(pending[w]))
      /\ pending' = [pending EXCEPT ![w] = Tail(pending[w])]
      /\ UNCHANGED <<version, request, step, copied, alone, whole, untold>>
      /\ UNCHANGED <<session, node, count, attempt, lease, gates, decision>>
  BY DEF EmitEvent, serviceVars
<1>2. pending'[w] = Tail(pending[w]) /\ step[w] # "idle"
  BY <1>1 DEF ReportTypes
<1>3. \A v \in Callers : v = w \/ step'[v] = "idle"
  BY <1>1, <1>2, OneAtATime
<1>4. DueExecutions(w)' = DueExecutions(w) /\ DueLeases(w)' = DueLeases(w) /\ Closing(w)' = Closing(w)
  BY <1>1 DEF DueExecutions, DueLeases, Closing, Closed, LatestRuns, Verdict
<1>5. step'[w] = "got" => Prepared(w)'
  <2>1. SUFFICES ASSUME step[w] = "got" PROVE Prepared(w)'
    BY <1>1
  <2>2. Prepared(w)
    BY <2>1, <1>1, OneAtATime
  <2>3. Closing(w)
    BY <2>2, <1>1 DEF Prepared
  <2>4. request[w].op \in {"complete", "fail"} => Legal(request[w])'
    <3>1. PICK c : c = request[w] /\ c = request'[w]
      BY <1>1
    <3>2. c.op \in {"complete", "fail"} => Legal(c)
      BY <2>2, <3>1 DEF Prepared
    <3>3. c.op \in {"complete", "fail"} => Legal(c)'
      BY <1>1, <3>2 DEF Legal, CanMoveNode
    <3>4. QED
      BY <3>1, <3>3 DEF Legal
  <2>5. QED
    BY <1>1, <1>4, <2>2, <2>3, <2>4 DEF Prepared
<1>6. whole' => CallAgrees(w)'
  <2>1. SUFFICES ASSUME whole PROVE CallAgrees(w)'
    BY <1>1
  <2>2. PICK t, u, s, nd, g, A, L :
          /\ t = trace /\ u = trace' /\ s = session /\ nd = Visible /\ g = gates
          /\ A = DueExecutions(w) /\ L = DueLeases(w)
    OBVIOUS
  <2>3. PICK P \in Seq(Event) : P = pending[w]
    BY DEF ReportTypes
  <2>4. Agrees(t, s, nd, g, A, L, P)
    BY <2>1, <2>2, <2>3, <1>1, <1>2, OneAtATime DEF CallAgrees
  <2>5. Reads(t, Head(P), u)
    <3>1. PICK e \in Event : e = Head(P)
      BY <2>3, <1>1, Appended
    <3>2. Reads(trace, e, ReadEvent(e))
      BY ReaderReads DEF ReportTypes
    <3>3. PICK z : z = ReadEvent(e)
      OBVIOUS
    <3>4. Reads(t, e, z)
      BY <3>2, <3>3, <2>2
    <3>5. u = z
      BY <1>1, <2>2, <2>3, <3>1, <3>3
    <3>6. QED
      BY <3>1, <3>4, <3>5
  <2>6. P # <<>>
    BY <2>3, <1>1
  <2>7. Agrees(u, s, nd, g, A, L, Tail(P))
    BY <2>4, <2>5, <2>6, ReadAgrees
  <2>8. Visible' = nd
    <3>1. PICK e, U, st : e = Head(P) /\ U = untold /\ st = node
      OBVIOUS
    <3>2. IsTrue(e, s, nd, A, L)
      <4>1. e \in Coming(P)
        BY <2>6, <3>1, Appended
      <4>2. QED
        BY <2>4, <4>1 DEF Agrees
    <3>3. nd = Seen(t, U, st)
      BY <2>2, <3>1 DEF Visible
    <3>4. Seen(u, U, st) = nd
      BY <2>5, <3>1, <3>2, <3>3, ReadSeen
    <3>5. Visible' = Seen(trace', untold', node')
      BY DEF Visible, Seen
    <3>6. trace' = u /\ untold' = U /\ node' = st
      BY <1>1, <2>2, <3>1
    <3>7. QED
      BY <3>4, <3>5, <3>6
  <2>9. /\ trace' = u /\ session' = s /\ Visible' = nd /\ gates' = g /\ pending'[w] = Tail(P)
        /\ DueExecutions(w)' = A /\ DueLeases(w)' = L
    BY <1>1, <1>2, <1>4, <2>2, <2>3, <2>8
  <2>10. Agrees(trace', session', Visible', gates', DueExecutions(w)', DueLeases(w)', pending'[w])
    BY <2>7, <2>9
  <2>11. QED
    BY <2>10 DEF CallAgrees
<1>7. QED
  <2>1. /\ \A v, u \in Callers : step'[v] # "idle" /\ step'[u] # "idle" => v = u
        /\ \A v \in Callers : step'[v] = "got" => Prepared(v)'
        /\ ~AllReturned'
        /\ whole' => \A v \in Callers : step'[v] # "idle" => CallAgrees(v)'
    BY <1>1, <1>2, <1>3, <1>5, <1>6 DEF AllReturned
  <2>2. QED
    BY <2>1 DEF AloneIsTold, Prepared, CallAgrees

LEMMA PutAlone ==
  ASSUME ServiceInv, ReportTypes, AloneIsTold, NEW w \in Callers, PutSession(w)
  PROVE  AloneIsTold'
<1> SUFFICES ASSUME alone' PROVE AloneIsTold'
  BY DEF AloneIsTold
<1>1. PICK c \in ServiceCalls : c = request[w]
  BY DEF PutSession, ReportTypes
<1>2. /\ step[w] = "got" /\ pending[w] = <<>> /\ Mutate(c)
      /\ step' = [step EXCEPT ![w] = "put"] /\ pending' = [pending EXCEPT ![w] = EventsAfter(c)]
      /\ untold' = LeftUntold(c)
      /\ UNCHANGED <<request, trace, alone, whole>>
  BY <1>1 DEF PutSession
<1>3. step'[w] = "put" /\ pending'[w] = EventsAfter(c)
  BY <1>2 DEF ReportTypes
<1>4. \A v \in Callers : v = w \/ step'[v] = "idle"
  BY <1>2, OneAtATime DEF ReportTypes
<1>5. whole' => CallAgrees(w)'
  <2>1. SUFFICES ASSUME whole PROVE CallAgrees(w)'
    BY <1>2
  <2>2. PICK t, s, nd, g, A, L :
          /\ t = trace /\ s = session /\ nd = Visible /\ g = gates
          /\ A = DueExecutions(w) /\ L = DueLeases(w)
    OBVIOUS
  <2>3. Agrees(t, s, nd, g, A, L, <<>>)
    BY <2>1, <2>2, <1>2, OneAtATime DEF CallAgrees
  <2>4. IF c.op \in {"complete", "fail"} THEN A = attempt' /\ L = lease' ELSE A = attempt /\ L = lease
    <3>1. CASE c.op \in {"complete", "fail"}
      <4>1. Closing(w) <=> LatestRuns(c.node)
        BY <3>1, <1>1, <1>2 DEF Closing
      <4>2. EndRunningAttempt(c.node, Verdict(c))
        BY <3>1, <1>2 DEF Mutate, CompleteNode, FailNode, Verdict
      <4>3. CASE Closing(w)
        <5>1. PICK n, i, v : n = c.node /\ i = count[c.node] /\ v = Verdict(c)
          OBVIOUS
        <5>2. Closed(w) = <<n, i>> /\ Verdict(request[w]) = v
          BY <5>1, <1>1 DEF Closed
        <5>3. A = [attempt EXCEPT ![n][i] = v] /\ L = [lease EXCEPT ![n][i] = "none"]
          BY <4>3, <5>2, <2>2 DEF DueExecutions, DueLeases
        <5>4. attempt' = [attempt EXCEPT ![n][i] = v] /\ lease' = [lease EXCEPT ![n][i] = "none"]
          BY <4>1, <4>2, <4>3, <5>1 DEF EndRunningAttempt
        <5>5. QED
          BY <3>1, <5>3, <5>4
      <4>4. CASE ~Closing(w)
        BY <4>1, <4>2, <4>4, <2>2 DEF DueExecutions, DueLeases, EndRunningAttempt
      <4>5. QED
        BY <3>1, <4>3, <4>4
    <3>2. CASE c.op \notin {"complete", "fail"}
      BY <3>2, <1>1, <2>2 DEF Closing, DueExecutions, DueLeases
    <3>3. QED
      BY <3>1, <3>2
  <2>5. c.op = "heartbeat" => lease[c.node][c.no] # "none"
    BY <1>1, <1>2, OneAtATime DEF Prepared
  <2>6. PICK s2, nd2, g2, B, M :
          s2 = session' /\ nd2 = Visible' /\ g2 = gates' /\ B = attempt' /\ M = lease'
    OBVIOUS
  <2>7. Agrees(t, s2, nd2, g2, B, M, EventsAfter(c))
    <3>1. t \in Summary /\ \A n \in Nodes : t.node[n] = nd[n]
      BY <2>2, <2>3, ExactlyTold DEF ReportTypes
    <3>2. PICK U \in SUBSET Nodes : U = untold
      BY DEF ReportTypes
    <3>3. PICK U2 : U2 = LeftUntold(c)
      OBVIOUS
    <3>4. nd = Seen(t, U, node)
      BY <2>2, <3>2 DEF Visible
    <3>5. nd2 = Seen(t, U2, node')
      <4>1. Visible' = Seen(trace', untold', node')
        BY DEF Visible, Seen
      <4>2. trace' = t /\ untold' = U2
        BY <1>2, <2>2, <3>3
      <4>3. QED
        BY <2>6, <4>1, <4>2
    <3>6. SeenFollows(c, nd, nd2)
      BY <1>2, <3>1, <3>2, <3>3, <3>4, <3>5, PutSeen DEF ServiceInv
    <3>7. QED
      BY <1>2, <2>2, <2>3, <2>4, <2>5, <2>6, <3>6, PutTells
  <2>8. DueExecutions(w)' = attempt' /\ DueLeases(w)' = lease'
    BY <1>3 DEF Closing, DueExecutions, DueLeases
  <2>9. PICK P : P = EventsAfter(c)
    OBVIOUS
  <2>10. Agrees(t, s2, nd2, g2, B, M, P)
    BY <2>7, <2>9
  <2>11. /\ trace' = t /\ session' = s2 /\ Visible' = nd2 /\ gates' = g2 /\ pending'[w] = P
         /\ DueExecutions(w)' = B /\ DueLeases(w)' = M
    BY <1>2, <1>3, <2>2, <2>6, <2>8, <2>9
  <2>12. Agrees(trace', session', Visible', gates', DueExecutions(w)', DueLeases(w)', pending'[w])
    BY <2>10, <2>11
  <2>13. QED
    BY <2>12 DEF CallAgrees
<1>6. QED
  <2>1. /\ \A v, u \in Callers : step'[v] # "idle" /\ step'[u] # "idle" => v = u
        /\ \A v \in Callers : step'[v] # "got"
        /\ ~AllReturned'
        /\ whole' => \A v \in Callers : step'[v] # "idle" => CallAgrees(v)'
    BY <1>3, <1>4, <1>5 DEF AllReturned
  <2>2. QED
    BY <2>1 DEF AloneIsTold, CallAgrees

LEMMA TickAlone ==
  ASSUME ServiceInv, ReportTypes, AloneIsTold, NEW n \in Nodes, NEW i \in AttemptNos,
         ExpireLease(n, i), UNCHANGED eventVars
  PROVE  AloneIsTold'
<1> SUFFICES ASSUME alone' PROVE AloneIsTold'
  BY DEF AloneIsTold
<1>1. /\ lease[n][i] = "live" /\ lease' = [lease EXCEPT ![n][i] = "expired"]
      /\ UNCHANGED <<session, node, count, attempt, gates, decision>>
      /\ UNCHANGED <<version, request, step, copied, pending, trace, alone, whole, untold>>
  BY DEF ExpireLease, eventVars
<1>2. PICK L, M : L = lease /\ M = lease'
  OBVIOUS
<1>3. L \in Table(AttemptNos, LeaseState) /\ M \in Table(AttemptNos, LeaseState)
  BY <1>1, <1>2 DEF ServiceInv, ServiceTypeOK, Table, LeaseState
<1>4. \A m \in Nodes, j \in AttemptNos : L[m][j] = "none" <=> M[m][j] = "none"
  BY <1>1, <1>2, <1>3 DEF Table
<1>5. whole /\ AllReturned => AllTold'
  <2>1. SUFFICES ASSUME whole, AllReturned PROVE AllTold'
    OBVIOUS
  <2>2. PICK t, s, nd, g, A : t = trace /\ s = session /\ nd = Visible /\ g = gates /\ A = attempt
    OBVIOUS
  <2>3. Agrees(t, s, nd, g, A, L, <<>>)
    BY <2>1, <2>2, <1>1, <1>2, OneAtATime DEF AllTold
  <2>4. <<>> \in Seq(Event)
    OBVIOUS
  <2>5. Agrees(t, s, nd, g, A, M, <<>>)
    BY <2>3, <2>4, <1>4, ExpiryAgrees
  <2>6. trace' = t /\ session' = s /\ Visible' = nd /\ gates' = g /\ attempt' = A /\ lease' = M
    BY <1>1, <1>2, <2>2, VisibleStays
  <2>7. Agrees(trace', session', Visible', gates', attempt', lease', <<>>)
    BY <2>5, <2>6
  <2>8. QED
    BY <2>7 DEF AllTold
<1>6. ASSUME NEW w \in Callers, step[w] # "idle", whole PROVE CallAgrees(w)'
  <2>1. PICK t, s, nd, g, A, K, N :
          /\ t = trace /\ s = session /\ nd = Visible /\ g = gates
          /\ A = DueExecutions(w) /\ K = DueLeases(w) /\ N = DueLeases(w)'
    OBVIOUS
  <2>2. PICK P \in Seq(Event) : P = pending[w]
    BY DEF ReportTypes
  <2>3. Agrees(t, s, nd, g, A, K, P)
    BY <1>1, <1>6, <2>1, <2>2, OneAtATime DEF CallAgrees
  <2>4. DueExecutions(w)' = DueExecutions(w) /\ (Closing(w)' <=> Closing(w)) /\ Closed(w)' = Closed(w)
    BY <1>1 DEF DueExecutions, Closing, Closed, LatestRuns, Verdict
  <2>5. \A m \in Nodes, j \in AttemptNos : K[m][j] = "none" <=> N[m][j] = "none"
    <3>1. CASE Closing(w)
      <4>1. PICK a, b : a = Closed(w)[1] /\ b = Closed(w)[2]
        OBVIOUS
      <4>2. K = [L EXCEPT ![a][b] = "none"] /\ N = [M EXCEPT ![a][b] = "none"]
        <5>1. K = [L EXCEPT ![a][b] = "none"]
          BY <3>1, <4>1, <2>1, <1>2 DEF DueLeases
        <5>2. DueLeases(w)' = [lease' EXCEPT ![Closed(w)'[1]][Closed(w)'[2]] = "none"]
          BY <3>1, <2>4 DEF DueLeases
        <5>3. QED
          BY <5>1, <5>2, <4>1, <2>1, <2>4, <1>2
      <4>3. QED
        BY <4>2, <1>3, <1>4 DEF Table
    <3>2. CASE ~Closing(w)
      <4>1. K = L /\ N = M
        BY <3>2, <2>1, <2>4, <1>2 DEF DueLeases
      <4>2. QED
        BY <4>1, <1>4
    <3>3. QED
      BY <3>1, <3>2
  <2>6. Agrees(t, s, nd, g, A, N, P)
    BY <2>3, <2>5, ExpiryAgrees
  <2>7. /\ trace' = t /\ session' = s /\ Visible' = nd /\ gates' = g /\ pending'[w] = P
        /\ DueExecutions(w)' = A /\ DueLeases(w)' = N
    BY <1>1, <2>1, <2>2, <2>4, VisibleStays
  <2>8. Agrees(trace', session', Visible', gates', DueExecutions(w)', DueLeases(w)', pending'[w])
    BY <2>6, <2>7
  <2>9. QED
    BY <2>8 DEF CallAgrees
<1>7. ASSUME NEW w \in Callers, step[w] = "got" PROVE Prepared(w)'
  <2>1. Prepared(w)
    BY <1>1, <1>7, OneAtATime
  <2>2. Closing(w)' <=> Closing(w)
    BY <1>1 DEF Closing, LatestRuns
  <2>3. PICK c \in ServiceCalls : c = request[w] /\ c = request'[w]
    BY <1>1, <1>7 DEF ReportTypes
  <2>4. c.op \in {"complete", "fail"} => Legal(c)'
    <3>1. c.op \in {"complete", "fail"} => Legal(c)
      BY <2>1, <2>3 DEF Prepared
    <3>2. QED
      BY <1>1, <3>1 DEF Legal, CanMoveNode
  <2>5. c.op = "heartbeat" => lease'[c.node][c.no] # "none"
    <3>1. SUFFICES ASSUME c.op = "heartbeat" PROVE lease'[c.node][c.no] # "none"
      OBVIOUS
    <3>2. c.node \in Nodes /\ c.no \in AttemptNos /\ L[c.node][c.no] # "none"
      BY <3>1, <2>1, <2>3, <1>2, CallFields DEF Prepared
    <3>3. M[c.node][c.no] # "none"
      BY <3>2, <1>4
    <3>4. QED
      BY <3>3, <1>2
  <2>6. Legal(request[w])' <=> Legal(c)'
    BY <2>3 DEF Legal
  <2>7. QED
    BY <1>1, <2>1, <2>2, <2>3, <2>4, <2>5, <2>6 DEF Prepared
<1>8. QED
  <2>1. /\ \A v, u \in Callers : step'[v] # "idle" /\ step'[u] # "idle" => v = u
        /\ \A v \in Callers : step'[v] = "got" => Prepared(v)'
        /\ whole' /\ AllReturned' => AllTold'
        /\ whole' => \A v \in Callers : step'[v] # "idle" => CallAgrees(v)'
    BY <1>1, <1>5, <1>6, <1>7, OneAtATime DEF AllReturned
  <2>2. QED
    BY <2>1 DEF AloneIsTold, Prepared, CallAgrees, AllTold

------------------------------------------------------------------------------
(* The trace, from any session that it was begun on *)

LEMMA OnTheWayInv ==
  ASSUME NEW s \in SessionStatus, NEW n \in NodeStatus, NEW a \in {"RUNNING", "SUCCEEDED"},
         NEW l \in LeaseState, NEW g \in Nat, OnTheWay(s, n, a, l, g),
         l # "none" => a = "RUNNING", a = "SUCCEEDED" => n = "COMPLETED"
  PROVE  ServiceInv
<1>1. /\ g <= MaxGates /\ session = s /\ node = [m \in Nodes |-> n]
      /\ count = [m \in Nodes |-> 1]
      /\ attempt = [m \in Nodes |-> [i \in AttemptNos |-> IF i = 1 THEN a ELSE "NONE"]]
      /\ lease = [m \in Nodes |-> [i \in AttemptNos |-> IF i = 1 THEN l ELSE "none"]]
      /\ gates = [m \in Nodes |-> g]
      /\ decision = [m \in Nodes |-> [i \in GateNos |-> IF i <= g THEN "UNDECIDED" ELSE "NONE"]]
      /\ noted = FALSE
      /\ redone = [m \in Nodes |-> {}] /\ revoked = [m \in Nodes |-> {}]
  BY DEF OnTheWay, None
<1>2. ServiceTypeOK
  <2>1. 1 \in 0..MaxAttempts /\ g \in 0..MaxGates /\ \A i \in AttemptNos : i # 1 <=> i > 1
    BY <1>1, BoundsAssumption DEF AttemptNos
  <2>2. node \in [Nodes -> NodeStatus] /\ count \in [Nodes -> 0..MaxAttempts] /\ gates \in [Nodes -> 0..MaxGates]
    BY <1>1, <2>1
  <2>3. attempt \in [Nodes -> [AttemptNos -> AttemptStatus \cup {"NONE"}]]
    BY <1>1 DEF AttemptStatus
  <2>4. lease \in [Nodes -> [AttemptNos -> LeaseState]]
    BY <1>1 DEF LeaseState
  <2>5. decision \in [Nodes -> [GateNos -> DecisionAction \cup {"UNDECIDED", "NONE"}]]
    BY <1>1
  <2>6. \A m \in Nodes : \A i \in AttemptNos : attempt[m][i] = "NONE" <=> i > count[m]
    BY <1>1, <2>1
  <2>7. QED
    BY <1>1, <2>2, <2>3, <2>4, <2>5, <2>6 DEF ServiceTypeOK
<1>3. LeasedIsRunning /\ OneSuccess /\ FailureIsFinal
  BY <1>1 DEF LeasedIsRunning, OneSuccess, FailureIsFinal
<1>4. DecisionsBind
  BY <1>1 DEF DecisionsBind
<1>5. QED
  BY <1>2, <1>3, <1>4 DEF ServiceInv

LEMMA EventsInitInv == EventsInit => TraceInv
<1> SUFFICES ASSUME EventsInit PROVE TraceInv
  OBVIOUS
<1>1. ServiceInv /\ session \notin TerminalSession
  <2>1. CASE ServiceInit
    BY <2>1, ServiceInitInv DEF ServiceInit, TerminalSession
  <2>2. CASE \/ OnTheWay("RUNNING", "RUNNING", "RUNNING", "live", 0)
             \/ OnTheWay("RUNNING", "RUNNING", "RUNNING", "expired", 0)
             \/ OnTheWay("RUNNING", "COMPLETED", "SUCCEEDED", "none", 0)
             \/ OnTheWay("WAITING_GATE", "PENDING_GATE", "RUNNING", "none", 1)
    <3>1. session \in {"RUNNING", "WAITING_GATE"}
      BY <2>2 DEF OnTheWay
    <3>2. ServiceInv
      BY <2>2, OnTheWayInv DEF SessionStatus, NodeStatus, LeaseState
    <3>3. QED
      BY <3>1, <3>2 DEF TerminalSession
  <2>3. QED
    BY <2>1, <2>2 DEF EventsInit
<1>2. /\ trace.session = session /\ trace.terminal = None /\ trace.gates = gates
      /\ trace.node = node /\ trace.execution = attempt
      /\ \A m \in Nodes, i \in AttemptNos : <<m, i>> \in trace.leased <=> lease[m][i] # "none"
      /\ trace \in Summary
  <2>1. trace = Told
    BY DEF EventsInit
  <2>2. trace \in Summary
    <3>1. /\ session \in SessionStatus /\ gates \in [Nodes -> Nat] /\ node \in [Nodes -> NodeStatus]
          /\ attempt \in Table(AttemptNos, AttemptStatus \cup {"NONE"})
      BY <1>1, BoundsAssumption DEF ServiceInv, ServiceTypeOK, Table
    <3>2. QED
      BY <2>1, <3>1 DEF Told, Summary
  <2>3. QED
    BY <2>1, <2>2 DEF Told
<1>3. AllTold
  <2>1. PICK t, s, nd, g, A, L : /\ t = trace /\ s = session /\ nd = Visible /\ g = gates
                                 /\ A = attempt /\ L = lease
    OBVIOUS
  <2>2. /\ t.session = s /\ t.gates = g /\ \A n \in Nodes : t.node[n] = nd[n]
        /\ \A n \in Nodes, i \in AttemptNos :
             /\ t.execution[n][i] = "NONE" \/ t.execution[n][i] = A[n][i]
             /\ <<n, i>> \in t.leased <=> L[n][i] # "none"
    <3>1. \A n \in Nodes : Visible[n] = node[n]
      BY DEF EventsInit, Visible, Seen
    <3>2. QED
      BY <1>2, <2>1, <3>1
  <2>3. Agrees(t, s, nd, g, A, L, <<>>)
    BY <2>2, ExactlyTold
  <2>4. QED
    BY <2>1, <2>3 DEF AllTold
<1>4. /\ version \in Nat /\ begun \in Nat /\ copied \in [Callers -> Nat]
      /\ step = [w \in Callers |-> "idle"] /\ request = [w \in Callers |-> NoServiceCall]
      /\ pending = [w \in Callers |-> <<>>] /\ alone \in BOOLEAN /\ whole \in BOOLEAN
      /\ untold = {}
  BY DEF EventsInit
<1>5. ReportTypes
  <2>1. <<>> \in Seq(Event)
    OBVIOUS
  <2>2. QED
    BY <1>2, <1>4, <2>1 DEF ReportTypes
<1>6. EndIsTold
  <2>1. \A w \in Callers : Coming(pending[w]) = {}
    BY <1>4, NothingComes
  <2>2. QED
    BY <1>1, <1>2, <2>1 DEF EndIsTold
<1>7. AloneIsTold
  BY <1>3, <1>4 DEF AloneIsTold, AllTold
<1>8. QED
  BY <1>1, <1>5, <1>6, <1>7 DEF TraceInv

LEMMA EventsNextInv == TraceInv /\ [EventsNext]_reportVars => TraceInv'
<1> SUFFICES ASSUME TraceInv, [EventsNext]_reportVars PROVE TraceInv'
  OBVIOUS
<1>1. ServiceInv /\ ReportTypes /\ EndIsTold /\ AloneIsTold
  BY DEF TraceInv
<1>2. ASSUME NEW w \in Callers, NEW c \in ServiceCalls, GetSession(w, c) PROVE TraceInv'
  <2>1. ServiceInv'
    BY <1>1, <1>2, SessionStays DEF GetSession
  <2>2. QED
    BY <1>1, <1>2, <2>1, GetTypes, GetEnd, GetAlone DEF TraceInv
<1>3. ASSUME NEW w \in Callers, EmitEvent(w) PROVE TraceInv'
  <2>1. ServiceInv'
    BY <1>1, <1>3, SessionStays DEF EmitEvent
  <2>2. EndIsTold'
    <3>1. /\ pending[w] # <<>> /\ trace' = ReadEvent(Head(pending[w])) /\ UNCHANGED session
          /\ pending' = [pending EXCEPT ![w] = Tail(pending[w])] /\ whole' = whole
      BY <1>3 DEF EmitEvent, serviceVars
    <3>2. /\ \A v \in Callers \ {w} : pending'[v] = pending[v]
          /\ pending'[w] = Tail(pending[w]) /\ whole' = whole
      BY <1>1, <3>1 DEF ReportTypes
    <3>3. QED
      BY <1>1, <3>1, <3>2, EmitEnd
  <2>3. QED
    BY <1>1, <1>3, <2>1, <2>2, EmitTypes, EmitAlone DEF TraceInv
<1>4. ASSUME NEW w \in Callers, PutSession(w) PROVE TraceInv'
  BY <1>1, <1>4, PutTypes, PutEnd, PutAlone DEF TraceInv
<1>5. ASSUME NEW w \in Callers, PutNote(w) \/ Finish(w) \/ RaiseError(w) PROVE TraceInv'
  <2>1. ServiceInv'
    <3>1. CASE UNCHANGED serviceVars
      BY <3>1, <1>1, SessionStays
    <3>2. CASE NoteOutcome
      BY <3>2, <1>1 DEF NoteOutcome, ServiceInv, ServiceTypeOK, LeasedIsRunning, OneSuccess,
                        FailureIsFinal, DecisionsBind
    <3>3. QED
      BY <1>5, <3>1, <3>2 DEF PutNote, Finish, RaiseError
  <2>2. /\ pending[w] = <<>> /\ Return(w) /\ UNCHANGED <<session, count, begun, trace, alone, whole, untold>>
        /\ version' = version \/ version' = version + 1
    BY <1>5 DEF PutNote, Finish, RaiseError, NoteOutcome, serviceVars
  <2>3. /\ version' \in Nat /\ begun' \in Nat /\ trace' \in Summary
        /\ alone' \in BOOLEAN /\ whole' \in BOOLEAN
    BY <1>1, <2>2 DEF ReportTypes
  <2>4. ReportTypes'
    BY <1>1, <2>2, <2>3, ReturnTypes
  <2>5. EndIsTold'
    BY <1>1, <2>2, ReturnEnd
  <2>6. AloneIsTold'
    BY <1>1, <1>5, NoteAlone, RaiseAlone
  <2>7. QED
    BY <2>1, <2>4, <2>5, <2>6 DEF TraceInv
<1>6. ASSUME NEW w \in Callers, ObserverFails(w) \/ CallIsCut(w) PROVE TraceInv'
  <2>1. /\ UNCHANGED serviceVars /\ UNCHANGED <<session, count, version, begun, alone, untold>>
        /\ Return(w) /\ whole' = FALSE
        /\ trace' = trace \/ (pending[w] # <<>> /\ trace' = ReadEvent(Head(pending[w])))
    BY <1>6 DEF ObserverFails, CallIsCut, serviceVars
  <2>2. ServiceInv' /\ AloneIsTold'
    BY <1>1, <1>6, <2>1, SessionStays, CutAlone
  <2>3. trace' \in Summary
    <3>1. CASE pending[w] # <<>> /\ trace' = ReadEvent(Head(pending[w]))
      <4>1. Head(pending[w]) \in Event
        BY <1>1, <3>1, Appended DEF ReportTypes
      <4>2. QED
        BY <1>1, <3>1, <4>1, ReaderReads DEF ReportTypes
    <3>2. QED
      BY <1>1, <2>1, <3>1 DEF ReportTypes
  <2>4. ReportTypes'
    BY <1>1, <2>1, <2>3, ReturnTypes DEF ReportTypes
  <2>5. EndIsTold'
    <3>1. CASE trace' = trace
      BY <1>1, <2>1, <3>1, ReturnEnd
    <3>2. CASE pending[w] # <<>> /\ trace' = ReadEvent(Head(pending[w]))
      <4>1. /\ \A v \in Callers \ {w} : pending'[v] = pending[v]
            /\ pending'[w] = <<>> /\ ~whole'
        BY <1>1, <2>1, Returned
      <4>2. QED
        BY <1>1, <2>1, <3>2, <4>1, EmitEnd
    <3>3. QED
      BY <2>1, <3>1, <3>2
  <2>6. QED
    BY <2>2, <2>4, <2>5 DEF TraceInv
<1>7. ASSUME NEW n \in Nodes, NEW i \in AttemptNos, ExpireLease(n, i), UNCHANGED eventVars
      PROVE  TraceInv'
  <2>1. UNCHANGED <<version, begun, request, step, copied, pending, trace, alone, whole, untold,
                   session, count>>
    BY <1>7 DEF ExpireLease, eventVars
  <2>2. ServiceInv'
    BY <1>1, <1>7, ExpiryIsCall, ServiceNextInv
  <2>3. ReportTypes' /\ EndIsTold'
    BY <1>1, <2>1 DEF ReportTypes, EndIsTold
  <2>4. QED
    BY <1>1, <1>7, <2>2, <2>3, TickAlone DEF TraceInv
<1>8. CASE UNCHANGED reportVars
  <2>1. UNCHANGED serviceVars /\ UNCHANGED eventVars
    BY <1>8 DEF reportVars
  <2>2. ServiceInv'
    BY <1>1, <2>1, SessionStays
  <2>3. /\ UNCHANGED <<version, begun, request, step, copied, pending, trace, alone, whole, untold>>
        /\ UNCHANGED <<session, node, count, attempt, lease, gates, decision>>
    BY <2>1 DEF serviceVars, eventVars
  <2>4. ReportTypes' /\ EndIsTold'
    BY <1>1, <2>3 DEF ReportTypes, EndIsTold
  <2>5. AloneIsTold'
    <3>1. \A w \in Callers : step[w] = "got" /\ Prepared(w) => Prepared(w)'
      <4>1. SUFFICES ASSUME NEW w \in Callers, step[w] = "got", Prepared(w) PROVE Prepared(w)'
        OBVIOUS
      <4>2. PICK c : c = request[w] /\ c = request'[w]
        BY <2>3
      <4>3. c.op \in {"complete", "fail"} => Legal(c)'
        <5>1. c.op \in {"complete", "fail"} => Legal(c)
          BY <4>1, <4>2 DEF Prepared
        <5>2. QED
          BY <2>3, <5>1 DEF Legal, CanMoveNode
      <4>4. Legal(request[w])' <=> Legal(c)'
        BY <4>2 DEF Legal
      <4>5. Closing(w)' <=> Closing(w)
        BY <2>3 DEF Closing, LatestRuns
      <4>6. QED
        BY <2>3, <4>1, <4>2, <4>3, <4>4, <4>5 DEF Prepared
    <3>2. \A w \in Callers : CallAgrees(w) => CallAgrees(w)'
      <4>1. ASSUME NEW w \in Callers
            PROVE  DueExecutions(w)' = DueExecutions(w) /\ DueLeases(w)' = DueLeases(w)
        BY <2>3 DEF DueExecutions, DueLeases, Closing, Closed, LatestRuns, Verdict
      <4>2. QED
        BY <2>3, <4>1, VisibleStays DEF CallAgrees
    <3>3. AllTold => AllTold'
      BY <2>3, AllStaysTold
    <3>4. alone' =>
            /\ \A v, u \in Callers : step'[v] # "idle" /\ step'[u] # "idle" => v = u
            /\ \A v \in Callers : step'[v] = "got" => Prepared(v)'
            /\ whole' /\ AllReturned' => AllTold'
            /\ whole' => \A v \in Callers : step'[v] # "idle" => CallAgrees(v)'
      BY <1>1, <2>3, <3>1, <3>2, <3>3, OneAtATime DEF AllReturned
    <3>5. QED
      BY <3>4 DEF AloneIsTold, Prepared, CallAgrees, AllTold
  <2>6. QED
    BY <2>2, <2>4, <2>5 DEF TraceInv
<1>9. QED
  BY <1>2, <1>3, <1>4, <1>5, <1>6, <1>7, <1>8 DEF EventsNext, ClockTicks

(* The trace of a session tells what became of it, whatever overlaps and is cut, *)
(* and of calls one after the other all that they did, except where a workflow   *)
(* revision, of which nothing is told, has moved a node since.                  *)
THEOREM TraceIsTrue == EventsSpec => []TraceTellsTheSession
<1>1. TraceInv => TraceTellsTheSession
  <2> SUFFICES ASSUME TraceInv PROVE TraceTellsTheSession
    OBVIOUS
  <2>1. ReportTypes /\ EndIsTold /\ AloneIsTold
    BY DEF TraceInv
  <2>2. trace.terminal # None => session = trace.terminal
    BY <2>1 DEF EndIsTold
  <2>3. AllReturned /\ whole /\ session \in TerminalSession => trace.terminal = session
    <3>1. AllReturned => \A w \in Callers : pending[w] = <<>>
      BY <2>1 DEF AllReturned, ReportTypes
    <3>2. AllReturned => \A w \in Callers : Coming(pending[w]) = {}
      BY <3>1, NothingComes
    <3>3. QED
      BY <2>1, <3>2 DEF EndIsTold
  <2>4. AllReturned /\ whole /\ alone =>
          /\ trace.session = session /\ trace.gates = gates
          /\ \A n \in Nodes : trace.node[n] = node[n] \/ n \in untold
          /\ \A n \in Nodes, i \in AttemptNos :
               /\ trace.execution[n][i] = "NONE" \/ trace.execution[n][i] = attempt[n][i]
               /\ <<n, i>> \in trace.leased <=> lease[n][i] # "none"
    <3>1. SUFFICES ASSUME AllTold
                   PROVE  /\ trace.session = session /\ trace.gates = gates
                          /\ \A n \in Nodes : trace.node[n] = node[n] \/ n \in untold
                          /\ \A n \in Nodes, i \in AttemptNos :
                               /\ trace.execution[n][i] = "NONE" \/ trace.execution[n][i] = attempt[n][i]
                               /\ <<n, i>> \in trace.leased <=> lease[n][i] # "none"
      BY <2>1, OneAtATime
    <3>2. PICK t, s, nd, g, A, L : /\ t = trace /\ s = session /\ nd = Visible /\ g = gates
                                   /\ A = attempt /\ L = lease
      OBVIOUS
    <3>3. Agrees(t, s, nd, g, A, L, <<>>)
      BY <3>1, <3>2 DEF AllTold
    <3>4. QED
      <4>1. \A n \in Nodes : t.node[n] = nd[n]
        BY <3>3, ExactlyTold
      <4>2. \A n \in Nodes : t.node[n] = node[n] \/ n \in untold
        BY <4>1, <3>2 DEF Visible, Seen
      <4>3. QED
        BY <3>2, <3>3, <4>2, ExactlyTold
  <2>5. QED
    BY <2>2, <2>3, <2>4 DEF TraceTellsTheSession, None
<1>2. QED
  BY EventsInitInv, EventsNextInv, <1>1, PTL DEF EventsSpec

------------------------------------------------------------------------------
(* The steps of overlapping calls, as calls of the service.                     *)

(* Only of a session that has ended is an outcome noted.                         *)
NotesTheEnd ==
  \A w \in Callers : step[w] = "put" /\ MayNote(request[w]) => session \in TerminalSession

LEMMA NotesInit == EventsInit => NotesTheEnd
BY DEF EventsInit, NotesTheEnd

LEMMA EventIsCall ==
  ASSUME TraceInv, NotesTheEnd, [EventsNext]_reportVars
  PROVE  [ServiceNext]_serviceVars
<1>1. ServiceInv /\ ReportTypes
  BY DEF TraceInv
<1>2. ASSUME NEW w \in Callers, PutSession(w)
      PROVE  [ServiceNext]_serviceVars
  <2>1. step[w] = "got" /\ Mutate(request[w]) /\ request[w] \in ServiceCalls
    BY <1>1, <1>2 DEF PutSession, ReportTypes
  <2>2. request[w].op = "report" => request[w].no <= count[request[w].node]
    BY <1>1, <2>1 DEF ReportTypes
  <2>3. QED
    BY <1>1, <2>1, <2>2, PutIsCall
<1>3. ASSUME NEW w \in Callers, PutNote(w)
      PROVE  [ServiceNext]_serviceVars
  BY <1>3 DEF PutNote, NotesTheEnd, ServiceNext, PlanCall
<1>4. ASSUME NEW n \in Nodes, NEW i \in AttemptNos, ExpireLease(n, i)
      PROVE  [ServiceNext]_serviceVars
  BY <1>1, <1>4, ExpiryIsCall
<1>5. ASSUME NEW w \in Callers,
             \/ \E c \in ServiceCalls : GetSession(w, c)
             \/ EmitEvent(w) \/ Finish(w) \/ RaiseError(w) \/ ObserverFails(w) \/ CallIsCut(w)
      PROVE  UNCHANGED serviceVars
  BY <1>5 DEF GetSession, EmitEvent, Finish, RaiseError, ObserverFails, CallIsCut
<1>6. UNCHANGED reportVars => UNCHANGED serviceVars
  BY DEF reportVars
<1>7. QED
  BY <1>2, <1>3, <1>4, <1>5, <1>6 DEF EventsNext, ClockTicks

LEMMA NotesNext ==
  ASSUME TraceInv, NotesTheEnd, [EventsNext]_reportVars
  PROVE  NotesTheEnd'
<1>1. ServiceInv /\ ReportTypes
  BY DEF TraceInv
<1>2. session \in TerminalSession => session' \in TerminalSession
  BY <1>1, EventIsCall, CallHistory DEF HistoryFrozen
<1>3. ASSUME NEW w \in Callers, step'[w] = "put", MayNote(request'[w])
      PROVE  session' \in TerminalSession
  <2>1. CASE step[w] = "put" /\ request'[w] = request[w]
    BY <1>2, <1>3, <2>1 DEF NotesTheEnd
  <2>2. CASE ~(step[w] = "put" /\ request'[w] = request[w])
    <3>1. PutSession(w)
      BY <1>1, <1>3, <2>2 DEF EventsNext, GetSession, EmitEvent, PutSession, PutNote, Finish, RaiseError,
         ObserverFails, CallIsCut, ClockTicks, Return, reportVars, eventVars, ReportTypes
    <3>2. request[w].op = "session" /\ request[w].to \in TerminalSession /\ request'[w] = request[w]
      BY <1>3, <3>1 DEF PutSession, MayNote, TerminalSession
    <3>3. MarkSession(request[w].to)
      BY <3>1, <3>2 DEF PutSession, Mutate
    <3>4. QED
      BY <3>2, <3>3 DEF MarkSession
  <2>3. QED
    BY <2>1, <2>2
<1>4. QED
  BY <1>3 DEF NotesTheEnd

(* Calls that overlap, conflict, are cut and let events out between their get and *)
(* their puts do to the session what the calls of SessionService do, one by one.  *)
THEOREM OverlappingCallsAreCalls == EventsSpec => [][ServiceNext]_serviceVars
<1>1. TraceInv /\ NotesTheEnd /\ [EventsNext]_reportVars => [ServiceNext]_serviceVars
  BY EventIsCall
<1>2. TraceInv /\ NotesTheEnd /\ [EventsNext]_reportVars => NotesTheEnd'
  BY NotesNext
<1>3. QED
  BY EventsInitInv, EventsNextInv, NotesInit, <1>1, <1>2, PTL DEF EventsSpec

(* So decisions bind until a workflow revision takes a node back, and history   *)
(* stays, under them, too.                                                     *)
THEOREM OverlapKeepsHistory == EventsSpec => []DecisionsBind /\ HistoryIsFrozen
<1>1. TraceInv => ServiceInv /\ DecisionsBind
  BY DEF TraceInv, ServiceInv
<1>2. ServiceInv /\ [ServiceNext]_serviceVars => [HistoryFrozen]_serviceVars
  BY CallHistory
<1>3. EventsSpec => []TraceInv
  BY EventsInitInv, EventsNextInv, PTL DEF EventsSpec
<1>4. QED
  BY OverlappingCallsAreCalls, <1>1, <1>2, <1>3, PTL DEF HistoryIsFrozen
==============================================================================
