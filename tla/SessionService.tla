---------------------------- MODULE SessionService ----------------------------
(***************************************************************************)
(* The durable aggregate of one RuntimeSession and the operations of        *)
(* control/session_service.py on it.  Every service method is get_session,  *)
(* a mutation of the copy and one versioned put; SessionStore.tla shows     *)
(* that a put which succeeds makes the whole method one atomic step, so     *)
(* here a method is one action: its guard is the legality check of the      *)
(* code, and a call whose guard is false raises and changes nothing.        *)
(*                                                                          *)
(* A node is a number, its place in WorkflowGraph.topological_order().  An  *)
(* execution (NodeAttempt) is a node and its attempt_no.  An execution is   *)
(* leased to the worker that opened it, so its lease token is not spelt     *)
(* out: the lease of an execution is "none" (no metadata), "live" or        *)
(* "expired".                                                               *)
(***************************************************************************)
EXTENDS Naturals, FiniteSets

CONSTANTS
  Nodes,         \* the nodes of the blueprint, in topological order
  Requires,      \* WorkflowNodeSpec.requires
  MaxAttempts,   \* bound: executions of a node that are explored
  MaxGates       \* bound: gates recorded on a node that are explored

ASSUME BlueprintAssumption ==
  /\ Nodes \subseteq Nat
  /\ Requires \in [Nodes -> SUBSET Nodes]
  /\ \A S \in SUBSET Nodes : S # {} => \E n \in S : Requires[n] \cap S = {}   \* no cycle

ASSUME BoundsAssumption == MaxAttempts \in Nat \ {0} /\ MaxGates \in Nat

VARIABLES
  session,    \* RuntimeSession.status
  node,       \* NodeState.status of every node
  count,      \* len(NodeState.attempts): the number of the latest attempt
  attempt,    \* NodeAttempt.status, "NONE" past the latest
  lease,      \* lease metadata of every attempt
  gates,      \* len(NodeState.gates)
  decision,   \* Gate.decision, "NONE" past the latest gate
  noted,      \* summary_output or error_message of a terminal session is stored
  redone,     \* successes from before a workflow revision that took their node back
  revoked     \* gates whose approval is from before such a revision

(* redone and revoked are what metadata["workflow_revisions"] and its times tell *)
(* of the executions and decisions; no call reads them, the properties do.    *)
serviceVars == <<session, node, count, attempt, lease, gates, decision, noted,
                 redone, revoked>>

------------------------------------------------------------------------------
(* control/states.py *)

SessionStatus == {"QUEUED", "RUNNING", "WAITING_GATE", "RESUMING",
                  "COMPLETED", "FAILED", "CANCELLED"}

TerminalSession == {"COMPLETED", "FAILED", "CANCELLED"}

NodeStatus == {"QUEUED", "RUNNING", "PENDING_GATE", "APPROVED",
               "NEEDS_REVISION", "COMPLETED", "FAILED", "STALE"}

AttemptStatus == {"RUNNING", "SUCCEEDED", "FAILED", "ABORTED"}

DecisionAction == {"APPROVE", "REVISE", "REPLAN", "REJECT"}

SessionTransitions ==
  {"QUEUED"} \X {"RUNNING", "CANCELLED"}
  \cup {"RUNNING"} \X {"WAITING_GATE", "COMPLETED", "FAILED", "CANCELLED"}
  \cup {"WAITING_GATE"} \X {"RESUMING", "CANCELLED", "FAILED"}
  \cup {"RESUMING"} \X {"RUNNING", "FAILED", "CANCELLED"}

NodeTransitions ==
  {"QUEUED"} \X {"RUNNING", "STALE"}
  \cup {"RUNNING"} \X {"QUEUED", "PENDING_GATE", "COMPLETED", "FAILED"}
  \cup {"PENDING_GATE"} \X {"APPROVED", "NEEDS_REVISION", "FAILED"}
  \cup {"APPROVED"} \X {"COMPLETED", "STALE"}
  \cup {"NEEDS_REVISION"} \X {"QUEUED", "FAILED"}
  \cup {"COMPLETED"} \X {"STALE"}
  \cup {"STALE"} \X {"QUEUED"}

AttemptNos == 1..MaxAttempts
GateNos == 1..MaxGates

LeaseState == {"none", "live", "expired"}

------------------------------------------------------------------------------
(* The operations.  CanX is the legality check of X: when it is false the   *)
(* method raises before its put.                                            *)

(* create_session, session_lifecycle.create_runtime_session *)
ServiceInit ==
  /\ session = "QUEUED"
  /\ node = [n \in Nodes |-> "QUEUED"]
  /\ count = [n \in Nodes |-> 0]
  /\ attempt = [n \in Nodes |-> [i \in AttemptNos |-> "NONE"]]
  /\ lease = [n \in Nodes |-> [i \in AttemptNos |-> "none"]]
  /\ gates = [n \in Nodes |-> 0]
  /\ decision = [n \in Nodes |-> [g \in GateNos |-> "NONE"]]
  /\ noted = FALSE
  /\ redone = [n \in Nodes |-> {}]
  /\ revoked = [n \in Nodes |-> {}]

(* latest_attempt() is an execution that still runs *)
LatestRuns(n) == count[n] > 0 /\ attempt[n][count[n]] = "RUNNING"

NoLease == [n \in Nodes |-> [i \in AttemptNos |-> "none"]]

(* _session_transition with transition_session: a terminal status clears    *)
(* every lease of the session                                               *)
CanMarkSession(s) == <<session, s>> \in SessionTransitions

MarkSession(s) ==
  /\ CanMarkSession(s)
  /\ session' = s
  /\ lease' = IF s \in TerminalSession THEN NoLease ELSE lease
  /\ UNCHANGED <<node, count, attempt, gates, decision, noted, redone, revoked>>

(* the second put of complete_session and of fail_session *)
NoteOutcome ==
  /\ noted' = TRUE
  /\ UNCHANGED <<session, node, count, attempt, lease, gates, decision, redone, revoked>>

(* _node_only_transition and start_node *)
CanMoveNode(n, s) == <<node[n], s>> \in NodeTransitions

MoveNode(n, s) ==
  /\ CanMoveNode(n, s)
  /\ node' = [node EXCEPT ![n] = s]
  /\ UNCHANGED <<session, count, attempt, lease, gates, decision, noted, redone, revoked>>

(* variant: the latest execution is ended whatever its status *)
EndLatestAttempt(n, s) ==
  IF count[n] > 0
  THEN /\ attempt' = [attempt EXCEPT ![n][count[n]] = s]
       /\ lease' = [lease EXCEPT ![n][count[n]] = "none"]
  ELSE UNCHANGED <<attempt, lease>>

(* complete_, fail_ and abort_running_attempt: only the latest attempt, and *)
(* only while it runs, ends, and its lease is cleared                       *)
EndRunningAttempt(n, s) ==
  IF LatestRuns(n)
  THEN /\ attempt' = [attempt EXCEPT ![n][count[n]] = s]
       /\ lease' = [lease EXCEPT ![n][count[n]] = "none"]
  ELSE UNCHANGED <<attempt, lease>>

CompleteNode(n) ==
  /\ CanMoveNode(n, "COMPLETED")
  /\ node' = [node EXCEPT ![n] = "COMPLETED"]
  /\ EndRunningAttempt(n, "SUCCEEDED")
  /\ UNCHANGED <<session, count, gates, decision, noted, redone, revoked>>

FailNode(n) ==
  /\ CanMoveNode(n, "FAILED")
  /\ node' = [node EXCEPT ![n] = "FAILED"]
  /\ EndRunningAttempt(n, "FAILED")
  /\ UNCHANGED <<session, count, gates, decision, noted, redone, revoked>>

(* requeue_node_for_retry with abort_and_requeue_node: PENDING_GATE passes  *)
(* through NEEDS_REVISION, and a node that is QUEUED stays                  *)
CanRequeueNode(n) ==
  \/ node[n] \in {"QUEUED", "PENDING_GATE"}
  \/ CanMoveNode(n, "QUEUED")

RequeueNode(n) ==
  /\ CanRequeueNode(n)
  /\ node' = [node EXCEPT ![n] = "QUEUED"]
  /\ EndRunningAttempt(n, "ABORTED")
  /\ UNCHANGED <<session, count, gates, decision, noted, redone, revoked>>

(* start_attempt appends a RUNNING execution whatever the node's status and *)
(* whatever its other executions do                                         *)
CanAppendAttempt(n) == count[n] < MaxAttempts

AppendAttempt(n) ==
  /\ CanAppendAttempt(n)
  /\ count' = [count EXCEPT ![n] = @ + 1]
  /\ attempt' = [attempt EXCEPT ![n][count[n] + 1] = "RUNNING"]

StartAttempt(n) ==
  /\ AppendAttempt(n)
  /\ UNCHANGED <<session, node, lease, gates, decision, noted, redone, revoked>>

(* consume_agent_report with _find_running_attempt: the output goes to the  *)
(* reported execution while it runs, else to a fresh one                    *)
ConsumeAgentReport(n, i) ==
  /\ \/ attempt[n][i] = "RUNNING" /\ UNCHANGED <<count, attempt>>
     \/ attempt[n][i] # "RUNNING" /\ AppendAttempt(n)
  /\ UNCHANGED <<session, node, lease, gates, decision, noted, redone, revoked>>

(* grant_execution_lease: neither the session's status nor the node's other *)
(* executions are looked at                                                 *)
CanGrantLease(n, i) == attempt[n][i] = "RUNNING" /\ lease[n][i] # "live"

GrantLease(n, i) ==
  /\ CanGrantLease(n, i)
  /\ lease' = [lease EXCEPT ![n][i] = "live"]
  /\ UNCHANGED <<session, node, count, attempt, gates, decision, noted, redone, revoked>>

(* release_execution_lease, which accepts an expired lease *)
CanReleaseLease(n, i) == attempt[n][i] = "RUNNING" /\ lease[n][i] # "none"

ReleaseLease(n, i) ==
  /\ CanReleaseLease(n, i)
  /\ lease' = [lease EXCEPT ![n][i] = "none"]
  /\ UNCHANGED <<session, node, count, attempt, gates, decision, noted, redone, revoked>>

(* variant: the liveness test is inverted *)
RecoverableLive(n) ==
  node[n] = "RUNNING" /\ LatestRuns(n) /\ lease[n][count[n]] = "live"

(* recover_expired_node_execution_leases: RUNNING nodes whose latest        *)
(* execution runs under a lease that is no longer live                      *)
Recoverable(n) ==
  /\ node[n] = "RUNNING"
  /\ LatestRuns(n)
  /\ lease[n][count[n]] = "expired"

RecoverExpired ==
  /\ \E n \in Nodes : Recoverable(n)
  /\ node' = [n \in Nodes |-> IF Recoverable(n) THEN "QUEUED" ELSE node[n]]
  /\ attempt' = [n \in Nodes |-> [i \in AttemptNos |->
                   IF Recoverable(n) /\ i = count[n]
                   THEN "ABORTED" ELSE attempt[n][i]]]
  /\ lease' = [n \in Nodes |-> [i \in AttemptNos |->
                 IF Recoverable(n) /\ i = count[n]
                 THEN "none" ELSE lease[n][i]]]
  /\ UNCHANGED <<session, count, gates, decision, noted, redone, revoked>>

(* record_gate *)
CanRecordGate(n) == gates[n] < MaxGates

RecordGate(n) ==
  /\ CanRecordGate(n)
  /\ gates' = [gates EXCEPT ![n] = @ + 1]
  /\ decision' = [decision EXCEPT ![n][gates[n] + 1] = "UNDECIDED"]
  /\ UNCHANGED <<session, node, count, attempt, lease, noted, redone, revoked>>

(* apply_gate_decision on any recorded gate, decided before or not: only    *)
(* the transition of its node is checked                                    *)
DecisionTarget(a) ==
  CASE a = "APPROVE" -> "APPROVED"
    [] a \in {"REVISE", "REPLAN"} -> "NEEDS_REVISION"
    [] a = "REJECT" -> "FAILED"

(* variant: the node's first gate is found, not the gate of the decision *)
ApplyToFirstGate(n, g, a) ==
  /\ g <= gates[n]
  /\ CanMoveNode(n, DecisionTarget(a))
  /\ decision' = [decision EXCEPT ![n][1] = a]
  /\ node' = [node EXCEPT ![n] = DecisionTarget(a)]
  /\ revoked' = [revoked EXCEPT ![n] = @ \ {1}]
  /\ UNCHANGED <<session, count, attempt, lease, gates, noted, redone>>

ApplyGateDecision(n, g, a) ==
  /\ g <= gates[n]
  /\ CanMoveNode(n, DecisionTarget(a))
  /\ decision' = [decision EXCEPT ![n][g] = a]
  /\ node' = [node EXCEPT ![n] = DecisionTarget(a)]
  /\ revoked' = [revoked EXCEPT ![n] = @ \ {g}]
  /\ UNCHANGED <<session, count, attempt, lease, gates, noted, redone>>

(* lease_expires_at passes.  Past the last attempt that is explored no      *)
(* lease expires: the bound on re-executions.                               *)
ExpireLease(n, i) ==
  /\ lease[n][i] = "live"
  /\ count[n] < MaxAttempts
  /\ lease' = [lease EXCEPT ![n][i] = "expired"]
  /\ UNCHANGED <<session, node, count, attempt, gates, decision, noted, redone, revoked>>

(* variant: a failed node is not refused *)
CanReviseAny(removed, requeued) ==
  /\ removed \cap requeued = {}
  /\ \A n \in removed : node[n] \notin {"RUNNING", "PENDING_GATE"}
  /\ \A n \in requeued : node[n] # "RUNNING"

(* apply_workflow_revision.  The caller gives both blueprints and the changed   *)
(* keys, so any nodes may be the removed and the requeued ones: the session's   *)
(* own nodes that are added, changed or depend on a change.  One that runs or   *)
(* failed stops it all; one that awaits a decision cannot be removed, and when  *)
(* requeued stays.  Neither the session's status nor a node's executions,       *)
(* leases, gates and decisions are looked at, and they stay.  A key that is new *)
(* to the session is one of Nodes that nobody has called yet, here and in       *)
(* add_workflow_nodes.                                                       *)
CanRevise(removed, requeued) ==
  /\ removed \cap requeued = {}
  /\ \A n \in removed : node[n] \notin {"RUNNING", "PENDING_GATE", "FAILED"}
  /\ \A n \in requeued : node[n] \notin {"RUNNING", "FAILED"}

TakenBack(removed, requeued) == removed \cup {n \in requeued : node[n] # "PENDING_GATE"}

ApplyWorkflowRevision(removed, requeued) ==
  /\ CanRevise(removed, requeued)
  /\ node' = [n \in Nodes |->
                IF n \notin TakenBack(removed, requeued) THEN node[n]
                ELSE IF n \in removed THEN "STALE" ELSE "QUEUED"]
  /\ redone' = [n \in Nodes |->
                  IF n \notin TakenBack(removed, requeued) THEN redone[n]
                  ELSE redone[n] \cup {i \in AttemptNos : attempt[n][i] = "SUCCEEDED"}]
  /\ revoked' = [n \in Nodes |->
                   IF n \notin TakenBack(removed, requeued) THEN revoked[n]
                   ELSE revoked[n] \cup {g \in GateNos : decision[n][g] = "APPROVE"}]
  /\ UNCHANGED <<session, count, attempt, lease, gates, decision, noted>>

------------------------------------------------------------------------------
(* The service under any caller: SessionService methods in any order *)

NodeCall(n) ==
  \/ \E s \in {"RUNNING", "PENDING_GATE", "APPROVED", "NEEDS_REVISION"} : MoveNode(n, s)
  \/ CompleteNode(n)
  \/ FailNode(n)
  \/ RequeueNode(n)
  \/ StartAttempt(n)
  \/ RecordGate(n)
  \/ \E g \in GateNos, a \in DecisionAction : ApplyGateDecision(n, g, a)

ExecutionCall(n, i) ==
  \/ ConsumeAgentReport(n, i)
  \/ GrantLease(n, i)
  \/ ReleaseLease(n, i)
  \/ ExpireLease(n, i)

(* a call within one plan *)
PlanCall ==
  \/ \E s \in SessionStatus : MarkSession(s)
  \/ session \in TerminalSession /\ NoteOutcome
  \/ RecoverExpired
  \/ \E n \in Nodes : NodeCall(n)
  \/ \E n \in Nodes : \E i \in 1..count[n] : ExecutionCall(n, i)

(* a call that changes the plan *)
RevisionCall ==
  \E removed, requeued \in SUBSET Nodes : ApplyWorkflowRevision(removed, requeued)

ServiceNext == PlanCall \/ RevisionCall

ServiceSpec == ServiceInit /\ [][ServiceNext]_serviceVars

------------------------------------------------------------------------------
(* Properties of the service, whoever calls it *)

(* The aggregate is well formed: attempts and gates are numbered without    *)
(* holes, and nothing is stored past the latest one.                        *)
ServiceTypeOK ==
  /\ session \in SessionStatus
  /\ node \in [Nodes -> NodeStatus]
  /\ count \in [Nodes -> 0..MaxAttempts]
  /\ attempt \in [Nodes -> [AttemptNos -> AttemptStatus \cup {"NONE"}]]
  /\ lease \in [Nodes -> [AttemptNos -> LeaseState]]
  /\ gates \in [Nodes -> 0..MaxGates]
  /\ decision \in [Nodes -> [GateNos -> DecisionAction \cup {"UNDECIDED", "NONE"}]]
  /\ noted \in BOOLEAN
  /\ redone \in [Nodes -> SUBSET AttemptNos]
  /\ revoked \in [Nodes -> SUBSET GateNos]
  /\ \A n \in Nodes : \A i \in AttemptNos : attempt[n][i] = "NONE" <=> i > count[n]

(* Lease metadata is on running executions only: every path that ends an    *)
(* execution (completion, failure, requeue, recovery, a terminal session)   *)
(* also clears its lease, so no ended execution can authorise a report.     *)
LeasedIsRunning ==
  \A n \in Nodes : \A i \in AttemptNos :
    lease[n][i] # "none" => attempt[n][i] = "RUNNING"

(* A node succeeds at most once over all its executions, and only as a      *)
(* COMPLETED node, unless a workflow revision has sent it to succeed again:  *)
(* duplicated, retried and late callers of complete_node,                   *)
(* requeue_node_for_retry and recovery never leave two successes.           *)
OneSuccess ==
  \A n \in Nodes : \A i, j \in AttemptNos \ redone[n] :
    attempt[n][i] = "SUCCEEDED" /\ attempt[n][j] = "SUCCEEDED" =>
      i = j /\ node[n] = "COMPLETED"

(* An execution is recorded FAILED only when its node is FAILED: a failure  *)
(* that is retried is recorded ABORTED instead.                             *)
FailureIsFinal ==
  \A n \in Nodes : (\E i \in AttemptNos : attempt[n][i] = "FAILED") => node[n] = "FAILED"

(* A decision binds its node.  A node of a rejected gate is FAILED for good, *)
(* workflow revisions included; a node of an approved gate is APPROVED or    *)
(* COMPLETED until a workflow revision takes the node back, and after that   *)
(* only an approval given since binds it.  No other call takes an approval   *)
(* back, whatever decisions the other gates of the node receive before or    *)
(* after (session_gates.apply_gate_decision, session_workflow.py).          *)
DecisionsBind ==
  \A n \in Nodes : \A g \in GateNos :
    /\ decision[n][g] = "REJECT" => node[n] = "FAILED"
    /\ decision[n][g] = "APPROVE" =>
         node[n] \in {"APPROVED", "COMPLETED"} \/ g \in revoked[n]

(* History is append-only: an ended execution never changes again, an       *)
(* execution is never dropped or renumbered, a terminal session never takes *)
(* another status, and a node that has succeeded succeeds once more only     *)
(* after a workflow revision has taken it back, however often its session is *)
(* delivered and recovered.                                                 *)
HistoryFrozen ==
  /\ session \in TerminalSession => session' = session
  /\ \A n \in Nodes : count[n] <= count'[n]
  /\ \A n \in Nodes : \A i \in AttemptNos :
       attempt[n][i] \in {"SUCCEEDED", "FAILED", "ABORTED"} =>
         attempt'[n][i] = attempt[n][i] /\ lease'[n][i] = "none"
  /\ \A n \in Nodes : \A i, j \in AttemptNos :
       attempt[n][i] # "SUCCEEDED" /\ attempt'[n][i] = "SUCCEEDED" /\ attempt[n][j] = "SUCCEEDED"
         => j \in redone[n]

HistoryIsFrozen == [][HistoryFrozen]_serviceVars
==============================================================================
