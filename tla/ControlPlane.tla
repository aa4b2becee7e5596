----------------------------- MODULE ControlPlane -----------------------------
(***************************************************************************)
(* OrchestratorAgent.run_session and resume_session driving one session     *)
(* through ControlPlane, by several workers at once.                        *)
(*                                                                          *)
(* A worker is one call of run_session (a queue delivery, which leases the  *)
(* executions it opens) or of resume_session (a gate decision, followed by  *)
(* a run without leases).  The same session may be delivered twice, so      *)
(* several workers may drive it.  pc[w] is the service call the worker      *)
(* makes next; one action is one call, and what the worker read in an       *)
(* earlier call (the node it picked, the branch it took) may be stale when  *)
(* it acts on it.                                                           *)
(***************************************************************************)
EXTENDS SessionService

CONSTANTS
  Workers,          \* the processes that deliver, run and resume the session
  StaleDecisions,   \* may the authority answer a gate that is not the latest?
  MaxFaults         \* bound: calls cut short by a crash or a failing put

ASSUME EnvironmentAssumption == StaleDecisions \in BOOLEAN /\ MaxFaults \in Nat

NoNode == 0
ASSUME NoNodeAssumption == NoNode \notin Nodes

VARIABLES
  pc,        \* the next service call of each worker
  target,    \* node_key the worker works on
  exec,      \* attempt_no of the execution it opened, 0 before
  leased,    \* it holds the lease token of that execution
  intent,    \* outcome of the node or of the gate: the ApplyIntent to come
  faults     \* calls cut short so far

workerVars == <<pc, target, exec, leased, intent>>
vars == <<serviceVars, workerVars, faults>>

IntentKind == {"none", "ERROR", "COMPLETE", "REQUEUE", "PAUSE", "FAIL"}

Calls == {"top", "recover", "reread", "complete_get", "complete_running",
          "complete", "note", "open", "open_running", "open_reread",
          "start_node", "start_exec", "grant", "invoke", "report",
          "report_start", "report_reread", "report_attempt", "consume",
          "pause_gate", "pause_release", "pause_node", "pause_session",
          "fail_get", "fail_node", "fail_session", "apply_get",
          "apply_resuming", "apply_node", "apply_reget", "apply_running",
          "decide_get"}

Init ==
  /\ ServiceInit
  /\ pc = [w \in Workers |-> "idle"]
  /\ target = [w \in Workers |-> NoNode]
  /\ exec = [w \in Workers |-> 0]
  /\ leased = [w \in Workers |-> FALSE]
  /\ intent = [w \in Workers |-> "none"]
  /\ faults = 0

------------------------------------------------------------------------------
(* Moves of a worker *)

At(w, call) == pc[w] = call

Goto(w, call) ==
  /\ pc' = [pc EXCEPT ![w] = call]
  /\ UNCHANGED <<target, exec, leased, intent, faults>>

(* the call of run_session or resume_session ends: it returns or it raises *)
Leave(w) ==
  /\ pc' = [pc EXCEPT ![w] = "idle"]
  /\ target' = [target EXCEPT ![w] = NoNode]
  /\ exec' = [exec EXCEPT ![w] = 0]
  /\ leased' = [leased EXCEPT ![w] = FALSE]
  /\ intent' = [intent EXCEPT ![w] = "none"]
  /\ UNCHANGED faults

(* an ApplyIntent is chosen and apply_node_intent is entered at call *)
GotoApply(w, kind, call) ==
  /\ pc' = [pc EXCEPT ![w] = call]
  /\ intent' = [intent EXCEPT ![w] = kind]
  /\ UNCHANGED <<target, exec, leased, faults>>

(* a read: the durable state stays *)
Read == UNCHANGED serviceVars

------------------------------------------------------------------------------
(* run_session: the head of the loop and recovery *)

(* A delivery of the session id: run_session(execution_owner = the worker).  *)
(* The worker of a resume runs without an owner, see Decide.                 *)
Deliver(w) ==
  /\ At(w, "idle")
  /\ pc' = [pc EXCEPT ![w] = "top"]
  /\ leased' = [leased EXCEPT ![w] = TRUE]
  /\ Read /\ UNCHANGED <<target, exec, intent, faults>>

(* variant: the requires of a node are not looked at *)
ReadyAnyOrder == {n \in Nodes : node[n] = "QUEUED"}

Ready == {n \in Nodes : /\ node[n] = "QUEUED"
                        /\ \A r \in Requires[n] : node[r] = "COMPLETED"}

(* ready_nodes(session)[0], or no ready node, as of this read *)
Picks(w) ==
  \/ \E n \in Ready :
       /\ \A m \in Ready : n <= m
       /\ target' = [target EXCEPT ![w] = n]
  \/ Ready = {} /\ target' = [target EXCEPT ![w] = NoNode]

GotoPicking(w, call) ==
  /\ Picks(w)
  /\ pc' = [pc EXCEPT ![w] = call]
  /\ exec' = [exec EXCEPT ![w] = 0]
  /\ intent' = [intent EXCEPT ![w] = "none"]
  /\ UNCHANGED <<leased, faults>>

Halted == session \in TerminalSession \cup {"WAITING_GATE"}

Top(w) ==
  /\ At(w, "top") /\ Read
  /\ \/ Halted /\ Leave(w)
     \/ ~Halted /\ GotoPicking(w, "recover")

(* variant: completion is not decided when the graph is exhausted *)
AfterPickForever(w) == IF target[w] = NoNode THEN "top" ELSE "open"

AfterPick(w) == IF target[w] = NoNode THEN "complete_get" ELSE "open"

Recover(w) ==
  /\ At(w, "recover")
  /\ \/ RecoverExpired /\ Goto(w, "reread")
     \/ /\ ~(\E n \in Nodes : Recoverable(n)) /\ Read
        /\ Goto(w, AfterPick(w)) \/ Goto(w, "reread")

(* After a recovery, of executions or of the turn leases of an interaction   *)
(* (not modelled here), the session is read again, without a look at its     *)
(* status.                                                                   *)
Reread(w) ==
  /\ At(w, "reread") /\ Read
  /\ Picks(w)
  /\ pc' = [pc EXCEPT ![w] = IF Ready = {} THEN "complete_get" ELSE "open"]
  /\ UNCHANGED <<exec, leased, intent, faults>>

------------------------------------------------------------------------------
(* ControlPlane.record_session_complete *)

CompleteGet(w) ==
  /\ At(w, "complete_get") /\ Read
  /\ Goto(w, IF session = "RESUMING" THEN "complete_running" ELSE "complete")

CompleteRunning(w) ==
  At(w, "complete_running") /\ MarkSession("RUNNING") /\ Goto(w, "complete")

(* the summary is empty when no completed node has an output: no second put *)
Complete(w) ==
  /\ At(w, "complete") /\ MarkSession("COMPLETED")
  /\ Goto(w, "note") \/ Leave(w)

Note(w) == At(w, "note") /\ NoteOutcome /\ Leave(w)

------------------------------------------------------------------------------
(* ControlPlane.open_node_execution and grant_node_execution_lease *)

(* the node's status is read here and acted on in the next call; a node      *)
(* that is not QUEUED gets another execution                                 *)
GotoOpen(w) ==
  Goto(w, IF node[target[w]] = "QUEUED" THEN "start_node" ELSE "start_exec")

Accepting == session \in {"RUNNING", "RESUMING"}

Open(w) ==
  /\ At(w, "open") /\ Read
  /\ \/ session = "QUEUED" /\ Goto(w, "open_running")
     \/ Accepting /\ GotoOpen(w)

OpenRunning(w) ==
  At(w, "open_running") /\ MarkSession("RUNNING") /\ Goto(w, "open_reread")

OpenReread(w) == At(w, "open_reread") /\ Read /\ GotoOpen(w)

OpenStartNode(w) ==
  At(w, "start_node") /\ MoveNode(target[w], "RUNNING") /\ Goto(w, "start_exec")

StartNodeExecution(w) ==
  /\ At(w, "start_exec") /\ StartAttempt(target[w])
  /\ exec' = [exec EXCEPT ![w] = count[target[w]] + 1]
  /\ pc' = [pc EXCEPT ![w] = IF leased[w] THEN "grant" ELSE "invoke"]
  /\ UNCHANGED <<target, leased, intent, faults>>

Grant(w) ==
  At(w, "grant") /\ GrantLease(target[w], exec[w]) /\ Goto(w, "invoke")

(* The node's agent runs while the heartbeat keeps the lease live.  It       *)
(* reports an output, or an exception (its own, or that of a heartbeat that  *)
(* found the lease gone or lost its put) becomes a report with an error.     *)
Invoke(w) ==
  /\ At(w, "invoke") /\ Read
  /\ \E result \in {"none", "ERROR"} : GotoApply(w, result, "report")

------------------------------------------------------------------------------
(* ControlPlane.open_runtime_decision *)

(* _assert_report_execution_lease on the latest execution the report meets:  *)
(* one without lease metadata accepts any report                             *)
LeaseAccepts(w) ==
  LET n == target[w]  latest == count[n] IN
    \/ latest = 0
    \/ lease[n][latest] = "none"
    \/ exec[w] = latest /\ leased[w] /\ lease[n][latest] = "live"

AfterReport(w) ==
  IF intent[w] = "ERROR" THEN "fail_get"
  ELSE IF LatestRuns(target[w]) THEN "consume" ELSE "report_attempt"

Report(w) ==
  /\ At(w, "report") /\ Read /\ Accepting
  /\ \/ node[target[w]] = "QUEUED" /\ Goto(w, "report_start")
     \/ /\ node[target[w]] # "QUEUED" /\ LeaseAccepts(w)
        /\ Goto(w, AfterReport(w))

ReportStartNode(w) ==
  /\ At(w, "report_start") /\ MoveNode(target[w], "RUNNING")
  /\ Goto(w, "report_reread")

ReportReread(w) ==
  /\ At(w, "report_reread") /\ Read /\ LeaseAccepts(w)
  /\ Goto(w, AfterReport(w))

ReportStartAttempt(w) ==
  At(w, "report_attempt") /\ StartAttempt(target[w]) /\ Goto(w, "consume")

(* The gate function and the apply deriver choose the intent from the        *)
(* consumed report.  Pauses and requeues are offered within the bounds.      *)
Consume(w) ==
  /\ At(w, "consume") /\ ConsumeAgentReport(target[w], exec[w])
  /\ \/ CanRecordGate(target[w]) /\ GotoApply(w, "PAUSE", "pause_gate")
     \/ GotoApply(w, "FAIL", "fail_get")
     \/ GotoApply(w, "COMPLETE", "apply_get")
     \/ CanAppendAttempt(target[w]) /\ GotoApply(w, "REQUEUE", "apply_get")

------------------------------------------------------------------------------
(* ApplyIntentExecutor.apply_node_intent *)

PauseRecordGate(w) ==
  /\ At(w, "pause_gate") /\ RecordGate(target[w])
  /\ Goto(w, IF leased[w] THEN "pause_release" ELSE "pause_node")

PauseReleaseLease(w) ==
  /\ At(w, "pause_release") /\ ReleaseLease(target[w], exec[w])
  /\ Goto(w, "pause_node")

PauseNode(w) ==
  /\ At(w, "pause_node") /\ MoveNode(target[w], "PENDING_GATE")
  /\ Goto(w, "pause_session")

PauseSession(w) ==
  At(w, "pause_session") /\ MarkSession("WAITING_GATE") /\ Leave(w)

(* variant: the session is failed before its node *)
FailSessionOnly(w) == At(w, "fail_get") /\ Read /\ Goto(w, "fail_session")

FailGet(w) ==
  /\ At(w, "fail_get") /\ Read
  /\ Goto(w, IF node[target[w]] = "FAILED" THEN "fail_session" ELSE "fail_node")

ApplyFailNode(w) ==
  At(w, "fail_node") /\ FailNode(target[w]) /\ Goto(w, "fail_session")

ApplyFailSession(w) ==
  At(w, "fail_session") /\ MarkSession("FAILED") /\ Goto(w, "note")

(* variant: a waiting session is not resumed *)
ApplyWithoutResuming(w) == At(w, "apply_get") /\ Read /\ Goto(w, "apply_node")

(* COMPLETE and REQUEUE: _resume_session_if_waiting, the node's transition,  *)
(* _ensure_session_running, and back to the loop                             *)
ApplyGet(w) ==
  /\ At(w, "apply_get") /\ Read
  /\ Goto(w, IF session = "WAITING_GATE" THEN "apply_resuming" ELSE "apply_node")

ApplyResuming(w) ==
  At(w, "apply_resuming") /\ MarkSession("RESUMING") /\ Goto(w, "apply_node")

ApplyNode(w) ==
  /\ At(w, "apply_node")
  /\ \/ intent[w] = "COMPLETE" /\ CompleteNode(target[w])
     \/ intent[w] = "REQUEUE" /\ RequeueNode(target[w])
  /\ Goto(w, "apply_reget")

ApplyReget(w) ==
  /\ At(w, "apply_reget") /\ Read
  /\ Goto(w, IF session = "RESUMING" THEN "apply_running" ELSE "top")

ApplyRunning(w) ==
  At(w, "apply_running") /\ MarkSession("RUNNING") /\ Goto(w, "top")

------------------------------------------------------------------------------
(* resume_session with a decision: GateDecisionExecutor.apply_decision       *)

(* An external authority decides a gate by its id; the code asks neither     *)
(* that the gate is the latest nor that it is undecided.  REVISE and REPLAN  *)
(* are offered within the bound on re-executions.                            *)
Decide(w) ==
  /\ At(w, "idle")
  /\ \E n \in Nodes, g \in GateNos, a \in DecisionAction :
       /\ StaleDecisions \/ g = gates[n]
       /\ a \in {"REVISE", "REPLAN"} => CanAppendAttempt(n)
       /\ ApplyGateDecision(n, g, a)
       /\ target' = [target EXCEPT ![w] = n]
  /\ pc' = [pc EXCEPT ![w] = "decide_get"]
  /\ UNCHANGED <<exec, leased, intent, faults>>

(* _intent_from_gate_status, from the status read back after the decision    *)
DecideGet(w) ==
  /\ At(w, "decide_get") /\ Read
  /\ \/ /\ node[target[w]] = "NEEDS_REVISION"
        /\ GotoApply(w, "REQUEUE", "apply_get")
     \/ /\ node[target[w]] = "APPROVED"
        /\ GotoApply(w, "COMPLETE", "apply_get")
     \/ /\ node[target[w]] = "FAILED"
        /\ GotoApply(w, "FAIL", "fail_get")

------------------------------------------------------------------------------
(* Failures *)

(* the precondition of the call does not hold: the code raises, and the      *)
(* exception ends the run                                                    *)
CallRaises(w) ==
  LET n == target[w] IN
  \/ At(w, "complete_running") /\ ~CanMarkSession("RUNNING")
  \/ At(w, "complete") /\ ~CanMarkSession("COMPLETED")
  \/ At(w, "open") /\ session # "QUEUED" /\ ~Accepting
  \/ At(w, "open_running") /\ ~CanMarkSession("RUNNING")
  \/ pc[w] \in {"start_node", "report_start"} /\ ~CanMoveNode(n, "RUNNING")
  \/ At(w, "grant") /\ ~CanGrantLease(n, exec[w])
  \/ At(w, "report") /\ (~Accepting \/ (node[n] # "QUEUED" /\ ~LeaseAccepts(w)))
  \/ At(w, "report_reread") /\ ~LeaseAccepts(w)
  \/ At(w, "pause_release") /\ ~CanReleaseLease(n, exec[w])
  \/ At(w, "pause_node") /\ ~CanMoveNode(n, "PENDING_GATE")
  \/ At(w, "pause_session") /\ ~CanMarkSession("WAITING_GATE")
  \/ At(w, "fail_node") /\ ~CanMoveNode(n, "FAILED")
  \/ At(w, "fail_session") /\ ~CanMarkSession("FAILED")
  \/ At(w, "apply_resuming") /\ ~CanMarkSession("RESUMING")
  \/ At(w, "apply_node") /\ intent[w] = "COMPLETE" /\ ~CanMoveNode(n, "COMPLETED")
  \/ At(w, "apply_node") /\ intent[w] = "REQUEUE" /\ ~CanRequeueNode(n)
  \/ At(w, "apply_running") /\ ~CanMarkSession("RUNNING")
  \/ At(w, "decide_get") /\ node[n] \notin {"NEEDS_REVISION", "APPROVED", "FAILED"}

Raise(w) == CallRaises(w) /\ Read /\ Leave(w)

(* the next append would pass a bound: the exploration cuts the run here     *)
AtBound(w) ==
  \/ pc[w] \in {"start_exec", "report_attempt"} /\ ~CanAppendAttempt(target[w])
  \/ /\ At(w, "consume") /\ ~CanAppendAttempt(target[w])
     /\ attempt[target[w]][exec[w]] # "RUNNING"
  \/ At(w, "pause_gate") /\ ~CanRecordGate(target[w])

(* The worker crashes before its next call, or the put of the call loses     *)
(* against another writer (SessionStoreConflictError) or fails: the run ends *)
(* between two calls.                                                        *)
Abandon(w) ==
  /\ pc[w] # "idle" /\ Read
  /\ pc' = [pc EXCEPT ![w] = "idle"]
  /\ target' = [target EXCEPT ![w] = NoNode]
  /\ exec' = [exec EXCEPT ![w] = 0]
  /\ leased' = [leased EXCEPT ![w] = FALSE]
  /\ intent' = [intent EXCEPT ![w] = "none"]
  /\ \/ faults < MaxFaults /\ faults' = faults + 1
     \/ AtBound(w) /\ UNCHANGED faults

------------------------------------------------------------------------------
(* SessionService.cancel_session, by an operator of the library *)
Cancel ==
  /\ MarkSession("CANCELLED")
  /\ UNCHANGED <<workerVars, faults>>

Expire ==
  /\ \E n \in Nodes, i \in AttemptNos : ExpireLease(n, i)
  /\ UNCHANGED <<workerVars, faults>>

RunStep(w) ==
  \/ Top(w) \/ Recover(w) \/ Reread(w)
  \/ CompleteGet(w) \/ CompleteRunning(w) \/ Complete(w) \/ Note(w)
  \/ Open(w) \/ OpenRunning(w) \/ OpenReread(w) \/ OpenStartNode(w)
  \/ StartNodeExecution(w) \/ Grant(w) \/ Invoke(w)

ReportStep(w) ==
  \/ Report(w) \/ ReportStartNode(w) \/ ReportReread(w)
  \/ ReportStartAttempt(w) \/ Consume(w)

ApplyStep(w) ==
  \/ PauseRecordGate(w) \/ PauseReleaseLease(w) \/ PauseNode(w) \/ PauseSession(w)
  \/ FailGet(w) \/ ApplyFailNode(w) \/ ApplyFailSession(w)
  \/ ApplyGet(w) \/ ApplyResuming(w) \/ ApplyNode(w)
  \/ ApplyReget(w) \/ ApplyRunning(w) \/ DecideGet(w)

WorkerStep(w) == RunStep(w) \/ ReportStep(w) \/ ApplyStep(w) \/ Raise(w)

Next ==
  \/ \E w \in Workers : Deliver(w) \/ WorkerStep(w) \/ Decide(w) \/ Abandon(w)
  \/ Cancel
  \/ Expire

Spec == Init /\ [][Next]_vars

(* A worker that runs goes on, and the queue delivers the session id again   *)
(* until a run returns; nobody is obliged to decide a gate.                  *)
Fairness == \A w \in Workers : WF_vars(WorkerStep(w)) /\ WF_vars(Deliver(w))

FairSpec == Spec /\ Fairness
------------------------------------------------------------------------------
(* Properties that hold whatever the workers, the crashes and the expired    *)
(* leases                                                                    *)

TypeOK ==
  /\ ServiceTypeOK
  /\ pc \in [Workers -> Calls \cup {"idle"}]
  /\ target \in [Workers -> Nodes \cup {NoNode}]
  /\ exec \in [Workers -> 0..MaxAttempts]
  /\ leased \in [Workers -> BOOLEAN]
  /\ intent \in [Workers -> IntentKind]
  /\ faults \in 0..MaxFaults

(* A node has run, is running or awaits a decision only if everything it     *)
(* requires is COMPLETED: the ready list a worker read may be stale when it  *)
(* starts the node, and a late report may start a node again.                *)
DependencyOrder ==
  \A n \in Nodes :
    node[n] # "QUEUED" \/ count[n] > 0 =>
      \A r \in Requires[n] : node[r] = "COMPLETED"

(* Two workers never hold the same execution: each run acts on the           *)
(* execution it opened, so an execution stands for its lease token.          *)
PrivateExecutions ==
  \A w, v \in Workers :
    w # v /\ exec[w] > 0 /\ target[w] = target[v] => exec[w] # exec[v]

(* Control never approves or sends back a node by itself: an APPROVED node   *)
(* has an APPROVE decision on one of its gates, a NEEDS_REVISION node a      *)
(* REVISE or REPLAN, and a PENDING_GATE node a recorded gate.                *)
OnlyDecisionsMoveGates ==
  \A n \in Nodes :
    LET decided == {decision[n][g] : g \in GateNos} IN
    /\ node[n] = "PENDING_GATE" => gates[n] > 0
    /\ node[n] = "APPROVED" => "APPROVE" \in decided
    /\ node[n] = "NEEDS_REVISION" => decided \cap {"REVISE", "REPLAN"} # {}

(* A session fails because a node failed: the two puts of a FAIL intent are  *)
(* separate, and no crash, retry or duplicate run fails a session whose      *)
(* nodes could go on.                                                        *)
FailedSessionHasFailedNode ==
  session = "FAILED" => \E n \in Nodes : node[n] = "FAILED"

------------------------------------------------------------------------------
(* Properties of a single writer that is never cut short                     *)

(* The orchestrator records completion only when every node is COMPLETED.    *)
CompletedMeansDone ==
  session = "COMPLETED" => \A n \in Nodes : node[n] = "COMPLETED"

(* A node that was gated completes only when its latest gate is decided,     *)
(* provided decisions name the latest gate: no pause is passed by another    *)
(* execution, a redelivery or a resumed run.                                 *)
GateHolds ==
  \A n \in Nodes :
    node[n] = "COMPLETED" /\ gates[n] > 0 => decision[n][gates[n]] # "UNDECIDED"

(* A session at rest in WAITING_GATE has a gate that a decision can move.    *)
WaitingIsDecidable ==
  session = "WAITING_GATE" /\ (\A w \in Workers : At(w, "idle")) =>
    \E n \in Nodes : node[n] = "PENDING_GATE"

(* The run implements WorkflowRun.  A node has started once it left QUEUED    *)
(* or has an execution: a requeued node is being executed again.             *)
Run == INSTANCE WorkflowRun WITH
  phase <- CASE session = "COMPLETED" -> "completed"
             [] session = "FAILED" -> "failed"
             [] session = "CANCELLED" -> "cancelled"
             [] OTHER -> "open",
  started <- {n \in Nodes : node[n] # "QUEUED" \/ count[n] > 0},
  done <- {n \in Nodes : node[n] = "COMPLETED"},
  failed <- {n \in Nodes : node[n] = "FAILED"}

ImplementsWorkflowRun == Run!Spec

(* A run neither loops nor stalls: under a retrying queue the session ends   *)
(* or waits for a decision for good.                                         *)
EventuallyHalts == <>[]Halted

------------------------------------------------------------------------------
(* What the documentation says of leases and of completion, refuted by the   *)
(* runs that share a session between workers                                 *)

(* tests/runtime/test_queue_idempotency.py:16: a live lease blocks a          *)
(* concurrent delivery from double-running a node.                           *)
LiveLeaseExcludes ==
  \A n \in Nodes : \A i, j \in AttemptNos :
    lease[n][i] = "live" /\ lease[n][j] = "live" => i = j

(* docs/architecture/20-control-plane.md:105: expired leased reports fail    *)
(* closed instead of being accepted as unleased reports.  A worker that      *)
(* leased its execution and is past the lease check still has it running.    *)
ExpiredReportFailsClosed ==
  \A w \in Workers :
    At(w, "report_attempt") /\ leased[w] => attempt[target[w]][exec[w]] = "RUNNING"
==============================================================================
