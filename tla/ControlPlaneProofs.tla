-------------------------- MODULE ControlPlaneProofs --------------------------
(* The control plane calls the service only as ServiceSpec permits, for any  *)
(* blueprint, any number of workers on the session and any number of faults, *)
(* so what is proved of the service holds of it; nodes start in dependency   *)
(* order although the workers act on what they read before; executions are   *)
(* private to the worker that opened them, and only decisions move gates.    *)
(* A single writer that is not cut short implements WorkflowRun, waits only  *)
(* where a decision can move it, and passes no gate by.                      *)
EXTENDS ControlPlane, SessionServiceProofs

USE BoundsAssumption, EnvironmentAssumption, NoNodeAssumption

(* the calls that act on the target, and those that name its execution       *)
NodeCalls == {"open", "open_running", "open_reread", "start_node", "start_exec", "grant",
              "invoke", "report", "report_start", "report_reread", "report_attempt",
              "consume", "pause_gate", "pause_release", "pause_node", "pause_session",
              "fail_get", "fail_node", "fail_session", "apply_get", "apply_resuming",
              "apply_node", "apply_reget", "apply_running", "decide_get"}

ExecutionCalls == {"grant", "invoke", "report", "report_start", "report_reread",
                   "report_attempt", "consume", "pause_gate", "pause_release"}

(* A worker is where it is with a node, an execution that exists, a terminal *)
(* session.                                                                  *)
Placed(w) ==
  /\ pc[w] \in NodeCalls => target[w] \in Nodes
  /\ pc[w] \in ExecutionCalls => exec[w] \in 1..count[target[w]]
  /\ pc[w] = "note" => session \in TerminalSession

WorkerTypes ==
  /\ pc \in [Workers -> Calls \cup {"idle"}]
  /\ target \in [Workers -> Nodes \cup {NoNode}]
  /\ exec \in [Workers -> 0..MaxAttempts]
  /\ leased \in [Workers -> BOOLEAN]
  /\ intent \in [Workers -> IntentKind]
  /\ faults \in 0..MaxFaults

ControlInv == ServiceInv /\ WorkerTypes /\ \A w \in Workers : Placed(w)

(* The service call of a worker's step: none, or one on its target.          *)
TargetCall(n) == NodeCall(n) \/ \E i \in 1..count[n] : ExecutionCall(n, i)

ServiceStep(w) ==
  \/ UNCHANGED serviceVars
  \/ \E s \in SessionStatus : MarkSession(s)
  \/ session \in TerminalSession /\ NoteOutcome
  \/ RecoverExpired
  \/ target[w] \in Nodes /\ TargetCall(target[w])

Begun(n) == node[n] # "QUEUED" \/ count[n] > 0

(* A worker's step moves that worker only, and leaves it well placed with    *)
(* its old target, none, or one that is ready or has begun.                  *)
WorkerMoves(w) ==
  /\ WorkerTypes'
  /\ \A v \in Workers : v # w => pc'[v] = pc[v] /\ target'[v] = target[v] /\ exec'[v] = exec[v]
  /\ Placed(w)'
  /\ \/ target'[w] \in {target[w], NoNode}
     \/ target'[w] \in Ready
     \/ target'[w] \in Nodes /\ Begun(target'[w])

------------------------------------------------------------------------------
LEMMA StepIsServiceNext ==
  ASSUME NEW w, ServiceStep(w)
  PROVE  [ServiceNext]_serviceVars
  BY DEF ServiceStep, ServiceNext, PlanCall, TargetCall

LEMMA StepHistory ==
  ASSUME ControlInv, NEW w \in Workers, ServiceStep(w)
  PROVE  /\ \A n \in Nodes : count[n] \in 0..MaxAttempts /\ count'[n] \in 0..MaxAttempts
         /\ \A n \in Nodes : count[n] <= count'[n]
         /\ session \in TerminalSession => session' \in TerminalSession
<1>1. ServiceInv /\ [ServiceNext]_serviceVars
  BY StepIsServiceNext DEF ControlInv
<1>2. ServiceInv' /\ HistoryFrozen
  BY <1>1, ServiceNextInv, CallHistory
<1>3. QED
  BY <1>1, <1>2 DEF ServiceInv, ServiceTypeOK, HistoryFrozen

(* The three ways a worker moves on.                                         *)
LEMMA GotoMoves ==
  ASSUME ControlInv, NEW w \in Workers, NEW c \in Calls, Goto(w, c), ServiceStep(w),
         c \in NodeCalls => target[w] \in Nodes,
         c \in ExecutionCalls => exec[w] \in 1..count'[target[w]],
         c = "note" => session' \in TerminalSession
  PROVE  WorkerMoves(w)
<1>1. /\ pc' = [pc EXCEPT ![w] = c]
      /\ UNCHANGED <<target, exec, leased, intent, faults>>
  BY DEF Goto
<1>2. WorkerTypes'
  BY <1>1 DEF ControlInv, WorkerTypes
<1>3. pc'[w] = c /\ \A v \in Workers : v # w => pc'[v] = pc[v]
  BY <1>1 DEF ControlInv, WorkerTypes
<1>4. Placed(w)'
  BY <1>1, <1>3 DEF Placed
<1>5. QED
  BY <1>1, <1>2, <1>3, <1>4 DEF WorkerMoves

LEMMA ApplyMoves ==
  ASSUME ControlInv, NEW w \in Workers, NEW k \in IntentKind, NEW c \in Calls,
         GotoApply(w, k, c), ServiceStep(w),
         c \in NodeCalls => target[w] \in Nodes,
         c \in ExecutionCalls => exec[w] \in 1..count'[target[w]],
         c # "note"
  PROVE  WorkerMoves(w)
<1>1. /\ pc' = [pc EXCEPT ![w] = c] /\ intent' = [intent EXCEPT ![w] = k]
      /\ UNCHANGED <<target, exec, leased, faults>>
  BY DEF GotoApply
<1>2. WorkerTypes'
  BY <1>1 DEF ControlInv, WorkerTypes
<1>3. pc'[w] = c /\ \A v \in Workers : v # w => pc'[v] = pc[v]
  BY <1>1 DEF ControlInv, WorkerTypes
<1>4. Placed(w)'
  BY <1>1, <1>3 DEF Placed
<1>5. QED
  BY <1>1, <1>2, <1>3, <1>4 DEF WorkerMoves

LEMMA LeaveMoves ==
  ASSUME ControlInv, NEW w \in Workers,
         pc' = [pc EXCEPT ![w] = "idle"],
         target' = [target EXCEPT ![w] = NoNode],
         exec' = [exec EXCEPT ![w] = 0],
         leased' = [leased EXCEPT ![w] = FALSE],
         intent' = [intent EXCEPT ![w] = "none"],
         faults' \in 0..MaxFaults
  PROVE  WorkerMoves(w)
<1>1. WorkerTypes'
  <2>1. 0 \in 0..MaxAttempts /\ "none" \in IntentKind
    BY DEF IntentKind
  <2>2. QED
    BY <2>1 DEF ControlInv, WorkerTypes
<1>2. /\ pc'[w] = "idle" /\ target'[w] = NoNode
      /\ \A v \in Workers : v # w => pc'[v] = pc[v] /\ target'[v] = target[v] /\ exec'[v] = exec[v]
  BY DEF ControlInv, WorkerTypes
<1>3. Placed(w)'
  BY <1>2 DEF Placed, NodeCalls, ExecutionCalls
<1>4. QED
  BY <1>1, <1>2, <1>3 DEF WorkerMoves

LEMMA ReturnMoves ==
  ASSUME ControlInv, NEW w \in Workers, Leave(w)
  PROVE  WorkerMoves(w)
<1>1. faults' \in 0..MaxFaults
  BY DEF Leave, ControlInv, WorkerTypes
<1>2. QED
  BY <1>1, LeaveMoves DEF Leave

(* The usual move: to a call that asks no more than the one just made.       *)
LEMMA StayPlaced ==
  ASSUME ControlInv, NEW w \in Workers, ServiceStep(w), NEW c \in Calls \ {"note"},
         c \in NodeCalls => pc[w] \in NodeCalls,
         c \in ExecutionCalls => pc[w] \in ExecutionCalls
  PROVE  /\ c \in NodeCalls => target[w] \in Nodes
         /\ c \in ExecutionCalls => exec[w] \in 1..count'[target[w]]
<1>1. Placed(w)
  BY DEF ControlInv
<1>2. ExecutionCalls \subseteq NodeCalls
  BY DEF ExecutionCalls, NodeCalls
<1>3. CASE c \in ExecutionCalls
  <2>1. target[w] \in Nodes /\ exec[w] \in 1..count[target[w]]
    BY <1>1, <1>2, <1>3 DEF Placed
  <2>2. /\ count[target[w]] \in 0..MaxAttempts /\ count'[target[w]] \in 0..MaxAttempts
        /\ count[target[w]] <= count'[target[w]]
    BY <2>1, StepHistory
  <2>3. QED
    BY <2>1, <2>2
<1>4. CASE c \notin ExecutionCalls
  BY <1>1, <1>4 DEF Placed
<1>5. QED
  BY <1>3, <1>4

LEMMA GotoKeeps ==
  ASSUME ControlInv, NEW w \in Workers, ServiceStep(w), NEW c \in Calls \ {"note"},
         Goto(w, c),
         c \in NodeCalls => pc[w] \in NodeCalls,
         c \in ExecutionCalls => pc[w] \in ExecutionCalls
  PROVE  WorkerMoves(w)
  BY StayPlaced, GotoMoves

LEMMA ApplyKeeps ==
  ASSUME ControlInv, NEW w \in Workers, ServiceStep(w), NEW c \in Calls \ {"note"},
         NEW k \in IntentKind, GotoApply(w, k, c),
         c \in NodeCalls => pc[w] \in NodeCalls,
         c \in ExecutionCalls => pc[w] \in ExecutionCalls
  PROVE  WorkerMoves(w)
  BY StayPlaced, ApplyMoves

(* A worker picks the first ready node, or none.                             *)
LEMMA PickedTarget ==
  ASSUME ControlInv, NEW w \in Workers, Picks(w)
  PROVE  /\ target' \in [Workers -> Nodes \cup {NoNode}]
         /\ target'[w] \in Ready \cup {NoNode}
         /\ Ready = {} <=> target'[w] = NoNode
         /\ \A v \in Workers : v # w => target'[v] = target[v]
<1>1. target \in [Workers -> Nodes \cup {NoNode}] /\ Ready \subseteq Nodes
  BY DEF ControlInv, WorkerTypes, Ready
<1>2. QED
  BY <1>1 DEF Picks

------------------------------------------------------------------------------
(* Every step of a worker makes at most one call of the service              *)

LEMMA PickingMoves ==
  ASSUME ControlInv, NEW w \in Workers,
         Top(w) \/ Reread(w)
  PROVE  WorkerMoves(w)
<1>1. CASE Top(w)
  <2>1. CASE Leave(w)
    BY <2>1, ReturnMoves
  <2>2. CASE GotoPicking(w, "recover")
    <3>1. /\ Picks(w)
          /\ pc' = [pc EXCEPT ![w] = "recover"]
          /\ exec' = [exec EXCEPT ![w] = 0]
          /\ intent' = [intent EXCEPT ![w] = "none"]
          /\ UNCHANGED <<leased, faults>>
      BY <2>2 DEF GotoPicking
    <3>2. 0 \in 0..MaxAttempts /\ "none" \in IntentKind /\ "recover" \in Calls
      BY DEF IntentKind, Calls
    <3>3. WorkerTypes'
      BY <3>1, <3>2, PickedTarget DEF ControlInv, WorkerTypes
    <3>4. /\ pc'[w] = "recover"
          /\ \A v \in Workers : v # w => pc'[v] = pc[v] /\ exec'[v] = exec[v]
      BY <3>1 DEF ControlInv, WorkerTypes
    <3>5. Placed(w)'
      BY <3>4 DEF Placed, NodeCalls, ExecutionCalls
    <3>6. QED
      BY <3>1, <3>3, <3>4, <3>5, PickedTarget DEF WorkerMoves
  <2>3. QED
    BY <1>1, <2>1, <2>2 DEF Top
<1>2. CASE Reread(w)
  <2>1. PICK c \in {"complete_get", "open"} :
          /\ pc' = [pc EXCEPT ![w] = c]
          /\ c = "open" => target'[w] \in Nodes
    <3>1. Ready # {} => target'[w] \in Nodes
      BY <1>2, PickedTarget DEF Reread, Ready
    <3>2. QED
      BY <1>2, <3>1 DEF Reread
  <2>2. Picks(w) /\ UNCHANGED <<exec, leased, intent, faults>>
    BY <1>2 DEF Reread
  <2>3. c \in Calls /\ c \notin ExecutionCalls /\ c # "note" /\ "complete_get" \notin NodeCalls
    BY DEF Calls, ExecutionCalls, NodeCalls
  <2>4. WorkerTypes'
    BY <2>1, <2>2, <2>3, PickedTarget DEF ControlInv, WorkerTypes
  <2>5. pc'[w] = c /\ \A v \in Workers : v # w => pc'[v] = pc[v]
    BY <2>1 DEF ControlInv, WorkerTypes
  <2>6. Placed(w)'
    BY <2>1, <2>3, <2>5 DEF Placed
  <2>7. QED
    BY <2>2, <2>4, <2>5, <2>6, PickedTarget DEF WorkerMoves
<1>3. QED
  BY <1>1, <1>2

(* A step that starts an execution, of the run or of a report.               *)
LEMMA StartMoves ==
  ASSUME ControlInv, NEW w \in Workers, StartNodeExecution(w)
  PROVE  ServiceStep(w) /\ WorkerMoves(w)
<1> DEFINE n == target[w]
<1>1. n \in Nodes
  BY DEF StartNodeExecution, At, NodeCalls, ControlInv, Placed
<1>2. ServiceStep(w)
  BY <1>1 DEF StartNodeExecution, ServiceStep, TargetCall, NodeCall
<1>3. /\ count[n] \in 0..MaxAttempts /\ count[n] < MaxAttempts
      /\ count'[n] = count[n] + 1
  BY <1>1 DEF StartNodeExecution, StartAttempt, AppendAttempt, CanAppendAttempt, ControlInv,
              ServiceInv, ServiceTypeOK
<1>4. PICK c \in {"grant", "invoke"} : pc' = [pc EXCEPT ![w] = c]
  BY DEF StartNodeExecution
<1>5. /\ exec' = [exec EXCEPT ![w] = count[n] + 1]
      /\ UNCHANGED <<target, leased, intent, faults>>
  BY DEF StartNodeExecution
<1>6. count[n] + 1 \in 0..MaxAttempts /\ count[n] + 1 \in 1..count'[n] /\ c \in Calls /\ c # "note"
  BY <1>3 DEF Calls
<1>7. WorkerTypes'
  <2> HIDE DEF n
  <2>1. QED
    BY <1>4, <1>5, <1>6 DEF ControlInv, WorkerTypes
<1>8. /\ pc'[w] = c /\ exec'[w] = count[n] + 1 /\ target'[w] = n
      /\ \A v \in Workers : v # w => pc'[v] = pc[v] /\ exec'[v] = exec[v]
  BY <1>4, <1>5 DEF ControlInv, WorkerTypes
<1>9. Placed(w)'
  BY <1>1, <1>6, <1>8 DEF Placed
<1>10. QED
  BY <1>2, <1>5, <1>7, <1>8, <1>9 DEF WorkerMoves

LEMMA RunStepMoves ==
  ASSUME ControlInv, NEW w \in Workers, RunStep(w)
  PROVE  ServiceStep(w) /\ WorkerMoves(w)
<1> USE DEF At, Calls, NodeCalls, ExecutionCalls
<1>1. CASE Top(w) \/ Reread(w)
  BY <1>1, PickingMoves DEF Top, Reread, Read, ServiceStep
<1>2. CASE Recover(w)
  <2>1. ServiceStep(w)
    BY <1>2 DEF Recover, Read, ServiceStep
  <2>2. PICK c \in {"reread", "open", "complete_get"} :
          Goto(w, c) /\ (c = "open" => target[w] \in Nodes)
    BY <1>2 DEF Recover, AfterPick, ControlInv, WorkerTypes
  <2>3. QED
    BY <2>1, <2>2, GotoMoves
<1>3. CASE CompleteGet(w)
  <2>1. ServiceStep(w)
    BY <1>3 DEF CompleteGet, Read, ServiceStep
  <2>2. PICK c \in {"complete_running", "complete"} : Goto(w, c)
    BY <1>3 DEF CompleteGet
  <2>3. QED
    BY <2>1, <2>2, GotoKeeps
<1>4. CASE CompleteRunning(w)
  <2>1. ServiceStep(w)
    BY <1>4 DEF CompleteRunning, ServiceStep, SessionStatus
  <2>2. QED
    BY <1>4, <2>1, GotoKeeps DEF CompleteRunning
<1>5. CASE Complete(w)
  <2>1. ServiceStep(w) /\ session' \in TerminalSession
    BY <1>5 DEF Complete, ServiceStep, SessionStatus, MarkSession, TerminalSession
  <2>2. CASE Goto(w, "note")
    BY <2>1, <2>2, GotoMoves
  <2>3. QED
    BY <1>5, <2>1, <2>2, ReturnMoves DEF Complete
<1>6. CASE Note(w)
  <2>1. session \in TerminalSession
    BY <1>6 DEF Note, ControlInv, Placed
  <2>2. QED
    BY <1>6, <2>1, ReturnMoves DEF Note, ServiceStep
<1>7. CASE Open(w) \/ OpenReread(w)
  <2>1. ServiceStep(w) /\ pc[w] \in NodeCalls
    BY <1>7 DEF Open, OpenReread, Read, ServiceStep
  <2>2. PICK c \in {"open_running", "start_node", "start_exec"} : Goto(w, c)
    BY <1>7 DEF Open, OpenReread, GotoOpen
  <2>3. QED
    BY <2>1, <2>2, GotoKeeps
<1>8. CASE OpenRunning(w)
  <2>1. ServiceStep(w)
    BY <1>8 DEF OpenRunning, ServiceStep, SessionStatus
  <2>2. QED
    BY <1>8, <2>1, GotoKeeps DEF OpenRunning
<1>9. CASE OpenStartNode(w)
  <2>1. ServiceStep(w)
    BY <1>9 DEF OpenStartNode, ServiceStep, TargetCall, NodeCall, ControlInv, Placed
  <2>2. QED
    BY <1>9, <2>1, GotoKeeps DEF OpenStartNode
<1>10. CASE StartNodeExecution(w)
  BY <1>10, StartMoves
<1>11. CASE Grant(w)
  <2>1. ServiceStep(w)
    BY <1>11 DEF Grant, ServiceStep, TargetCall, ExecutionCall, ControlInv, Placed
  <2>2. QED
    BY <1>11, <2>1, GotoKeeps DEF Grant
<1>12. CASE Invoke(w)
  <2>1. ServiceStep(w)
    BY <1>12 DEF Invoke, Read, ServiceStep
  <2>2. PICK k \in IntentKind : GotoApply(w, k, "report")
    BY <1>12 DEF Invoke, IntentKind
  <2>3. QED
    BY <1>12, <2>1, <2>2, ApplyKeeps DEF Invoke
<1>13. QED
  BY <1>1, <1>2, <1>3, <1>4, <1>5, <1>6, <1>7, <1>8, <1>9, <1>10, <1>11, <1>12 DEF RunStep

LEMMA ReportStepMoves ==
  ASSUME ControlInv, NEW w \in Workers, ReportStep(w)
  PROVE  ServiceStep(w) /\ WorkerMoves(w)
<1> USE DEF At, Calls, NodeCalls, ExecutionCalls
<1>1. CASE Report(w) \/ ReportReread(w)
  <2>1. ServiceStep(w) /\ pc[w] \in ExecutionCalls /\ pc[w] \in NodeCalls
    BY <1>1 DEF Report, ReportReread, Read, ServiceStep
  <2>2. PICK c \in {"report_start", "fail_get", "consume", "report_attempt"} : Goto(w, c)
    BY <1>1 DEF Report, ReportReread, AfterReport
  <2>3. QED
    BY <2>1, <2>2, GotoKeeps
<1>2. CASE ReportStartNode(w)
  <2>1. ServiceStep(w)
    BY <1>2 DEF ReportStartNode, ServiceStep, TargetCall, NodeCall, ControlInv, Placed
  <2>2. QED
    BY <1>2, <2>1, GotoKeeps DEF ReportStartNode
<1>3. CASE ReportStartAttempt(w)
  <2>1. ServiceStep(w)
    BY <1>3 DEF ReportStartAttempt, ServiceStep, TargetCall, NodeCall, ControlInv, Placed
  <2>2. QED
    BY <1>3, <2>1, GotoKeeps DEF ReportStartAttempt
<1>4. CASE Consume(w)
  <2>1. ServiceStep(w)
    BY <1>4 DEF Consume, ServiceStep, TargetCall, ExecutionCall, ControlInv, Placed
  <2>2. PICK c \in {"pause_gate", "fail_get", "apply_get"}, k \in IntentKind : GotoApply(w, k, c)
    BY <1>4 DEF Consume, IntentKind
  <2>3. QED
    BY <1>4, <2>1, <2>2, ApplyKeeps DEF Consume
<1>5. QED
  BY <1>1, <1>2, <1>3, <1>4 DEF ReportStep

LEMMA ApplyStepMoves ==
  ASSUME ControlInv, NEW w \in Workers, ApplyStep(w)
  PROVE  ServiceStep(w) /\ WorkerMoves(w)
<1> USE DEF At, Calls, NodeCalls, ExecutionCalls
<1>1. CASE PauseRecordGate(w)
  <2>1. ServiceStep(w)
    BY <1>1 DEF PauseRecordGate, ServiceStep, TargetCall, NodeCall, ControlInv, Placed
  <2>2. PICK c \in {"pause_release", "pause_node"} : Goto(w, c)
    BY <1>1 DEF PauseRecordGate
  <2>3. QED
    BY <1>1, <2>1, <2>2, GotoKeeps DEF PauseRecordGate
<1>2. CASE PauseReleaseLease(w)
  <2>1. ServiceStep(w)
    BY <1>2 DEF PauseReleaseLease, ServiceStep, TargetCall, ExecutionCall, ControlInv, Placed
  <2>2. QED
    BY <1>2, <2>1, GotoKeeps DEF PauseReleaseLease
<1>3. CASE PauseNode(w)
  <2>1. ServiceStep(w)
    BY <1>3 DEF PauseNode, ServiceStep, TargetCall, NodeCall, ControlInv, Placed
  <2>2. QED
    BY <1>3, <2>1, GotoKeeps DEF PauseNode
<1>4. CASE PauseSession(w)
  BY <1>4, ReturnMoves DEF PauseSession, ServiceStep, SessionStatus
<1>5. CASE FailGet(w) \/ ApplyGet(w) \/ ApplyReget(w)
  <2>1. ServiceStep(w) /\ pc[w] \in NodeCalls
    BY <1>5 DEF FailGet, ApplyGet, ApplyReget, Read, ServiceStep
  <2>2. PICK c \in {"fail_session", "fail_node", "apply_resuming", "apply_node",
                    "apply_running", "top"} : Goto(w, c)
    BY <1>5 DEF FailGet, ApplyGet, ApplyReget
  <2>3. QED
    BY <2>1, <2>2, GotoKeeps
<1>6. CASE ApplyFailNode(w)
  <2>1. ServiceStep(w)
    BY <1>6 DEF ApplyFailNode, ServiceStep, TargetCall, NodeCall, ControlInv, Placed
  <2>2. QED
    BY <1>6, <2>1, GotoKeeps DEF ApplyFailNode
<1>7. CASE ApplyFailSession(w)
  <2>1. ServiceStep(w) /\ session' \in TerminalSession
    BY <1>7 DEF ApplyFailSession, ServiceStep, SessionStatus, MarkSession, TerminalSession
  <2>2. QED
    BY <1>7, <2>1, GotoMoves DEF ApplyFailSession
<1>8. CASE ApplyResuming(w)
  <2>1. ServiceStep(w)
    BY <1>8 DEF ApplyResuming, ServiceStep, SessionStatus
  <2>2. QED
    BY <1>8, <2>1, GotoKeeps DEF ApplyResuming
<1>9. CASE ApplyNode(w)
  <2>1. ServiceStep(w)
    BY <1>9 DEF ApplyNode, ServiceStep, TargetCall, NodeCall, ControlInv, Placed
  <2>2. QED
    BY <1>9, <2>1, GotoKeeps DEF ApplyNode
<1>10. CASE ApplyRunning(w)
  <2>1. ServiceStep(w)
    BY <1>10 DEF ApplyRunning, ServiceStep, SessionStatus
  <2>2. QED
    BY <1>10, <2>1, GotoKeeps DEF ApplyRunning
<1>11. CASE DecideGet(w)
  <2>1. ServiceStep(w)
    BY <1>11 DEF DecideGet, Read, ServiceStep
  <2>2. PICK c \in {"fail_get", "apply_get"}, k \in IntentKind : GotoApply(w, k, c)
    BY <1>11 DEF DecideGet, IntentKind
  <2>3. QED
    BY <1>11, <2>1, <2>2, ApplyKeeps DEF DecideGet
<1>12. QED
  BY <1>1, <1>2, <1>3, <1>4, <1>5, <1>6, <1>7, <1>8, <1>9, <1>10, <1>11 DEF ApplyStep

LEMMA DeliverMoves ==
  ASSUME ControlInv, NEW w \in Workers, Deliver(w)
  PROVE  ServiceStep(w) /\ WorkerMoves(w)
<1>1. ServiceStep(w)
  BY DEF Deliver, Read, ServiceStep
<1>2. /\ WorkerTypes' /\ pc'[w] = "top" /\ target'[w] = target[w]
      /\ \A v \in Workers : v # w =>
           pc'[v] = pc[v] /\ target'[v] = target[v] /\ exec'[v] = exec[v]
  BY DEF Deliver, ControlInv, WorkerTypes, Calls
<1>3. Placed(w)'
  BY <1>2 DEF Placed, NodeCalls, ExecutionCalls
<1>4. QED
  BY <1>1, <1>2, <1>3 DEF WorkerMoves

(* A decision is taken on a node that was paused, so it had begun.           *)
LEMMA DecideMoves ==
  ASSUME ControlInv, NEW w \in Workers, Decide(w)
  PROVE  WorkerMoves(w) /\ \E n \in Nodes : NodeCall(n) /\ Begun(n) /\ target'[w] = n
<1>1. PICK n \in Nodes, g \in GateNos, a \in DecisionAction :
        /\ ApplyGateDecision(n, g, a)
        /\ target' = [target EXCEPT ![w] = n]
        /\ pc' = [pc EXCEPT ![w] = "decide_get"]
        /\ UNCHANGED <<exec, leased, intent, faults>>
  BY DEF Decide
<1>2. NodeCall(n)
  BY <1>1 DEF NodeCall
<1>3. Begun(n)
  BY <1>1 DEF ApplyGateDecision, CanMoveNode, NodeTransitions, DecisionTarget, DecisionAction, Begun
<1>4. /\ WorkerTypes' /\ pc'[w] = "decide_get" /\ target'[w] = n
      /\ \A v \in Workers : v # w =>
           pc'[v] = pc[v] /\ target'[v] = target[v] /\ exec'[v] = exec[v]
  BY <1>1 DEF ControlInv, WorkerTypes, Calls
<1>5. Placed(w)'
  BY <1>4 DEF Placed, NodeCalls, ExecutionCalls
<1>6. WorkerMoves(w)
  BY <1>3, <1>4, <1>5 DEF WorkerMoves
<1>7. QED
  BY <1>2, <1>3, <1>4, <1>6

LEMMA CutMoves ==
  ASSUME ControlInv, NEW w \in Workers, Raise(w) \/ Abandon(w)
  PROVE  ServiceStep(w) /\ WorkerMoves(w)
<1>1. ServiceStep(w)
  BY DEF Raise, Abandon, Read, ServiceStep
<1>2. CASE Raise(w)
  BY <1>1, <1>2, ReturnMoves DEF Raise
<1>3. CASE Abandon(w)
  <2>1. faults' \in 0..MaxFaults
    BY <1>3 DEF Abandon, ControlInv, WorkerTypes
  <2>2. QED
    BY <1>1, <1>3, <2>1, LeaveMoves DEF Abandon
<1>4. QED
  BY <1>2, <1>3

------------------------------------------------------------------------------
(* The steps of the control plane *)

(* A step of the plane: of one worker, or of its surroundings.               *)
PlaneStep ==
  \/ \E w \in Workers :
       /\ WorkerMoves(w)
       /\ \/ ServiceStep(w)
          \/ \E n \in Nodes : NodeCall(n) /\ Begun(n) /\ target'[w] = n
  \/ /\ UNCHANGED <<workerVars, faults>>
     /\ \/ MarkSession("CANCELLED")
        \/ \E n \in Nodes : \E i \in 1..count[n] : ExpireLease(n, i)
        \/ UNCHANGED serviceVars

LEMMA NextIsPlaneStep ==
  ASSUME ControlInv, [Next]_vars
  PROVE  PlaneStep
<1>1. ASSUME NEW w \in Workers,
             Deliver(w) \/ WorkerStep(w) \/ Decide(w) \/ Abandon(w)
      PROVE  PlaneStep
  BY <1>1, DeliverMoves, RunStepMoves, ReportStepMoves, ApplyStepMoves, DecideMoves, CutMoves
     DEF WorkerStep, PlaneStep
<1>2. CASE Cancel
  BY <1>2 DEF Cancel, PlaneStep
<1>3. CASE Expire
  <2>1. PICK n \in Nodes, i \in AttemptNos : ExpireLease(n, i)
    BY <1>3 DEF Expire
  <2>2. attempt[n][i] = "RUNNING"
    BY <2>1 DEF ExpireLease, ControlInv, ServiceInv, LeasedIsRunning
  <2>3. i \in 1..count[n]
    BY <2>2 DEF ControlInv, ServiceInv, ServiceTypeOK, AttemptNos
  <2>4. QED
    BY <1>3, <2>1, <2>3 DEF Expire, PlaneStep
<1>4. CASE UNCHANGED vars
  BY <1>4 DEF vars, PlaneStep
<1>5. QED
  BY <1>1, <1>2, <1>3, <1>4 DEF Next

LEMMA PlaneStepIsServiceNext ==
  ASSUME PlaneStep
  PROVE  [ServiceNext]_serviceVars
<1>1. MarkSession("CANCELLED") => \E s \in SessionStatus : MarkSession(s)
  BY DEF SessionStatus
<1>2. ASSUME NEW n \in Nodes, NEW i \in 1..count[n], ExpireLease(n, i)
      PROVE  ExecutionCall(n, i)
  BY <1>2 DEF ExecutionCall
<1>3. QED
  BY <1>1, <1>2, StepIsServiceNext DEF PlaneStep, ServiceNext, PlanCall

LEMMA ControlInitInv == Init => ControlInv
<1> SUFFICES ASSUME Init PROVE ControlInv
  OBVIOUS
<1>1. ServiceInv
  BY ServiceInitInv DEF Init
<1>2. WorkerTypes
  <2>1. 0 \in 0..MaxAttempts /\ 0 \in 0..MaxFaults /\ "none" \in IntentKind
    BY DEF IntentKind
  <2>2. QED
    BY <2>1 DEF Init, WorkerTypes
<1>3. \A w \in Workers : Placed(w)
  BY DEF Init, Placed, NodeCalls, ExecutionCalls
<1>4. QED
  BY <1>1, <1>2, <1>3 DEF ControlInv

(* The workers that do not move stay well placed: executions are only        *)
(* appended and a terminal session stays terminal.                           *)
LEMMA ControlStepInv ==
  ASSUME ControlInv, PlaneStep
  PROVE  ControlInv'
<1>1. ServiceInv' /\ HistoryFrozen
  BY PlaneStepIsServiceNext, ServiceNextInv, CallHistory DEF ControlInv
<1>2. /\ \A n \in Nodes : count[n] \in Nat /\ count'[n] \in Nat /\ count[n] <= count'[n]
      /\ session \in TerminalSession => session' \in TerminalSession
  BY <1>1 DEF HistoryFrozen, ControlInv, ServiceInv, ServiceTypeOK
<1>3. ASSUME NEW v \in Workers,
             pc'[v] = pc[v] /\ target'[v] = target[v] /\ exec'[v] = exec[v]
      PROVE  Placed(v)'
  <2>1. ExecutionCalls \subseteq NodeCalls
    BY DEF ExecutionCalls, NodeCalls
  <2>2. Placed(v)
    BY DEF ControlInv
  <2>3. QED
    BY <1>2, <1>3, <2>1, <2>2 DEF Placed
<1>4. WorkerTypes' /\ \A v \in Workers : Placed(v)'
  <2>1. CASE \E w \in Workers : WorkerMoves(w)
    BY <1>3, <2>1 DEF WorkerMoves
  <2>2. CASE UNCHANGED <<workerVars, faults>>
    BY <1>3, <2>2 DEF workerVars, ControlInv, WorkerTypes
  <2>3. QED
    BY <2>1, <2>2 DEF PlaneStep
<1>5. QED
  BY <1>1, <1>4 DEF ControlInv

(* The inductive invariant of the control plane: the durable aggregate is    *)
(* sound and every worker is where it is with a node and an execution that   *)
(* exist.                                                                    *)
THEOREM ControlInvariant == Spec => []ControlInv
<1>1. Init => ControlInv
  BY ControlInitInv
<1>2. ControlInv /\ [Next]_vars => ControlInv'
  BY NextIsPlaneStep, ControlStepInv
<1>3. QED
  BY <1>1, <1>2, PTL DEF Spec

(* Types of the plane's state, for any number of workers, nodes, attempts,   *)
(* gates and faults.                                                         *)
THEOREM ControlTypes == Spec => []TypeOK
<1>1. ControlInv => TypeOK
  BY DEF ControlInv, WorkerTypes, ServiceInv, TypeOK
<1>2. QED
  BY <1>1, ControlInvariant, PTL

(* The control plane implements the service: each of its steps is one call   *)
(* the service permits on a node and an execution that exist, or a read.     *)
(* What is proved of the service under any caller is true of the plane.      *)
THEOREM PlaneImplementsService == Spec => ServiceSpec
<1>1. Init => ServiceInit
  BY DEF Init
<1>2. ControlInv /\ [Next]_vars => [ServiceNext]_serviceVars
  BY NextIsPlaneStep, PlaneStepIsServiceNext
<1>3. QED
  BY <1>1, <1>2, ControlInvariant, PTL DEF Spec, ServiceSpec

(* The plane revises no workflow.                                            *)
NothingTakenBack == \A n \in Nodes : redone[n] = {} /\ revoked[n] = {}

LEMMA PlanCallTakesNothingBack ==
  ASSUME ControlInv, NothingTakenBack, PlaneStep
  PROVE  NothingTakenBack'
<1>1. CASE UNCHANGED <<redone, revoked>>
  BY <1>1 DEF NothingTakenBack
<1>2. ASSUME NEW n \in Nodes, NodeCall(n)
      PROVE  NothingTakenBack'
  <2>1. CASE \E g \in GateNos, a \in DecisionAction : ApplyGateDecision(n, g, a)
    BY <2>1 DEF ApplyGateDecision, NothingTakenBack, ControlInv, ServiceInv, ServiceTypeOK
  <2>2. QED
    BY <1>1, <1>2, <2>1 DEF NodeCall, MoveNode, CompleteNode, FailNode, RequeueNode,
                            StartAttempt, RecordGate
<1>3. ASSUME NEW n \in Nodes, NEW i \in 1..count[n], ExecutionCall(n, i)
      PROVE  NothingTakenBack'
  BY <1>1, <1>3 DEF ExecutionCall, ConsumeAgentReport, GrantLease, ReleaseLease, ExpireLease
<1>4. ASSUME NEW w \in Workers, ServiceStep(w)
      PROVE  NothingTakenBack'
  BY <1>1, <1>2, <1>3, <1>4
     DEF ServiceStep, TargetCall, MarkSession, NoteOutcome, RecoverExpired, serviceVars
<1>5. QED
  BY <1>1, <1>2, <1>4 DEF PlaneStep, MarkSession, ExpireLease, serviceVars

(* An approval stands: its node is APPROVED or COMPLETED.                    *)
ApprovalsStand ==
  \A n \in Nodes : \A g \in GateNos :
    decision[n][g] = "APPROVE" => node[n] \in {"APPROVED", "COMPLETED"}

(* However the workers interleave, crash and lose their leases, the gate     *)
(* decisions on a node bind it; and as a run revises no workflow, a node     *)
(* that was approved stays APPROVED or COMPLETED without exception.          *)
THEOREM PlaneDecisionsBind == Spec => [](DecisionsBind /\ ApprovalsStand)
<1>1. Init => NothingTakenBack
  BY DEF Init, ServiceInit, NothingTakenBack
<1>2. ControlInv /\ NothingTakenBack /\ [Next]_vars => NothingTakenBack'
  BY NextIsPlaneStep, PlanCallTakesNothingBack
<1>3. ControlInv /\ NothingTakenBack => DecisionsBind /\ ApprovalsStand
  BY DEF ControlInv, ServiceInv, DecisionsBind, NothingTakenBack, ApprovalsStand
<1>4. QED
  BY <1>1, <1>2, <1>3, ControlInvariant, PTL DEF Spec

------------------------------------------------------------------------------
(* The order of the nodes *)

(* What a worker read may be stale, but what it was chosen for stays true:   *)
(* everything its target requires is COMPLETED.                              *)
TargetsReady ==
  \A w \in Workers :
    target[w] \in Nodes => \A r \in Requires[target[w]] : node[r] = "COMPLETED"

OrderInv == ControlInv /\ DependencyOrder /\ TargetsReady

LEMMA CallTouchesOneNode ==
  ASSUME ServiceTypeOK, NEW n \in Nodes, TargetCall(n)
  PROVE  /\ \A m \in Nodes \ {n} : node'[m] = node[m] /\ count'[m] = count[m]
         /\ node[n] \in {"COMPLETED", "FAILED"} => node'[n] = node[n]
<1> USE DEF ServiceTypeOK
<1>1. CASE NodeCall(n)
  <2>1. CASE \E s \in {"RUNNING", "PENDING_GATE", "APPROVED", "NEEDS_REVISION"} : MoveNode(n, s)
    BY <2>1, NodeMoves DEF MoveNode, NodeStatus
  <2>2. CASE CompleteNode(n)
    BY <2>2, NodeMoves DEF CompleteNode, NodeStatus
  <2>3. CASE FailNode(n)
    BY <2>3, NodeMoves DEF FailNode, NodeStatus
  <2>4. CASE RequeueNode(n)
    BY <2>4, NodeMoves DEF RequeueNode, CanRequeueNode, NodeStatus
  <2>5. CASE StartAttempt(n)
    BY <2>5 DEF StartAttempt, AppendAttempt
  <2>6. CASE RecordGate(n)
    BY <2>6 DEF RecordGate
  <2>7. CASE \E g \in GateNos, a \in DecisionAction : ApplyGateDecision(n, g, a)
    <3>1. PICK g \in GateNos, a \in DecisionAction : ApplyGateDecision(n, g, a)
      BY <2>7
    <3>2. DecisionTarget(a) \in NodeStatus \ {"STALE"}
      BY DEF DecisionTarget, DecisionAction, NodeStatus
    <3>3. node[n] \notin {"COMPLETED", "FAILED"}
      BY <3>1, <3>2, NodeMoves DEF ApplyGateDecision
    <3>4. QED
      BY <3>1, <3>3 DEF ApplyGateDecision
  <2>8. QED
    BY <1>1, <2>1, <2>2, <2>3, <2>4, <2>5, <2>6, <2>7 DEF NodeCall
<1>2. CASE \E i \in 1..count[n] : ExecutionCall(n, i)
  BY <1>2 DEF ExecutionCall, ConsumeAgentReport, AppendAttempt, GrantLease, ReleaseLease,
              ExpireLease
<1>3. QED
  BY <1>1, <1>2 DEF TargetCall

(* A node that ended stays as it ended, and at most the node of the worker   *)
(* that takes the step begins.                                               *)
LEMMA ServiceStepOrder ==
  ASSUME ControlInv, NEW w, ServiceStep(w)
  PROVE  /\ \A n \in Nodes : node[n] \in {"COMPLETED", "FAILED"} => node'[n] = node[n]
         /\ \A n \in Nodes : Begun(n)' => Begun(n) \/ n = target[w]
<1>1. ServiceTypeOK
  BY DEF ControlInv, ServiceInv
<1>2. CASE UNCHANGED serviceVars \/ (\E s \in SessionStatus : MarkSession(s)) \/ NoteOutcome
  BY <1>2 DEF serviceVars, MarkSession, NoteOutcome, Begun
<1>3. CASE RecoverExpired
  BY <1>1, <1>3 DEF RecoverExpired, Recoverable, LatestRuns, ServiceTypeOK, Begun
<1>4. CASE target[w] \in Nodes /\ TargetCall(target[w])
  BY <1>1, <1>4, CallTouchesOneNode DEF Begun
<1>5. QED
  BY <1>2, <1>3, <1>4 DEF ServiceStep

LEMMA PlaneStepOrder ==
  ASSUME ControlInv, PlaneStep
  PROVE  /\ \A n \in Nodes : node[n] \in {"COMPLETED", "FAILED"} => node'[n] = node[n]
         /\ \A n \in Nodes : Begun(n)' => Begun(n) \/ \E w \in Workers : n = target[w]
<1>1. ServiceTypeOK
  BY DEF ControlInv, ServiceInv
<1>2. ASSUME NEW w \in Workers, ServiceStep(w)
      PROVE  /\ \A n \in Nodes : node[n] \in {"COMPLETED", "FAILED"} => node'[n] = node[n]
             /\ \A n \in Nodes : Begun(n)' => Begun(n) \/ n = target[w]
  BY <1>1, <1>2, ServiceStepOrder
<1>3. ASSUME NEW n \in Nodes, NodeCall(n), Begun(n)
      PROVE  /\ \A m \in Nodes : node[m] \in {"COMPLETED", "FAILED"} => node'[m] = node[m]
             /\ \A m \in Nodes : Begun(m)' => Begun(m)
  BY <1>1, <1>3, CallTouchesOneNode DEF TargetCall, Begun
<1>4. MarkSession("CANCELLED") => UNCHANGED <<node, count>>
  BY DEF MarkSession
<1>5. (\E n \in Nodes : \E i \in 1..count[n] : ExpireLease(n, i)) => UNCHANGED <<node, count>>
  BY DEF ExpireLease
<1>6. UNCHANGED serviceVars => UNCHANGED <<node, count>>
  BY DEF serviceVars
<1>7. CASE UNCHANGED <<node, count>>
  BY <1>7 DEF Begun
<1>8. QED
  BY <1>2, <1>3, <1>4, <1>5, <1>6, <1>7 DEF PlaneStep

LEMMA OrderStepInv ==
  ASSUME OrderInv, PlaneStep
  PROVE  OrderInv'
<1>1. ControlInv'
  BY ControlStepInv DEF OrderInv
<1>2. \A n \in Nodes : Requires[n] \subseteq Nodes
  BY BlueprintAssumption
<1>3. DependencyOrder'
  <2>1. \A n \in Nodes : Begun(n)' => \A r \in Requires[n] : node[r] = "COMPLETED"
    BY PlaneStepOrder DEF OrderInv, DependencyOrder, TargetsReady, Begun
  <2>2. QED
    BY <1>2, <2>1, PlaneStepOrder DEF OrderInv, DependencyOrder, Begun
<1>4. TargetsReady'
  <2> SUFFICES ASSUME NEW v \in Workers, target'[v] \in Nodes,
                      NEW r \in Requires[target'[v]]
               PROVE  node'[r] = "COMPLETED"
    BY DEF TargetsReady
  <2>1. \/ target'[v] = target[v]
        \/ target'[v] \in Ready
        \/ Begun(target'[v])
    BY DEF PlaneStep, WorkerMoves, workerVars
  <2>2. node[r] = "COMPLETED"
    BY <2>1 DEF OrderInv, DependencyOrder, TargetsReady, Ready, Begun
  <2>3. QED
    BY <1>2, <2>2, PlaneStepOrder DEF OrderInv
<1>5. QED
  BY <1>1, <1>3, <1>4 DEF OrderInv

(* Nodes start in dependency order, for every blueprint and any number of    *)
(* workers that act on stale reads, crash, and report late.                  *)
THEOREM NodesStartInOrder == Spec => []DependencyOrder
<1>1. Init => OrderInv
  <2> SUFFICES ASSUME Init PROVE OrderInv
    OBVIOUS
  <2>1. ControlInv
    BY ControlInitInv
  <2>2. DependencyOrder /\ TargetsReady
    BY DEF Init, ServiceInit, DependencyOrder, TargetsReady
  <2>3. QED
    BY <2>1, <2>2 DEF OrderInv
<1>2. OrderInv /\ [Next]_vars => OrderInv'
  BY NextIsPlaneStep, OrderStepInv DEF OrderInv
<1>3. OrderInv => DependencyOrder
  BY DEF OrderInv
<1>4. QED
  BY <1>1, <1>2, <1>3, PTL DEF Spec

------------------------------------------------------------------------------
(* What a step may change: executions, gates and the outcome *)

(* A worker before or between nodes: its next target is not chosen for an    *)
(* execution it holds.                                                       *)
Unbound == {"idle", "recover", "reread"}

ExecutionOf(w) ==
  /\ exec[w] > 0 => target[w] \in Nodes /\ exec[w] <= count[target[w]]
  /\ pc[w] \in Unbound => exec[w] = 0

KeepsExecution(w) ==
  /\ target'[w] = target[w] /\ exec'[w] = exec[w]
  /\ pc'[w] \in Unbound => pc[w] \in Unbound

OpensExecution(w) ==
  /\ target[w] \in Nodes /\ target'[w] = target[w] /\ pc'[w] \notin Unbound
  /\ exec'[w] = count[target[w]] + 1 /\ count'[target[w]] = count[target[w]] + 1

ExecutionMoves(w) == KeepsExecution(w) \/ exec'[w] = 0 \/ OpensExecution(w)

(* The calls in which a worker relies on a gate it recorded and on a node it *)
(* failed or found failed.                                                   *)
Relying == {"pause_release", "pause_node", "fail_session"}

(* Most calls touch no gate and fail no session.                             *)
QuietCall ==
  /\ UNCHANGED <<gates, decision>>
  /\ session' = "FAILED" => session = "FAILED"
  /\ \A n \in Nodes : node'[n] = node[n] \/ node'[n] \in {"QUEUED", "RUNNING", "COMPLETED", "FAILED"}

QuietStep(w) == QuietCall /\ ExecutionMoves(w) /\ pc'[w] \notin Relying

(* The others, one by one.                                                   *)
GateStep(w) ==
  \/ PauseRecordGate(w) \/ PauseReleaseLease(w) \/ PauseNode(w)
  \/ FailGet(w) \/ ApplyFailNode(w) \/ ApplyFailSession(w)
  \/ Decide(w)

LEMMA GotoIsQuiet ==
  ASSUME ControlInv, NEW w \in Workers, NEW c \in Calls \ Relying, Goto(w, c), QuietCall,
         c \in Unbound => pc[w] \in Unbound
  PROVE  QuietStep(w)
<1>1. pc'[w] = c /\ target'[w] = target[w] /\ exec'[w] = exec[w]
  BY DEF Goto, ControlInv, WorkerTypes
<1>2. QED
  BY <1>1 DEF QuietStep, ExecutionMoves, KeepsExecution

LEMMA ApplyIsQuiet ==
  ASSUME ControlInv, NEW w \in Workers, NEW k, NEW c \in Calls \ (Relying \cup Unbound),
         GotoApply(w, k, c), QuietCall
  PROVE  QuietStep(w)
<1>1. pc'[w] = c /\ target'[w] = target[w] /\ exec'[w] = exec[w]
  BY DEF GotoApply, ControlInv, WorkerTypes
<1>2. QED
  BY <1>1 DEF QuietStep, ExecutionMoves, KeepsExecution

LEMMA LeavingIsQuiet ==
  ASSUME ControlInv, NEW w \in Workers, QuietCall,
         pc' = [pc EXCEPT ![w] = "idle"], exec' = [exec EXCEPT ![w] = 0]
  PROVE  QuietStep(w)
<1>1. pc'[w] = "idle" /\ exec'[w] = 0
  BY DEF ControlInv, WorkerTypes
<1>2. QED
  BY <1>1 DEF QuietStep, ExecutionMoves, Relying

LEMMA ReturnIsQuiet ==
  ASSUME ControlInv, NEW w \in Workers, QuietCall, Leave(w)
  PROVE  QuietStep(w)
  BY LeavingIsQuiet DEF Leave

LEMMA ReadIsQuiet == Read => QuietCall
  BY DEF Read, serviceVars, QuietCall

LEMMA MarkIsQuiet ==
  ASSUME NEW s, MarkSession(s), s # "FAILED"
  PROVE  QuietCall
  BY DEF MarkSession, QuietCall

LEMMA NodeCallIsQuiet ==
  ASSUME ControlInv, NEW n \in Nodes,
         \/ MoveNode(n, "RUNNING") \/ CompleteNode(n) \/ FailNode(n) \/ RequeueNode(n)
         \/ StartAttempt(n) \/ \E i \in Nat : ConsumeAgentReport(n, i) \/ GrantLease(n, i)
  PROVE  QuietCall
<1>1. node \in [Nodes -> NodeStatus]
  BY DEF ControlInv, ServiceInv, ServiceTypeOK
<1>2. QED
  BY <1>1 DEF MoveNode, CompleteNode, FailNode, RequeueNode, StartAttempt, ConsumeAgentReport,
              GrantLease, QuietCall

LEMMA RecoveryIsQuiet == RecoverExpired => QuietCall
  BY DEF RecoverExpired, QuietCall

LEMMA RunStepQuiet ==
  ASSUME ControlInv, NEW w \in Workers, ExecutionOf(w), RunStep(w)
  PROVE  QuietStep(w)
<1> USE DEF At, Calls, Relying, Unbound
<1>0. Placed(w) /\ (pc[w] \in {"start_node", "start_exec", "grant"} => target[w] \in Nodes)
  BY DEF ControlInv, Placed, NodeCalls
<1>1. CASE Top(w)
  <2>1. QuietCall
    BY <1>1, ReadIsQuiet DEF Top
  <2>2. CASE GotoPicking(w, "recover")
    <3>1. pc'[w] = "recover" /\ exec'[w] = 0
      BY <2>2 DEF GotoPicking, ControlInv, WorkerTypes
    <3>2. QED
      BY <2>1, <3>1 DEF QuietStep, ExecutionMoves
  <2>3. QED
    BY <1>1, <2>1, <2>2, ReturnIsQuiet DEF Top
<1>2. CASE Recover(w)
  <2>1. QuietCall
    BY <1>2, ReadIsQuiet, RecoveryIsQuiet DEF Recover
  <2>2. PICK c \in {"reread", "open", "complete_get"} : Goto(w, c)
    BY <1>2 DEF Recover, AfterPick
  <2>3. QED
    BY <1>2, <2>1, <2>2, GotoIsQuiet DEF Recover
<1>3. CASE CompleteGet(w) \/ Open(w) \/ OpenReread(w)
  <2>1. QuietCall
    BY <1>3, ReadIsQuiet DEF CompleteGet, Open, OpenReread
  <2>2. PICK c \in {"complete_running", "complete", "open_running", "start_node", "start_exec"} :
          Goto(w, c)
    BY <1>3 DEF CompleteGet, Open, OpenReread, GotoOpen
  <2>3. QED
    BY <2>1, <2>2, GotoIsQuiet
<1>4. CASE CompleteRunning(w) \/ OpenRunning(w)
  <2>1. QuietCall
    BY <1>4, MarkIsQuiet DEF CompleteRunning, OpenRunning
  <2>2. PICK c \in {"complete", "open_reread"} : Goto(w, c)
    BY <1>4 DEF CompleteRunning, OpenRunning
  <2>3. QED
    BY <2>1, <2>2, GotoIsQuiet
<1>5. CASE Complete(w)
  <2>1. QuietCall
    BY <1>5, MarkIsQuiet DEF Complete
  <2>2. Goto(w, "note") \/ Leave(w)
    BY <1>5 DEF Complete
  <2>3. QED
    BY <2>1, <2>2, GotoIsQuiet, ReturnIsQuiet
<1>6. CASE Note(w)
  <2>1. QuietCall
    BY <1>6 DEF Note, NoteOutcome, QuietCall
  <2>2. QED
    BY <1>6, <2>1, ReturnIsQuiet DEF Note
<1>7. CASE OpenStartNode(w) \/ Grant(w)
  <2>1. target[w] \in Nodes /\ exec[w] \in Nat
    BY <1>0, <1>7 DEF OpenStartNode, Grant, ControlInv, WorkerTypes
  <2>2. QuietCall
    BY <1>7, <2>1, NodeCallIsQuiet DEF OpenStartNode, Grant
  <2>3. PICK c \in {"start_exec", "invoke"} : Goto(w, c)
    BY <1>7 DEF OpenStartNode, Grant
  <2>4. QED
    BY <2>2, <2>3, GotoIsQuiet
<1>8. CASE StartNodeExecution(w)
  <2> DEFINE n == target[w]
  <2>1. n \in Nodes /\ StartAttempt(n)
    BY <1>0, <1>8 DEF StartNodeExecution
  <2>2. QuietCall
    BY <2>1, NodeCallIsQuiet
  <2>3. count'[n] = count[n] + 1
    BY <2>1 DEF StartAttempt, AppendAttempt, ControlInv, ServiceInv, ServiceTypeOK
  <2>4. pc'[w] \in {"grant", "invoke"} /\ exec'[w] = count[n] + 1 /\ target'[w] = n
    BY <1>8 DEF StartNodeExecution, ControlInv, WorkerTypes
  <2>5. QED
    BY <2>1, <2>2, <2>3, <2>4 DEF QuietStep, ExecutionMoves, OpensExecution
<1>9. CASE Invoke(w)
  <2>1. QuietCall
    BY <1>9, ReadIsQuiet DEF Invoke
  <2>2. PICK k \in IntentKind : GotoApply(w, k, "report")
    BY <1>9 DEF Invoke, IntentKind
  <2>3. QED
    BY <2>1, <2>2, ApplyIsQuiet
<1>10. CASE Reread(w)
  <2>1. QuietCall
    BY <1>10, ReadIsQuiet DEF Reread
  <2>2. pc[w] = "reread" /\ pc'[w] \in {"complete_get", "open"} /\ exec'[w] = exec[w]
    BY <1>10 DEF Reread, ControlInv, WorkerTypes
  <2>3. QED
    BY <2>1, <2>2 DEF QuietStep, ExecutionMoves, ExecutionOf
<1>11. QED
  BY <1>1, <1>2, <1>3, <1>4, <1>5, <1>6, <1>7, <1>8, <1>9, <1>10 DEF RunStep

LEMMA ReportStepQuiet ==
  ASSUME ControlInv, NEW w \in Workers, ReportStep(w)
  PROVE  QuietStep(w)
<1> USE DEF At, Calls, Relying, Unbound
<1>1. target[w] \in Nodes /\ exec[w] \in Nat
  <2>1. pc[w] \in NodeCalls
    BY DEF ReportStep, Report, ReportStartNode, ReportReread, ReportStartAttempt, Consume, NodeCalls
  <2>2. QED
    BY <2>1 DEF ControlInv, Placed, WorkerTypes
<1>2. CASE Report(w) \/ ReportReread(w)
  <2>1. QuietCall
    BY <1>2, ReadIsQuiet DEF Report, ReportReread
  <2>2. PICK c \in {"report_start", "fail_get", "consume", "report_attempt"} : Goto(w, c)
    BY <1>2 DEF Report, ReportReread, AfterReport
  <2>3. QED
    BY <2>1, <2>2, GotoIsQuiet
<1>3. CASE ReportStartNode(w) \/ ReportStartAttempt(w)
  <2>1. QuietCall
    BY <1>1, <1>3, NodeCallIsQuiet DEF ReportStartNode, ReportStartAttempt
  <2>2. PICK c \in {"report_reread", "consume"} : Goto(w, c)
    BY <1>3 DEF ReportStartNode, ReportStartAttempt
  <2>3. QED
    BY <2>1, <2>2, GotoIsQuiet
<1>4. CASE Consume(w)
  <2>1. QuietCall
    BY <1>1, <1>4, NodeCallIsQuiet DEF Consume
  <2>2. PICK c \in {"pause_gate", "fail_get", "apply_get"}, k \in IntentKind : GotoApply(w, k, c)
    BY <1>4 DEF Consume, IntentKind
  <2>3. QED
    BY <2>1, <2>2, ApplyIsQuiet
<1>5. QED
  BY <1>2, <1>3, <1>4 DEF ReportStep

LEMMA ApplyStepQuiet ==
  ASSUME ControlInv, NEW w \in Workers, ApplyStep(w)
  PROVE  QuietStep(w) \/ GateStep(w)
<1> USE DEF At, Calls, Relying, Unbound
<1>1. CASE PauseSession(w)
  <2>1. QuietCall
    BY <1>1, MarkIsQuiet DEF PauseSession
  <2>2. QED
    BY <1>1, <2>1, ReturnIsQuiet DEF PauseSession
<1>2. CASE ApplyGet(w) \/ ApplyReget(w)
  <2>1. QuietCall
    BY <1>2, ReadIsQuiet DEF ApplyGet, ApplyReget
  <2>2. PICK c \in {"apply_resuming", "apply_node", "apply_running", "top"} : Goto(w, c)
    BY <1>2 DEF ApplyGet, ApplyReget
  <2>3. QED
    BY <2>1, <2>2, GotoIsQuiet
<1>3. CASE ApplyResuming(w) \/ ApplyRunning(w)
  <2>1. QuietCall
    BY <1>3, MarkIsQuiet DEF ApplyResuming, ApplyRunning
  <2>2. PICK c \in {"apply_node", "top"} : Goto(w, c)
    BY <1>3 DEF ApplyResuming, ApplyRunning
  <2>3. QED
    BY <2>1, <2>2, GotoIsQuiet
<1>4. CASE ApplyNode(w)
  <2>1. target[w] \in Nodes
    BY <1>4 DEF ApplyNode, ControlInv, Placed, NodeCalls
  <2>2. QuietCall
    BY <1>4, <2>1, NodeCallIsQuiet DEF ApplyNode
  <2>3. QED
    BY <1>4, <2>2, GotoIsQuiet DEF ApplyNode
<1>5. CASE DecideGet(w)
  <2>1. QuietCall
    BY <1>5, ReadIsQuiet DEF DecideGet
  <2>2. PICK c \in {"fail_get", "apply_get"}, k \in IntentKind : GotoApply(w, k, c)
    BY <1>5 DEF DecideGet, IntentKind
  <2>3. QED
    BY <2>1, <2>2, ApplyIsQuiet
<1>6. QED
  BY <1>1, <1>2, <1>3, <1>4, <1>5 DEF ApplyStep, GateStep

LEMMA WorkerCases ==
  ASSUME ControlInv, NEW w \in Workers, ExecutionOf(w),
         Deliver(w) \/ WorkerStep(w) \/ Decide(w) \/ Abandon(w)
  PROVE  QuietStep(w) \/ GateStep(w)
<1>1. CASE Deliver(w)
  <2>1. QuietCall /\ exec[w] = 0
    BY <1>1, ReadIsQuiet DEF Deliver, At, ExecutionOf, Unbound
  <2>2. pc'[w] = "top" /\ exec'[w] = exec[w]
    BY <1>1 DEF Deliver, ControlInv, WorkerTypes
  <2>3. QED
    BY <2>1, <2>2 DEF QuietStep, ExecutionMoves, Relying
<1>2. CASE Raise(w) \/ Abandon(w)
  BY <1>2, ReadIsQuiet, LeavingIsQuiet DEF Raise, Leave, Abandon
<1>3. QED
  BY <1>1, <1>2, RunStepQuiet, ReportStepQuiet, ApplyStepQuiet DEF WorkerStep, GateStep

(* The steps of the plane, seen by gates and executions.                     *)
LEMMA NextCases ==
  ASSUME ControlInv, [Next]_vars, \A w \in Workers : ExecutionOf(w)
  PROVE  \/ \E w \in Workers : WorkerMoves(w) /\ (QuietStep(w) \/ GateStep(w))
         \/ QuietCall /\ UNCHANGED <<workerVars, faults>>
<1>1. CASE Cancel
  BY <1>1, MarkIsQuiet DEF Cancel
<1>2. CASE Expire
  BY <1>2 DEF Expire, ExpireLease, QuietCall
<1>3. CASE UNCHANGED vars
  BY <1>3, ReadIsQuiet DEF vars, Read
<1>4. ASSUME NEW w \in Workers, Deliver(w) \/ WorkerStep(w) \/ Decide(w) \/ Abandon(w)
      PROVE  WorkerMoves(w) /\ (QuietStep(w) \/ GateStep(w))
  <2>1. WorkerMoves(w)
    BY <1>4, DeliverMoves, RunStepMoves, ReportStepMoves, ApplyStepMoves, DecideMoves, CutMoves
       DEF WorkerStep
  <2>2. QED
    BY <1>4, <2>1, WorkerCases
<1>5. QED
  BY <1>1, <1>2, <1>3, <1>4 DEF Next

------------------------------------------------------------------------------
(* Private executions *)

PrivateInv == ControlInv /\ (\A w \in Workers : ExecutionOf(w)) /\ PrivateExecutions

LEMMA GateStepKeepsExecution ==
  ASSUME ControlInv, NEW w \in Workers, ExecutionOf(w), GateStep(w)
  PROVE  ExecutionMoves(w)
<1>1. CASE Decide(w)
  BY <1>1 DEF Decide, At, ExecutionOf, Unbound, ExecutionMoves
<1>2. CASE ~Decide(w)
  <2>1. PICK c \in {"pause_release", "pause_node", "pause_session", "fail_node",
                    "fail_session", "note"} : Goto(w, c)
    BY <1>2 DEF GateStep, PauseRecordGate, PauseReleaseLease, PauseNode, FailGet, ApplyFailNode,
                ApplyFailSession
  <2>2. pc'[w] = c /\ target'[w] = target[w] /\ exec'[w] = exec[w]
    BY <2>1 DEF Goto, ControlInv, WorkerTypes
  <2>3. QED
    BY <2>2 DEF ExecutionMoves, KeepsExecution, Unbound
<1>3. QED
  BY <1>1, <1>2

(* A new execution has a number no worker holds: they hold numbers up to the *)
(* count, and the count only grows.                                          *)
LEMMA PrivateStepInv == PrivateInv /\ [Next]_vars => PrivateInv'
<1> SUFFICES ASSUME PrivateInv, [Next]_vars PROVE PrivateInv'
  OBVIOUS
<1>1. ControlInv /\ ControlInv' /\ PlaneStep
  BY NextIsPlaneStep, ControlStepInv DEF PrivateInv
<1>2. \A n \in Nodes : count[n] \in Nat /\ count'[n] \in Nat /\ count[n] <= count'[n]
  BY <1>1, PlaneStepIsServiceNext, CallHistory
     DEF HistoryFrozen, ControlInv, ServiceInv, ServiceTypeOK
<1>3. \A w \in Workers : exec[w] \in Nat /\ exec'[w] \in Nat
  BY <1>1 DEF ControlInv, WorkerTypes
<1>4. CASE UNCHANGED <<workerVars, faults>>
  BY <1>1, <1>2, <1>3, <1>4 DEF workerVars, PrivateInv, ExecutionOf, PrivateExecutions
<1>5. ASSUME NEW w \in Workers, ExecutionMoves(w), WorkerMoves(w)
      PROVE  PrivateInv'
  <2>1. /\ \A v \in Workers : ExecutionOf(v)
        /\ \A v \in Workers : v # w => pc'[v] = pc[v] /\ target'[v] = target[v] /\ exec'[v] = exec[v]
    BY <1>5 DEF PrivateInv, WorkerMoves
  <2>2. \A v \in Workers : v # w => ExecutionOf(v)'
    BY <1>2, <1>3, <2>1 DEF ExecutionOf
  <2>3. ExecutionOf(w)'
    BY <1>2, <1>3, <1>5, <2>1 DEF ExecutionOf, ExecutionMoves, KeepsExecution, OpensExecution
  <2>4. ASSUME NEW v \in Workers, v # w, exec'[v] = exec'[w], target'[v] = target'[w], exec'[v] > 0
        PROVE  FALSE
    BY <1>2, <1>3, <1>5, <2>1, <2>4
       DEF ExecutionMoves, KeepsExecution, OpensExecution, ExecutionOf, PrivateInv, PrivateExecutions
  <2>5. PrivateExecutions'
    BY <1>3, <2>1, <2>4 DEF PrivateInv, PrivateExecutions
  <2>6. QED
    BY <1>1, <2>2, <2>3, <2>5 DEF PrivateInv
<1>6. \A w \in Workers : QuietStep(w) \/ GateStep(w) => ExecutionMoves(w)
  BY <1>1, GateStepKeepsExecution DEF QuietStep, PrivateInv
<1>7. QED
  BY <1>1, <1>4, <1>5, <1>6, NextCases DEF PrivateInv

(* However often the session is delivered, resumed and redelivered, no two   *)
(* runs ever hold one execution: what one of them reports, the other cannot  *)
(* have produced.                                                            *)
THEOREM ExecutionsArePrivate == Spec => []PrivateExecutions
<1>1. Init => PrivateInv
  <2> SUFFICES ASSUME Init PROVE PrivateInv
    OBVIOUS
  <2>1. ControlInv
    BY ControlInitInv
  <2>2. \A w \in Workers : exec[w] = 0
    BY DEF Init
  <2>3. QED
    BY <2>1, <2>2 DEF PrivateInv, ExecutionOf, PrivateExecutions
<1>2. PrivateInv => PrivateExecutions
  BY DEF PrivateInv
<1>3. QED
  BY <1>1, <1>2, PrivateStepInv, PTL DEF Spec

------------------------------------------------------------------------------
(* Gates and failures *)

(* A worker that pauses a node has recorded its gate, and one that fails the *)
(* session has failed the node.                                              *)
Relies(w) ==
  /\ pc[w] \in {"pause_release", "pause_node"} => gates[target[w]] > 0
  /\ pc[w] = "fail_session" => node[target[w]] = "FAILED"

(* Nothing is decided on a gate that is not recorded.                        *)
DecisionsAreOnGates ==
  \A n \in Nodes : \A g \in GateNos : g > gates[n] => decision[n][g] = "NONE"

GateInv ==
  /\ PrivateInv
  /\ \A w \in Workers : Relies(w)
  /\ DecisionsAreOnGates
  /\ OnlyDecisionsMoveGates
  /\ FailedSessionHasFailedNode

GatesGrow == \A n \in Nodes : gates[n] \in Nat /\ gates'[n] \in Nat /\ gates[n] <= gates'[n]

FailuresStay == \A n \in Nodes : node[n] = "FAILED" => node'[n] = "FAILED"

(* A worker that did not move still has what it relies on.                   *)
LEMMA ReliesKept ==
  ASSUME ControlInv, GatesGrow, FailuresStay, NEW v \in Workers, Relies(v),
         pc'[v] = pc[v], target'[v] = target[v]
  PROVE  Relies(v)'
<1>1. Placed(v)
  BY DEF ControlInv
<1>2. pc[v] \in Relying => target[v] \in Nodes
  BY <1>1 DEF Placed, Relying, NodeCalls
<1>3. QED
  BY <1>2 DEF Relies, Relying, GatesGrow, FailuresStay

LEMMA QuietGates ==
  ASSUME GateInv, QuietCall, FailuresStay
  PROVE  /\ GatesGrow
         /\ DecisionsAreOnGates' /\ OnlyDecisionsMoveGates' /\ FailedSessionHasFailedNode'
<1> USE DEF GateInv, PrivateInv, QuietCall
<1>1. GatesGrow
  BY DEF GatesGrow, ControlInv, ServiceInv, ServiceTypeOK
<1>2. DecisionsAreOnGates'
  BY DEF DecisionsAreOnGates
<1>3. OnlyDecisionsMoveGates'
  BY DEF OnlyDecisionsMoveGates
<1>4. FailedSessionHasFailedNode'
  BY DEF FailedSessionHasFailedNode, FailuresStay
<1>5. QED
  BY <1>1, <1>2, <1>3, <1>4

(* A recorded gate is the next one of its node; a decision goes to a gate    *)
(* that is recorded, and moves the node accordingly.                         *)
LEMMA RecordGateGates ==
  ASSUME GateInv, NEW n \in Nodes, RecordGate(n)
  PROVE  /\ GatesGrow /\ gates'[n] > 0
         /\ DecisionsAreOnGates' /\ OnlyDecisionsMoveGates' /\ FailedSessionHasFailedNode'
<1> USE DEF GateInv, PrivateInv
<1> DEFINE Decision == DecisionAction \cup {"UNDECIDED", "NONE"}
<1>1. /\ \A m \in Nodes : gates[m] \in Nat
      /\ gates[n] + 1 \in GateNos
      /\ decision \in Table(GateNos, Decision)
      /\ gates \in [Nodes -> 0..MaxGates]
  BY DEF ControlInv, ServiceInv, ServiceTypeOK, RecordGate, CanRecordGate, GateNos, Table
<1>2. /\ \A m \in Nodes : gates'[m] = IF m = n THEN gates[m] + 1 ELSE gates[m]
      /\ UNCHANGED <<session, node>>
  BY <1>1 DEF RecordGate
<1>3. \A m \in Nodes : \A g \in GateNos :
        decision'[m][g] = IF m = n /\ g = gates[n] + 1 THEN "UNDECIDED" ELSE decision[m][g]
  <2> HIDE DEF Decision
  <2>1. QED
    BY <1>1 DEF RecordGate, Table
<1>4. GatesGrow /\ gates'[n] > 0
  BY <1>1, <1>2 DEF GatesGrow
<1>5. DecisionsAreOnGates'
  BY <1>1, <1>2, <1>3 DEF DecisionsAreOnGates, GateNos
<1>6. ASSUME NEW m \in Nodes, NEW g \in GateNos, decision[m][g] # "NONE"
      PROVE  decision'[m][g] = decision[m][g]
  BY <1>1, <1>3, <1>6 DEF DecisionsAreOnGates
<1>7. OnlyDecisionsMoveGates'
  <2> SUFFICES ASSUME NEW m \in Nodes
               PROVE  LET decided == {decision'[m][g] : g \in GateNos} IN
                      /\ node'[m] = "PENDING_GATE" => gates'[m] > 0
                      /\ node'[m] = "APPROVED" => "APPROVE" \in decided
                      /\ node'[m] = "NEEDS_REVISION" => decided \cap {"REVISE", "REPLAN"} # {}
    BY DEF OnlyDecisionsMoveGates
  <2>1. \A a \in DecisionAction : a \in {decision[m][g] : g \in GateNos} =>
          a \in {decision'[m][g] : g \in GateNos}
    BY <1>6 DEF DecisionAction
  <2>2. node'[m] = node[m] /\ (gates[m] > 0 => gates'[m] > 0)
    BY <1>1, <1>2
  <2>3. QED
    BY <2>1, <2>2 DEF OnlyDecisionsMoveGates, DecisionAction
<1>8. FailedSessionHasFailedNode'
  BY <1>2 DEF FailedSessionHasFailedNode
<1>9. QED
  BY <1>4, <1>5, <1>7, <1>8

LEMMA DecideGates ==
  ASSUME GateInv, FailuresStay, NEW n \in Nodes, NEW g \in GateNos, NEW a \in DecisionAction,
         ApplyGateDecision(n, g, a)
  PROVE  /\ GatesGrow
         /\ DecisionsAreOnGates' /\ OnlyDecisionsMoveGates' /\ FailedSessionHasFailedNode'
<1> USE DEF GateInv, PrivateInv
<1> DEFINE Decision == DecisionAction \cup {"UNDECIDED", "NONE"}
<1>1. /\ decision \in Table(GateNos, Decision)
      /\ node \in [Nodes -> NodeStatus]
      /\ \A m \in Nodes : gates[m] \in Nat
  BY DEF ControlInv, ServiceInv, ServiceTypeOK, Table
<1>2. /\ g <= gates[n] /\ UNCHANGED <<session, gates>>
      /\ \A m \in Nodes : node'[m] = IF m = n THEN DecisionTarget(a) ELSE node[m]
  BY <1>1 DEF ApplyGateDecision
<1>3. \A m \in Nodes : \A h \in GateNos :
        decision'[m][h] = IF m = n /\ h = g THEN a ELSE decision[m][h]
  <2> HIDE DEF Decision
  <2>1. QED
    BY <1>1 DEF ApplyGateDecision, Table
<1>4. GatesGrow
  BY <1>1, <1>2 DEF GatesGrow
<1>5. DecisionsAreOnGates'
  BY <1>1, <1>2, <1>3 DEF DecisionsAreOnGates, GateNos
<1>6. OnlyDecisionsMoveGates'
  <2> SUFFICES ASSUME NEW m \in Nodes
               PROVE  LET decided == {decision'[m][h] : h \in GateNos} IN
                      /\ node'[m] = "PENDING_GATE" => gates'[m] > 0
                      /\ node'[m] = "APPROVED" => "APPROVE" \in decided
                      /\ node'[m] = "NEEDS_REVISION" => decided \cap {"REVISE", "REPLAN"} # {}
    BY DEF OnlyDecisionsMoveGates
  <2>1. CASE m = n
    <3>1. a \in {decision'[m][h] : h \in GateNos}
      BY <1>3, <2>1
    <3>2. /\ node'[m] # "PENDING_GATE"
          /\ node'[m] = "APPROVED" => a = "APPROVE"
          /\ node'[m] = "NEEDS_REVISION" => a \in {"REVISE", "REPLAN"}
      BY <1>2, <2>1 DEF DecisionTarget, DecisionAction
    <3>3. QED
      BY <3>1, <3>2
  <2>2. CASE m # n
    <3>1. {decision'[m][h] : h \in GateNos} = {decision[m][h] : h \in GateNos}
      BY <1>3, <2>2
    <3>2. node'[m] = node[m] /\ gates'[m] = gates[m]
      BY <1>2, <2>2
    <3>3. QED
      BY <3>1, <3>2 DEF OnlyDecisionsMoveGates
  <2>3. QED
    BY <2>1, <2>2
<1>7. FailedSessionHasFailedNode'
  BY <1>2 DEF FailedSessionHasFailedNode, FailuresStay
<1>8. QED
  BY <1>4, <1>5, <1>6, <1>7

LEMMA GateStepGates ==
  ASSUME GateInv, FailuresStay, NEW w \in Workers, GateStep(w)
  PROVE  /\ GatesGrow /\ Relies(w)'
         /\ DecisionsAreOnGates' /\ OnlyDecisionsMoveGates' /\ FailedSessionHasFailedNode'
<1> DEFINE n == target[w]
<1>1. Placed(w) /\ Relies(w) /\ ControlInv
  BY DEF GateInv, PrivateInv, ControlInv
<1>2. \A m \in Nodes : gates[m] \in Nat
  BY <1>1 DEF ControlInv, ServiceInv, ServiceTypeOK
<1>3. ASSUME NEW c, Goto(w, c)
      PROVE  pc'[w] = c /\ target'[w] = n
  BY <1>1, <1>3 DEF Goto, ControlInv, WorkerTypes
<1>4. CASE PauseRecordGate(w)
  <2>1. n \in Nodes /\ RecordGate(n)
    BY <1>1, <1>4 DEF PauseRecordGate, At, Placed, NodeCalls
  <2>2. pc'[w] \in {"pause_release", "pause_node"} /\ target'[w] = n
    BY <1>3, <1>4 DEF PauseRecordGate
  <2>3. QED
    BY <2>1, <2>2, RecordGateGates DEF Relies
<1>5. CASE PauseReleaseLease(w)
  <2>1. UNCHANGED <<session, node, gates, decision>> /\ gates[n] > 0 /\ n \in Nodes
    BY <1>1, <1>5 DEF PauseReleaseLease, ReleaseLease, At, Relies, Placed, NodeCalls
  <2>2. QuietCall
    BY <2>1 DEF QuietCall
  <2>3. pc'[w] = "pause_node" /\ target'[w] = n
    BY <1>3, <1>5 DEF PauseReleaseLease
  <2>4. QED
    BY <2>1, <2>2, <2>3, QuietGates DEF Relies
<1>6. CASE PauseNode(w)
  <2>1. gates[n] > 0 /\ n \in Nodes
    BY <1>1, <1>6 DEF PauseNode, At, Relies, Placed, NodeCalls
  <2>2. /\ UNCHANGED <<session, gates, decision>>
        /\ \A m \in Nodes : node'[m] = node[m] \/ (m = n /\ node'[m] = "PENDING_GATE")
    <3>1. node \in [Nodes -> NodeStatus]
      BY <1>1 DEF ControlInv, ServiceInv, ServiceTypeOK
    <3>2. QED
      BY <1>6, <2>1, <3>1 DEF PauseNode, MoveNode
  <2>3. GatesGrow
    BY <1>2, <2>2 DEF GatesGrow
  <2>4. DecisionsAreOnGates' /\ OnlyDecisionsMoveGates'
    BY <2>1, <2>2 DEF GateInv, DecisionsAreOnGates, OnlyDecisionsMoveGates
  <2>5. FailedSessionHasFailedNode'
    BY <2>2 DEF GateInv, FailedSessionHasFailedNode, FailuresStay
  <2>6. pc'[w] = "pause_session"
    BY <1>3, <1>6 DEF PauseNode
  <2>7. QED
    BY <2>3, <2>4, <2>5, <2>6 DEF Relies
<1>7. CASE FailGet(w)
  <2>1. QuietCall /\ UNCHANGED node
    BY <1>7, ReadIsQuiet DEF FailGet, Read, serviceVars
  <2>2. /\ pc'[w] \in {"fail_session", "fail_node"} /\ target'[w] = n
        /\ pc'[w] = "fail_session" => node[n] = "FAILED"
    BY <1>3, <1>7 DEF FailGet
  <2>3. QED
    BY <2>1, <2>2, QuietGates DEF Relies
<1>8. CASE ApplyFailNode(w)
  <2>1. n \in Nodes /\ FailNode(n)
    BY <1>1, <1>8 DEF ApplyFailNode, At, Placed, NodeCalls
  <2>2. QuietCall
    BY <1>1, <2>1, NodeCallIsQuiet
  <2>3. node'[n] = "FAILED"
    BY <1>1, <2>1 DEF FailNode, ControlInv, ServiceInv, ServiceTypeOK
  <2>4. pc'[w] = "fail_session" /\ target'[w] = n
    BY <1>3, <1>8 DEF ApplyFailNode
  <2>5. QED
    BY <2>2, <2>3, <2>4, QuietGates DEF Relies
<1>9. CASE ApplyFailSession(w)
  <2>1. n \in Nodes /\ node[n] = "FAILED" /\ UNCHANGED <<node, gates, decision>>
    BY <1>1, <1>9 DEF ApplyFailSession, MarkSession, At, Relies, Placed, NodeCalls
  <2>2. GatesGrow /\ DecisionsAreOnGates' /\ OnlyDecisionsMoveGates'
    BY <1>2, <2>1 DEF GatesGrow, GateInv, DecisionsAreOnGates, OnlyDecisionsMoveGates
  <2>3. FailedSessionHasFailedNode'
    BY <2>1 DEF FailedSessionHasFailedNode
  <2>4. pc'[w] = "note"
    BY <1>3, <1>9 DEF ApplyFailSession
  <2>5. QED
    BY <2>2, <2>3, <2>4 DEF Relies
<1>10. CASE Decide(w)
  <2>1. PICK m \in Nodes, g \in GateNos, a \in DecisionAction : ApplyGateDecision(m, g, a)
    BY <1>10 DEF Decide
  <2>2. pc'[w] = "decide_get"
    BY <1>1, <1>10 DEF Decide, ControlInv, WorkerTypes
  <2>3. QED
    BY <2>1, <2>2, DecideGates DEF Relies
<1>11. QED
  BY <1>4, <1>5, <1>6, <1>7, <1>8, <1>9, <1>10 DEF GateStep

LEMMA GateStepInv == GateInv /\ [Next]_vars => GateInv'
<1> SUFFICES ASSUME GateInv, [Next]_vars PROVE GateInv'
  OBVIOUS
<1>1. PrivateInv /\ PrivateInv'
  BY PrivateStepInv DEF GateInv
<1>2. ControlInv /\ PlaneStep
  BY <1>1, NextIsPlaneStep DEF PrivateInv
<1>3. FailuresStay
  BY <1>2, PlaneStepOrder DEF FailuresStay
<1>4. CASE QuietCall /\ UNCHANGED <<workerVars, faults>>
  <2>1. /\ GatesGrow
        /\ DecisionsAreOnGates' /\ OnlyDecisionsMoveGates' /\ FailedSessionHasFailedNode'
    BY <1>3, <1>4, QuietGates
  <2>2. ASSUME NEW v \in Workers PROVE Relies(v)'
    BY <1>2, <1>3, <1>4, <2>1, ReliesKept DEF GateInv, workerVars
  <2>3. QED
    BY <1>1, <2>1, <2>2 DEF GateInv
<1>5. ASSUME NEW w \in Workers, WorkerMoves(w), QuietStep(w) \/ GateStep(w)
      PROVE  GateInv'
  <2>1. /\ GatesGrow /\ Relies(w)'
        /\ DecisionsAreOnGates' /\ OnlyDecisionsMoveGates' /\ FailedSessionHasFailedNode'
    <3>1. CASE GateStep(w)
      BY <1>3, <3>1, GateStepGates
    <3>2. CASE QuietStep(w)
      <4>1. Relies(w)'
        BY <3>2 DEF QuietStep, Relies, Relying
      <4>2. QED
        BY <1>3, <3>2, <4>1, QuietGates DEF QuietStep
    <3>3. QED
      BY <1>5, <3>1, <3>2
  <2>2. ASSUME NEW v \in Workers, v # w PROVE Relies(v)'
    BY <1>2, <1>3, <1>5, <2>1, <2>2, ReliesKept DEF GateInv, WorkerMoves
  <2>3. QED
    BY <1>1, <2>1, <2>2 DEF GateInv
<1>6. QED
  BY <1>1, <1>2, <1>4, <1>5, NextCases DEF PrivateInv

LEMMA GateInvariant == Spec => []GateInv
<1>1. Init => GateInv
  <2> SUFFICES ASSUME Init PROVE GateInv
    OBVIOUS
  <2>1. PrivateInv
    BY ControlInitInv DEF Init, PrivateInv, ExecutionOf, PrivateExecutions
  <2>2. /\ DecisionsAreOnGates /\ OnlyDecisionsMoveGates /\ FailedSessionHasFailedNode
        /\ \A w \in Workers : Relies(w)
    BY DEF Init, ServiceInit, DecisionsAreOnGates, OnlyDecisionsMoveGates,
           FailedSessionHasFailedNode, Relies
  <2>3. QED
    BY <2>1, <2>2 DEF GateInv
<1>2. QED
  BY <1>1, GateStepInv, PTL DEF Spec

(* Control never approves a node, sends it back or pauses it by itself, for  *)
(* any number of workers, stale decisions and crashes between a gate's put,  *)
(* the release of the lease and the node's put.                              *)
THEOREM OnlyDecisionsMove == Spec => []OnlyDecisionsMoveGates
<1>1. GateInv => OnlyDecisionsMoveGates
  BY DEF GateInv
<1>2. QED
  BY <1>1, GateInvariant, PTL

(* A session never fails while its nodes could go on: whoever fails it has   *)
(* failed a node or found it failed, and a failed node stays failed.         *)
THEOREM FailedSessionsHaveFailedNode == Spec => []FailedSessionHasFailedNode
<1>1. GateInv => FailedSessionHasFailedNode
  BY DEF GateInv
<1>2. QED
  BY <1>1, GateInvariant, PTL

------------------------------------------------------------------------------
(* A single writer that is never cut short *)

(* One worker runs and resumes the session, no call of it is cut short, and the *)
(* authority answers the latest gate.  Leases still expire, and the session may *)
(* be cancelled, at any time.                                                 *)
SingleWriter(w) == Workers = {w} /\ MaxFaults = 0 /\ ~StaleDecisions

Cancelled == session = "CANCELLED"

(* Nodes a run is not in the middle of, with one exception or none.            *)
Alone(n) == \A m \in Nodes \ {n} : node[m] \in {"QUEUED", "COMPLETED"}
AtRest == \A m \in Nodes : node[m] \in {"QUEUED", "COMPLETED"}

(* Between two runs nothing is under way, a gate is open, or a run was turned  *)
(* away because its lease had expired.                                        *)
Between ==
  \/ session \in TerminalSession
  \/ session \in {"QUEUED", "RUNNING"} /\ AtRest
  \/ session = "RUNNING" /\ \E m \in Nodes : Recoverable(m) /\ Alone(m)
  \/ session = "WAITING_GATE" /\ \E m \in Nodes : node[m] = "PENDING_GATE" /\ Alone(m)

(* The status of the session at a call of the worker, unless it was cancelled,  *)
(* and the status of the node the worker is at.                               *)
SessionAt(c) ==
  CASE c \in {"idle", "top", "note"} -> SessionStatus \ {"RESUMING"}
    [] c \in {"recover", "reread", "complete_get", "complete", "open"} -> {"QUEUED", "RUNNING"}
    [] c = "open_running" -> {"QUEUED"}
    [] c \in {"decide_get", "fail_get", "fail_node", "fail_session", "apply_get"} ->
         {"RUNNING", "WAITING_GATE"}
    [] c = "apply_resuming" -> {"WAITING_GATE"}
    [] c \in {"apply_node", "apply_reget"} -> {"RUNNING", "RESUMING"}
    [] c = "apply_running" -> {"RESUMING"}
    [] OTHER -> {"RUNNING"}

NodeAt(c, kind) ==
  CASE c \in {"open", "open_running", "open_reread", "start_node"} -> {"QUEUED"}
    [] c = "pause_session" -> {"PENDING_GATE"}
    [] c = "fail_get" -> {"RUNNING", "FAILED"}
    [] c = "fail_session" -> {"FAILED"}
    [] c = "decide_get" -> {"NEEDS_REVISION", "APPROVED", "FAILED"}
    [] c \in {"apply_get", "apply_resuming", "apply_node"} ->
         {"RUNNING", IF kind = "COMPLETE" THEN "APPROVED" ELSE "NEEDS_REVISION"}
    [] c \in {"apply_reget", "apply_running"} -> {"QUEUED", "COMPLETED"}
    [] OTHER -> {"RUNNING"}

(* Calls a single writer never makes, and those in which it holds the latest   *)
(* execution of its node.                                                     *)
Unused == {"complete_running", "report_start", "report_reread", "report_attempt"}

HoldingCalls == {"grant", "invoke", "report", "consume", "pause_gate", "pause_release"}

Holding(w) ==
  LET n == target[w] IN
  /\ LatestRuns(n) /\ exec[w] = count[n]
  /\ pc[w] = "grant" => leased[w] /\ lease[n][count[n]] = "none"
  /\ pc[w] # "grant" /\ ~Cancelled => (leased[w] <=> lease[n][count[n]] # "none")

SoloAt(w) ==
  /\ pc[w] \notin Unused
  /\ Cancelled \/ session \in SessionAt(pc[w])
  /\ pc[w] \in NodeCalls =>
       node[target[w]] \in NodeAt(pc[w], intent[w]) /\ (Cancelled \/ Alone(target[w]))
  /\ pc[w] \in {"idle", "top", "recover"} => Between
  /\ pc[w] \in {"reread", "complete_get", "complete"} => Cancelled \/ AtRest
  /\ pc[w] \in {"complete_get", "complete"} => Ready = {}
  /\ pc[w] = "recover" => IF Ready = {} THEN target[w] = NoNode ELSE target[w] \in Ready
  /\ pc[w] \in HoldingCalls => Holding(w)
  /\ pc[w] = "pause_gate" => CanRecordGate(target[w])
  /\ pc[w] = "pause_release" => leased[w]
  /\ pc[w] = "start_exec" => CanAppendAttempt(target[w])
  /\ pc[w] \in {"apply_get", "apply_resuming", "apply_node"} /\ intent[w] # "COMPLETE" =>
       CanAppendAttempt(target[w])

(* There is room for the executions that are to come.                          *)
Room ==
  \A n \in Nodes :
    /\ node[n] \in {"QUEUED", "NEEDS_REVISION"} => CanAppendAttempt(n)
    /\ count[n] > 0 /\ lease[n][count[n]] = "expired" => CanAppendAttempt(n)

(* An open gate holds its node: it is paused or about to be.  In a session that *)
(* was cancelled just then it is left running, and no run gets to it.          *)
OpenGate(n) == gates[n] > 0 /\ decision[n][gates[n]] = "UNDECIDED"

Pausing == {"pause_release", "pause_node"}

GateHeld(w) ==
  \A n \in Nodes : OpenGate(n) =>
    \/ node[n] = "PENDING_GATE"
    \/ node[n] = "RUNNING" /\ target[w] = n /\ pc[w] \in Pausing
    \/ /\ node[n] = "RUNNING" /\ Cancelled /\ target[w] # n
       /\ count[n] > 0 /\ lease[n][count[n]] = "none"

Outcome ==
  /\ session = "COMPLETED" => \A n \in Nodes : node[n] = "COMPLETED"
  /\ session = "FAILED" => \A n \in Nodes : node[n] \in {"QUEUED", "COMPLETED", "FAILED"}

SoloInv(w) == SoloAt(w) /\ GateHeld(w) /\ Room /\ Outcome

(* How a worker moves on.                                                      *)
LEMMA GotoArrives ==
  ASSUME ControlInv, NEW w \in Workers, NEW c, Goto(w, c)
  PROVE  pc'[w] = c /\ UNCHANGED <<target, exec, leased, intent>>
  BY DEF Goto, ControlInv, WorkerTypes

LEMMA ApplyArrives ==
  ASSUME ControlInv, NEW w \in Workers, NEW k, NEW c, GotoApply(w, k, c)
  PROVE  pc'[w] = c /\ intent'[w] = k /\ UNCHANGED <<target, exec, leased>>
  BY DEF GotoApply, ControlInv, WorkerTypes

LEMMA LeaveArrives ==
  ASSUME ControlInv, NEW w \in Workers, Leave(w)
  PROVE  pc'[w] = "idle" /\ target'[w] = NoNode
  BY DEF Leave, ControlInv, WorkerTypes

LEMMA AtHome ==
  ASSUME NEW w \in Workers, pc'[w] \in {"idle", "top"}, Between'
  PROVE  SoloAt(w)'
<1>1. session' \in SessionStatus \ {"RESUMING"}
  BY DEF Between, TerminalSession, SessionStatus
<1>2. QED
  BY <1>1 DEF SoloAt, SessionAt, NodeCalls, HoldingCalls, Unused

(* A step that decides no gate and leaves the nodes that have one.             *)
LEMMA GatesStayHeld ==
  ASSUME ControlInv, NEW w \in Workers, GateHeld(w), UNCHANGED <<gates, decision>>,
         Cancelled => Cancelled',
         pc[w] \in Pausing => pc'[w] \in Pausing /\ target'[w] = target[w],
         target'[w] \in {target[w], NoNode} \cup Ready,
         \A n \in Nodes : OpenGate(n) /\ (n = target[w] => pc[w] \in Pausing \/ node[n] = "PENDING_GATE") =>
           /\ node'[n] = node[n] /\ count'[n] = count[n]
           /\ n # target[w] /\ count[n] > 0 /\ lease[n][count[n]] = "none" =>
                lease'[n][count[n]] = "none"
  PROVE  GateHeld(w)'
<1> SUFFICES ASSUME NEW n \in Nodes, OpenGate(n)'
             PROVE  \/ node'[n] = "PENDING_GATE"
                    \/ node'[n] = "RUNNING" /\ target'[w] = n /\ pc'[w] \in Pausing
                    \/ /\ node'[n] = "RUNNING" /\ Cancelled' /\ target'[w] # n
                       /\ count'[n] > 0 /\ lease'[n][count'[n]] = "none"
  BY DEF GateHeld
<1>1. OpenGate(n) /\ NoNode \notin Nodes
  BY NoNodeAssumption DEF OpenGate
<1>2. \/ node[n] = "PENDING_GATE"
      \/ node[n] = "RUNNING" /\ target[w] = n /\ pc[w] \in Pausing
      \/ /\ node[n] = "RUNNING" /\ Cancelled /\ target[w] # n
         /\ count[n] > 0 /\ lease[n][count[n]] = "none"
  BY <1>1 DEF GateHeld
<1>3. node'[n] = node[n] /\ count'[n] = count[n]
      /\ (n # target[w] /\ count[n] > 0 /\ lease[n][count[n]] = "none" =>
            lease'[n][count[n]] = "none")
  BY <1>1, <1>2
<1>4. node[n] = "RUNNING" => n \notin Ready
  BY DEF Ready
<1>5. QED
  BY <1>1, <1>2, <1>3, <1>4

(* A read changes none of what the invariant says of the session.              *)
LEMMA ReadKeepsState ==
  ASSUME Read
  PROVE  /\ UNCHANGED <<session, node, count, attempt, lease, gates, decision>>
         /\ (Between' <=> Between) /\ (AtRest' <=> AtRest) /\ (Cancelled' <=> Cancelled)
         /\ Ready' = Ready /\ (Room' <=> Room) /\ (Outcome' <=> Outcome)
         /\ \A n \in Nodes : (Alone(n)' <=> Alone(n)) /\ (LatestRuns(n)' <=> LatestRuns(n))
         /\ \A n \in Nodes : /\ CanAppendAttempt(n)' <=> CanAppendAttempt(n)
                             /\ CanRecordGate(n)' <=> CanRecordGate(n)
<1>1. UNCHANGED <<session, node, count, attempt, lease, gates, decision>>
  BY DEF Read, serviceVars
<1>2. Ready' = Ready
  BY <1>1 DEF Ready
<1>3. (Between' <=> Between) /\ (AtRest' <=> AtRest) /\ (Cancelled' <=> Cancelled)
  BY <1>1 DEF Between, AtRest, Alone, Cancelled, Recoverable, LatestRuns
<1>4. (Room' <=> Room) /\ (Outcome' <=> Outcome)
  BY <1>1 DEF Room, Outcome, CanAppendAttempt
<1>5. \A n \in Nodes : (Alone(n)' <=> Alone(n)) /\ (LatestRuns(n)' <=> LatestRuns(n))
  BY <1>1 DEF Alone, LatestRuns
<1>6. \A n \in Nodes : /\ CanAppendAttempt(n)' <=> CanAppendAttempt(n)
                       /\ CanRecordGate(n)' <=> CanRecordGate(n)
  BY <1>1 DEF CanAppendAttempt, CanRecordGate
<1>7. QED
  BY <1>1, <1>2, <1>3, <1>4, <1>5, <1>6

LEMMA ReadKeeps ==
  ASSUME ControlInv, NEW w \in Workers, SoloInv(w), Read, SoloAt(w)',
         pc[w] \in Pausing => pc'[w] \in Pausing /\ target'[w] = target[w],
         target'[w] \in {target[w], NoNode} \cup Ready
  PROVE  SoloInv(w)'
<1>1. GateHeld(w)'
  <2>1. UNCHANGED <<node, count, lease, gates, decision>> /\ (Cancelled' <=> Cancelled)
    BY ReadKeepsState
  <2>2. QED
    BY <2>1, GatesStayHeld DEF SoloInv
<1>2. QED
  BY <1>1, ReadKeepsState DEF SoloInv

LEMMA SoloDelivers ==
  ASSUME ControlInv, NEW w \in Workers, SoloInv(w), Deliver(w)
  PROVE  SoloInv(w)'
<1>1. pc[w] = "idle" /\ pc'[w] = "top" /\ target' = target /\ Read
  BY DEF Deliver, At, ControlInv, WorkerTypes
<1>2. Between'
  BY <1>1, ReadKeepsState DEF SoloInv, SoloAt
<1>3. QED
  BY <1>1, <1>2, AtHome, ReadKeeps DEF Pausing

LEMMA SoloTops ==
  ASSUME ControlInv, NEW w \in Workers, SoloInv(w), Top(w)
  PROVE  SoloInv(w)'
<1>1. pc[w] = "top" /\ Read /\ Between /\ Between'
  BY ReadKeepsState DEF Top, At, SoloInv, SoloAt
<1>2. CASE Leave(w)
  BY <1>1, <1>2, LeaveArrives, AtHome, ReadKeeps DEF Pausing
<1>3. CASE ~Halted /\ GotoPicking(w, "recover")
  <2>1. pc'[w] = "recover" /\ Picks(w)
    BY <1>3 DEF GotoPicking, ControlInv, WorkerTypes
  <2>2. session \in {"QUEUED", "RUNNING"}
    BY <1>1, <1>3 DEF Between, Halted
  <2>3. IF Ready' = {} THEN target'[w] = NoNode ELSE target'[w] \in Ready'
    BY <1>1, <2>1, PickedTarget, ReadKeepsState
  <2>4. SoloAt(w)'
    BY <1>1, <2>1, <2>2, <2>3, ReadKeepsState DEF SoloAt, SessionAt, NodeCalls, HoldingCalls, Unused
  <2>5. QED
    BY <1>1, <2>1, <2>4, PickedTarget, ReadKeeps DEF Pausing
<1>4. QED
  BY <1>2, <1>3 DEF Top

(* An execution that is under way when its worker comes back has lost its      *)
(* lease: recovery sends its node back, so that nothing is under way.          *)
LEMMA RecoveryRests ==
  ASSUME ControlInv, Between, session \in {"QUEUED", "RUNNING"}
  PROVE  /\ ~(\E n \in Nodes : Recoverable(n)) => AtRest
         /\ RecoverExpired => AtRest'
<1>1. node \in [Nodes -> NodeStatus]
  BY DEF ControlInv, ServiceInv, ServiceTypeOK
<1>2. CASE AtRest
  BY <1>1, <1>2 DEF AtRest, RecoverExpired
<1>3. CASE \E m \in Nodes : Recoverable(m) /\ Alone(m)
  <2>1. PICK m \in Nodes : Recoverable(m) /\ Alone(m)
    BY <1>3
  <2>2. ASSUME RecoverExpired, NEW n \in Nodes PROVE node'[n] \in {"QUEUED", "COMPLETED"}
    <3>1. node'[n] = IF Recoverable(n) THEN "QUEUED" ELSE node[n]
      BY <2>2 DEF RecoverExpired
    <3>2. QED
      BY <2>1, <3>1 DEF Alone
  <2>3. QED
    BY <2>1, <2>2 DEF AtRest
<1>4. QED
  BY <1>2, <1>3 DEF Between, TerminalSession

LEMMA SoloRecovers ==
  ASSUME ControlInv, NEW w \in Workers, SoloInv(w), Recover(w)
  PROVE  SoloInv(w)'
<1>1. /\ pc[w] = "recover" /\ Between /\ (Cancelled \/ session \in {"QUEUED", "RUNNING"})
      /\ IF Ready = {} THEN target[w] = NoNode ELSE target[w] \in Ready
  BY DEF Recover, At, SoloInv, SoloAt, SessionAt
<1>2. CASE RecoverExpired /\ Goto(w, "reread")
  <2>1. pc'[w] = "reread" /\ target' = target
    BY <1>2, GotoArrives
  <2>2. /\ UNCHANGED <<session, count, gates, decision>>
        /\ \A n \in Nodes : node'[n] = IF Recoverable(n) THEN "QUEUED" ELSE node[n]
        /\ \A n \in Nodes : \A i \in AttemptNos :
             lease'[n][i] = IF Recoverable(n) /\ i = count[n] THEN "none" ELSE lease[n][i]
    BY <1>2 DEF RecoverExpired
  <2>3. Cancelled \/ AtRest'
    BY <1>1, <1>2, RecoveryRests
  <2>4. SoloAt(w)'
    BY <1>1, <2>1, <2>2, <2>3 DEF SoloAt, SessionAt, NodeCalls, HoldingCalls, Unused, Cancelled
  <2>5. \A n \in Nodes : count[n] > 0 => count[n] \in AttemptNos
    BY DEF ControlInv, ServiceInv, ServiceTypeOK, AttemptNos
  <2>6. Room'
    <3>1. ASSUME NEW n \in Nodes, Recoverable(n) PROVE CanAppendAttempt(n)
      BY <3>1 DEF SoloInv, Room, Recoverable, LatestRuns
    <3>2. QED
      BY <2>2, <2>5, <3>1 DEF SoloInv, Room, CanAppendAttempt
  <2>7. Outcome'
    BY <2>2 DEF SoloInv, Outcome, Recoverable
  <2>8. ASSUME NEW n \in Nodes, OpenGate(n) PROVE ~Recoverable(n)
    BY <1>1, <2>8 DEF SoloInv, GateHeld, Recoverable, Pausing
  <2>9. GateHeld(w)'
    <3>1. \A n \in Nodes : OpenGate(n) =>
            /\ node'[n] = node[n] /\ count'[n] = count[n]
            /\ count[n] > 0 /\ lease[n][count[n]] = "none" => lease'[n][count[n]] = "none"
      BY <2>2, <2>5, <2>8
    <3>2. QED
      BY <1>1, <2>1, <2>2, <3>1, GatesStayHeld DEF SoloInv, Cancelled, Pausing
  <2>10. QED
    BY <2>4, <2>6, <2>7, <2>9 DEF SoloInv
<1>3. CASE ~(\E n \in Nodes : Recoverable(n)) /\ Read /\ (Goto(w, AfterPick(w)) \/ Goto(w, "reread"))
  <2>1. PICK c \in {"complete_get", "open", "reread"} :
          /\ Goto(w, c) /\ pc'[w] = c /\ UNCHANGED <<target, exec, leased, intent>>
          /\ c = "complete_get" => target[w] = NoNode
          /\ c = "open" => target[w] # NoNode
    BY <1>3, GotoArrives DEF AfterPick
  <2>2. Cancelled \/ AtRest
    BY <1>1, <1>3, RecoveryRests
  <2>3. AtRest => \A n \in Nodes : Alone(n)
    BY DEF AtRest, Alone
  <2>4. target[w] \in Ready => target[w] \in Nodes /\ node[target[w]] = "QUEUED"
    BY DEF Ready
  <2>5. Ready \subseteq Nodes /\ NoNode \notin Nodes
    BY NoNodeAssumption DEF Ready
  <2>6. SoloAt(w)'
    BY <1>1, <1>3, <2>1, <2>2, <2>3, <2>4, <2>5, ReadKeepsState
       DEF SoloAt, SessionAt, NodeAt, NodeCalls, HoldingCalls, Unused
  <2>7. QED
    BY <1>1, <1>3, <2>1, <2>6, ReadKeeps DEF Pausing
<1>4. QED
  BY <1>2, <1>3 DEF Recover

(* A step on the session's status only: it is not cancelled, and leases are     *)
(* kept or cleared.                                                           *)
LEMMA MarkKeepsState ==
  ASSUME ControlInv, NEW s, MarkSession(s)
  PROVE  /\ UNCHANGED <<node, count, attempt, gates, decision>> /\ session' = s /\ ~Cancelled
         /\ CanMarkSession(s)
         /\ s \notin TerminalSession => lease' = lease
         /\ \A n \in Nodes : \A i \in AttemptNos : lease'[n][i] \in {lease[n][i], "none"}
         /\ (AtRest' <=> AtRest) /\ Ready' = Ready
         /\ \A n \in Nodes : (Alone(n)' <=> Alone(n)) /\ (LatestRuns(n)' <=> LatestRuns(n))
         /\ \A n \in Nodes : /\ CanAppendAttempt(n)' <=> CanAppendAttempt(n)
                             /\ CanRecordGate(n)' <=> CanRecordGate(n)
<1>1. /\ UNCHANGED <<node, count, attempt, gates, decision>> /\ session' = s
      /\ CanMarkSession(s) /\ (s \notin TerminalSession => lease' = lease)
  BY DEF MarkSession
<1>2. ~Cancelled
  BY <1>1 DEF CanMarkSession, SessionTransitions, Cancelled
<1>3. \A n \in Nodes : \A i \in AttemptNos : lease'[n][i] \in {lease[n][i], "none"}
  BY DEF MarkSession, NoLease
<1>4. (AtRest' <=> AtRest) /\ Ready' = Ready
  BY <1>1 DEF AtRest, Ready
<1>5. \A n \in Nodes : (Alone(n)' <=> Alone(n)) /\ (LatestRuns(n)' <=> LatestRuns(n))
  BY <1>1 DEF Alone, LatestRuns
<1>6. \A n \in Nodes : /\ CanAppendAttempt(n)' <=> CanAppendAttempt(n)
                       /\ CanRecordGate(n)' <=> CanRecordGate(n)
  BY <1>1 DEF CanAppendAttempt, CanRecordGate
<1>7. QED
  BY <1>1, <1>2, <1>3, <1>4, <1>5, <1>6

LEMMA MarkKeeps ==
  ASSUME ControlInv, NEW w \in Workers, SoloInv(w), NEW s, MarkSession(s), SoloAt(w)', Outcome',
         pc[w] \in Pausing => pc'[w] \in Pausing /\ target'[w] = target[w],
         target'[w] \in {target[w], NoNode} \cup Ready
  PROVE  SoloInv(w)'
<1>1. /\ UNCHANGED <<node, count, gates, decision>> /\ ~Cancelled
      /\ \A n \in Nodes : \A i \in AttemptNos : lease'[n][i] \in {lease[n][i], "none"}
      /\ \A n \in Nodes : CanAppendAttempt(n)' <=> CanAppendAttempt(n)
  BY MarkKeepsState
<1>2. \A n \in Nodes : count[n] > 0 => count[n] \in AttemptNos
  BY DEF ControlInv, ServiceInv, ServiceTypeOK, AttemptNos
<1>3. \A n \in Nodes : count[n] > 0 => lease'[n][count[n]] \in {lease[n][count[n]], "none"}
  BY <1>1, <1>2
<1>4. GateHeld(w)'
  BY <1>1, <1>3, GatesStayHeld DEF SoloInv
<1>5. Room'
  BY <1>1, <1>3 DEF SoloInv, Room
<1>6. QED
  BY <1>4, <1>5 DEF SoloInv

(* Nothing is left to do and nothing is under way: everything is done, as a     *)
(* node that was left over would have one before it that is ready.            *)
LEMMA ExhaustedIsDone ==
  ASSUME AtRest, Ready = {}
  PROVE  \A n \in Nodes : node[n] = "COMPLETED"
<1> DEFINE Left == {n \in Nodes : node[n] # "COMPLETED"}
<1>1. SUFFICES ASSUME Left # {} PROVE FALSE
  OBVIOUS
<1>2. PICK n \in Left : Requires[n] \cap Left = {}
  BY <1>1, BlueprintAssumption
<1>3. node[n] = "QUEUED" /\ Requires[n] \subseteq Nodes
  BY <1>2, BlueprintAssumption DEF AtRest
<1>4. n \in Ready
  BY <1>2, <1>3 DEF Ready
<1>5. QED
  BY <1>4

LEMMA SoloRereads ==
  ASSUME ControlInv, NEW w \in Workers, SoloInv(w), Reread(w)
  PROVE  SoloInv(w)'
<1>1. /\ pc[w] = "reread" /\ Read /\ Picks(w)
      /\ (Cancelled \/ (AtRest /\ session \in {"QUEUED", "RUNNING"}))
  BY DEF Reread, At, SoloInv, SoloAt, SessionAt
<1>2. /\ target'[w] \in Ready \cup {NoNode}
      /\ Ready # {} => target'[w] \in Nodes /\ node[target'[w]] = "QUEUED"
  BY <1>1, PickedTarget, NoNodeAssumption DEF Ready
<1>3. pc'[w] = IF Ready = {} THEN "complete_get" ELSE "open"
  BY DEF Reread, ControlInv, WorkerTypes
<1>4. AtRest => \A n \in Nodes : Alone(n)
  BY DEF AtRest, Alone
<1>5. SoloAt(w)'
  BY <1>1, <1>2, <1>3, <1>4, ReadKeepsState
     DEF SoloAt, SessionAt, NodeAt, NodeCalls, HoldingCalls, Unused
<1>6. QED
  BY <1>1, <1>2, <1>5, ReadKeeps DEF Pausing

LEMMA SoloCompletes ==
  ASSUME ControlInv, NEW w \in Workers, SoloInv(w),
         CompleteGet(w) \/ CompleteRunning(w) \/ Complete(w) \/ Note(w)
  PROVE  SoloInv(w)'
<1>1. CASE CompleteGet(w)
  <2>1. /\ pc[w] = "complete_get" /\ Read /\ Ready = {} /\ (Cancelled \/ AtRest)
        /\ (Cancelled \/ session \in {"QUEUED", "RUNNING"})
    BY <1>1 DEF CompleteGet, At, SoloInv, SoloAt, SessionAt
  <2>2. Goto(w, "complete")
    BY <1>1, <2>1 DEF CompleteGet, Cancelled
  <2>3. pc'[w] = "complete" /\ target' = target
    BY <2>2, GotoArrives
  <2>4. SoloAt(w)'
    BY <2>1, <2>3, ReadKeepsState DEF SoloAt, SessionAt, NodeCalls, HoldingCalls, Unused
  <2>5. QED
    BY <2>1, <2>3, <2>4, ReadKeeps DEF Pausing
<1>2. CASE CompleteRunning(w)
  BY <1>2 DEF CompleteRunning, At, SoloInv, SoloAt, Unused
<1>3. CASE Complete(w)
  <2>1. /\ pc[w] = "complete" /\ MarkSession("COMPLETED") /\ Ready = {} /\ (Cancelled \/ AtRest)
    BY <1>3 DEF Complete, At, SoloInv, SoloAt
  <2>2. /\ ~Cancelled /\ session' = "COMPLETED" /\ UNCHANGED node
    BY <2>1, MarkKeepsState
  <2>3. Outcome'
    BY <2>1, <2>2, ExhaustedIsDone DEF Outcome
  <2>4. pc'[w] \in {"note", "idle"} /\ target'[w] \in {target[w], NoNode}
    BY <1>3, GotoArrives, LeaveArrives DEF Complete
  <2>5. SoloAt(w)'
    BY <2>2, <2>4 DEF SoloAt, SessionAt, NodeCalls, HoldingCalls, Unused, Between,
                      TerminalSession, SessionStatus
  <2>6. QED
    BY <2>1, <2>3, <2>4, <2>5, MarkKeeps DEF Pausing
<1>4. CASE Note(w)
  <2>1. /\ pc[w] = "note" /\ session \in TerminalSession /\ pc'[w] = "idle" /\ target'[w] = NoNode
    BY <1>4, LeaveArrives DEF Note, At, ControlInv, Placed
  <2>2. UNCHANGED <<session, node, count, attempt, lease, gates, decision>>
    BY <1>4 DEF Note, NoteOutcome
  <2>3. SoloAt(w)'
    BY <2>1, <2>2, AtHome DEF Between
  <2>4. GateHeld(w)'
    BY <2>1, <2>2, GatesStayHeld DEF SoloInv, Cancelled, Pausing
  <2>5. Room' /\ Outcome'
    BY <2>2 DEF SoloInv, Room, Outcome, CanAppendAttempt
  <2>6. QED
    BY <2>3, <2>4, <2>5 DEF SoloInv
<1>5. QED
  BY <1>1, <1>2, <1>3, <1>4

(* A step on the worker's node and its executions.                             *)
LEMMA NodeStepKeeps ==
  ASSUME ControlInv, NEW w \in Workers, SoloInv(w), NEW n \in Nodes, n = target[w],
         pc[w] \in NodeCalls \ Pausing, node[n] # "PENDING_GATE", target' = target,
         UNCHANGED <<session, gates, decision>>,
         \A m \in Nodes \ {n} : /\ node'[m] = node[m] /\ count'[m] = count[m]
                                /\ \A i \in AttemptNos : lease'[m][i] = lease[m][i],
         node'[n] \in {"QUEUED", "NEEDS_REVISION"} => CanAppendAttempt(n)',
         count'[n] > 0 /\ lease'[n][count'[n]] = "expired" => CanAppendAttempt(n)',
         SoloAt(w)'
  PROVE  SoloInv(w)'
<1>1. \A m \in Nodes : count[m] > 0 => count[m] \in AttemptNos
  BY DEF ControlInv, ServiceInv, ServiceTypeOK, AttemptNos
<1>2. Room'
  BY <1>1 DEF SoloInv, Room, CanAppendAttempt
<1>3. session \notin {"COMPLETED", "FAILED"}
  BY DEF SoloInv, SoloAt, SessionAt, NodeCalls, Cancelled, Unused
<1>4. Outcome'
  BY <1>3 DEF Outcome
<1>5. GateHeld(w)'
  BY <1>1, GatesStayHeld DEF SoloInv, Cancelled
<1>6. QED
  BY <1>2, <1>4, <1>5 DEF SoloInv

LEMMA SoloOpens ==
  ASSUME ControlInv, NEW w \in Workers, SoloInv(w), Open(w) \/ OpenRunning(w) \/ OpenReread(w)
  PROVE  SoloInv(w)'
<1>1. /\ target[w] \in Nodes /\ node[target[w]] = "QUEUED" /\ (Cancelled \/ Alone(target[w]))
      /\ pc[w] \in {"open", "open_running", "open_reread"}
      /\ Cancelled \/ session \in SessionAt(pc[w])
  BY DEF Open, OpenRunning, OpenReread, At, SoloInv, SoloAt, NodeAt, NodeCalls, ControlInv, Placed
<1>2. CASE Open(w)
  <2>1. pc[w] = "open" /\ Read
    BY <1>2 DEF Open, At
  <2>2. PICK c \in {"open_running", "start_node"} :
          /\ pc'[w] = c /\ UNCHANGED <<target, exec, leased, intent>>
          /\ session \in SessionAt(c)
    <3>1. CASE session = "QUEUED" /\ Goto(w, "open_running")
      BY <3>1, GotoArrives DEF SessionAt
    <3>2. CASE Accepting /\ GotoOpen(w)
      <4>1. session = "RUNNING" /\ Goto(w, "start_node")
        BY <1>1, <2>1, <3>2 DEF Accepting, GotoOpen, SessionAt, Cancelled
      <4>2. QED
        BY <4>1, GotoArrives DEF SessionAt
    <3>3. QED
      BY <1>2, <3>1, <3>2 DEF Open
  <2>3. SoloAt(w)'
    BY <1>1, <2>1, <2>2, ReadKeepsState DEF SoloAt, NodeAt, NodeCalls, HoldingCalls, Unused
  <2>4. QED
    BY <2>1, <2>2, <2>3, ReadKeeps DEF Pausing
<1>3. CASE OpenRunning(w)
  <2>1. pc[w] = "open_running" /\ MarkSession("RUNNING") /\ Goto(w, "open_reread")
    BY <1>3 DEF OpenRunning, At
  <2>2. pc'[w] = "open_reread" /\ UNCHANGED <<target, exec, leased, intent>>
    BY <2>1, GotoArrives
  <2>3. session' = "RUNNING" /\ UNCHANGED node /\ ~Cancelled
        /\ \A n \in Nodes : Alone(n)' <=> Alone(n)
    BY <2>1, MarkKeepsState
  <2>4. SoloAt(w)'
    BY <1>1, <2>2, <2>3 DEF SoloAt, SessionAt, NodeAt, NodeCalls, HoldingCalls, Unused
  <2>5. Outcome'
    BY <2>3 DEF Outcome
  <2>6. QED
    BY <2>1, <2>2, <2>4, <2>5, MarkKeeps DEF Pausing
<1>4. CASE OpenReread(w)
  <2>1. pc[w] = "open_reread" /\ Read /\ Goto(w, "start_node")
    BY <1>1, <1>4 DEF OpenReread, At, GotoOpen
  <2>2. pc'[w] = "start_node" /\ UNCHANGED <<target, exec, leased, intent>>
    BY <2>1, GotoArrives
  <2>3. SoloAt(w)'
    BY <1>1, <2>1, <2>2, ReadKeepsState
       DEF SoloAt, SessionAt, NodeAt, NodeCalls, HoldingCalls, Unused
  <2>4. QED
    BY <2>1, <2>2, <2>3, ReadKeeps DEF Pausing
<1>5. QED
  BY <1>2, <1>3, <1>4

LEMMA SoloStartsNode ==
  ASSUME ControlInv, NEW w \in Workers, SoloInv(w), OpenStartNode(w)
  PROVE  SoloInv(w)'
<1>1. PICK n \in Nodes : n = target[w]
  BY DEF OpenStartNode, At, NodeCalls, ControlInv, Placed
<1>2. /\ pc[w] = "start_node" /\ node[n] = "QUEUED" /\ (Cancelled \/ Alone(n))
      /\ Cancelled \/ session = "RUNNING"
  BY <1>1 DEF OpenStartNode, At, SoloInv, SoloAt, SessionAt, NodeAt, NodeCalls
<1>3. pc'[w] = "start_exec" /\ UNCHANGED <<target, exec, leased, intent>>
  BY GotoArrives DEF OpenStartNode
<1>4. /\ UNCHANGED <<session, count, attempt, lease, gates, decision>> /\ node'[n] = "RUNNING"
      /\ \A m \in Nodes \ {n} : node'[m] = node[m]
  BY <1>1 DEF OpenStartNode, MoveNode, ControlInv, ServiceInv, ServiceTypeOK
<1>5. CanAppendAttempt(n)' /\ (CanAppendAttempt(n)' <=> CanAppendAttempt(n))
  BY <1>2, <1>4 DEF SoloInv, Room, CanAppendAttempt
<1>6. Alone(n)' <=> Alone(n)
  BY <1>4 DEF Alone
<1>7. SoloAt(w)'
  BY <1>1, <1>2, <1>3, <1>4, <1>5, <1>6
     DEF SoloAt, SessionAt, NodeAt, NodeCalls, HoldingCalls, Unused, Cancelled
<1>8. QED
  BY <1>1, <1>2, <1>3, <1>4, <1>5, <1>7, NodeStepKeeps DEF NodeCalls, Pausing

(* The execution it opens is the latest of its node, and has no lease yet.      *)
LEMMA SoloStartsExecution ==
  ASSUME ControlInv, ControlInv', NEW w \in Workers, SoloInv(w), StartNodeExecution(w)
  PROVE  SoloInv(w)'
<1>1. PICK n \in Nodes : n = target[w]
  BY DEF StartNodeExecution, At, NodeCalls, ControlInv, Placed
<1>2. /\ pc[w] = "start_exec" /\ node[n] = "RUNNING" /\ (Cancelled \/ Alone(n))
      /\ Cancelled \/ session = "RUNNING"
  BY <1>1 DEF StartNodeExecution, At, SoloInv, SoloAt, SessionAt, NodeAt, NodeCalls
<1>3. PICK c \in {"grant", "invoke"} :
        /\ pc'[w] = c /\ exec'[w] = count[n] + 1 /\ UNCHANGED <<target, leased, intent>>
        /\ c = "grant" <=> leased[w]
  BY <1>1 DEF StartNodeExecution, ControlInv, WorkerTypes
<1>4. /\ UNCHANGED <<session, node, lease, gates, decision>>
      /\ \A m \in Nodes : count'[m] = IF m = n THEN count[n] + 1 ELSE count[m]
      /\ attempt'[n][count[n] + 1] = "RUNNING" /\ count[n] + 1 \in AttemptNos
      /\ count[n] \in Nat
  BY <1>1 DEF StartNodeExecution, StartAttempt, AppendAttempt, CanAppendAttempt, ControlInv,
              ServiceInv, ServiceTypeOK, AttemptNos
<1>5. lease[n][count[n] + 1] = "none"
  <2>1. attempt[n][count[n] + 1] = "NONE" /\ lease[n][count[n] + 1] \in LeaseState
    BY <1>4 DEF ControlInv, ServiceInv, ServiceTypeOK
  <2>2. QED
    BY <1>4, <2>1 DEF ControlInv, ServiceInv, LeasedIsRunning
<1>6. count'[n] = exec'[w] /\ LatestRuns(n)' /\ lease'[n][count'[n]] = "none"
  BY <1>3, <1>4, <1>5 DEF LatestRuns
<1>7. (Alone(n)' <=> Alone(n)) /\ (Cancelled' <=> Cancelled)
  BY <1>4 DEF Alone, Cancelled
<1>8. Holding(w)'
  BY <1>1, <1>3, <1>4, <1>6 DEF Holding
<1>9. SoloAt(w)'
  BY <1>1, <1>2, <1>3, <1>4, <1>7, <1>8
     DEF SoloAt, SessionAt, NodeAt, NodeCalls, HoldingCalls, Unused
<1>10. QED
  BY <1>1, <1>2, <1>3, <1>4, <1>6, <1>9, NodeStepKeeps DEF NodeCalls, Pausing

LEMMA SoloGrants ==
  ASSUME ControlInv, NEW w \in Workers, SoloInv(w), Grant(w)
  PROVE  SoloInv(w)'
<1>1. PICK n \in Nodes : n = target[w]
  BY DEF Grant, At, NodeCalls, ControlInv, Placed
<1>2. /\ pc[w] = "grant" /\ node[n] = "RUNNING" /\ (Cancelled \/ Alone(n))
      /\ Cancelled \/ session = "RUNNING"
      /\ LatestRuns(n) /\ exec[w] = count[n] /\ leased[w]
  BY <1>1 DEF Grant, At, SoloInv, SoloAt, SessionAt, NodeAt, NodeCalls, HoldingCalls, Holding
<1>3. pc'[w] = "invoke" /\ UNCHANGED <<target, exec, leased, intent>>
  BY GotoArrives DEF Grant
<1>4. count[n] \in AttemptNos
  BY <1>2 DEF LatestRuns, ControlInv, ServiceInv, ServiceTypeOK, AttemptNos
<1>5. /\ UNCHANGED <<session, node, count, attempt, gates, decision>>
      /\ lease'[n][count[n]] = "live"
      /\ \A m \in Nodes \ {n} : lease'[m] = lease[m]
  BY <1>1, <1>2, <1>4 DEF Grant, GrantLease, ControlInv, ServiceInv, ServiceTypeOK
<1>6. (Alone(n)' <=> Alone(n)) /\ (Cancelled' <=> Cancelled) /\ (LatestRuns(n)' <=> LatestRuns(n))
      /\ (CanAppendAttempt(n)' <=> CanAppendAttempt(n))
  BY <1>5 DEF Alone, Cancelled, LatestRuns, CanAppendAttempt
<1>7. Holding(w)'
  BY <1>1, <1>2, <1>3, <1>5, <1>6 DEF Holding
<1>8. SoloAt(w)'
  BY <1>1, <1>2, <1>3, <1>5, <1>6, <1>7
     DEF SoloAt, SessionAt, NodeAt, NodeCalls, HoldingCalls, Unused
<1>9. QED
  BY <1>1, <1>2, <1>3, <1>5, <1>8, NodeStepKeeps DEF NodeCalls, Pausing

(* What a worker finds that is about to report, or to end, its execution.       *)
LEMMA SoloHolds ==
  ASSUME ControlInv, NEW w \in Workers, SoloInv(w), pc[w] \in HoldingCalls \ {"grant"}
  PROVE  /\ target[w] \in Nodes /\ node[target[w]] = "RUNNING"
         /\ Cancelled \/ (Alone(target[w]) /\ session = "RUNNING")
         /\ LatestRuns(target[w]) /\ exec[w] = count[target[w]]
         /\ ~Cancelled => (leased[w] <=> lease[target[w]][count[target[w]]] # "none")
         /\ attempt[target[w]][exec[w]] = "RUNNING" /\ count[target[w]] \in AttemptNos
<1>1. target[w] \in Nodes /\ pc[w] \in NodeCalls
  BY DEF HoldingCalls, NodeCalls, ControlInv, Placed
<1>2. /\ node[target[w]] = "RUNNING" /\ (Cancelled \/ (Alone(target[w]) /\ session = "RUNNING"))
      /\ Holding(w)
  BY <1>1 DEF SoloInv, SoloAt, SessionAt, NodeAt, HoldingCalls
<1>3. attempt[target[w]][exec[w]] = "RUNNING" /\ count[target[w]] \in AttemptNos
  BY <1>1, <1>2 DEF Holding, LatestRuns, ControlInv, ServiceInv, ServiceTypeOK, AttemptNos
<1>4. QED
  BY <1>1, <1>2, <1>3 DEF Holding

LEMMA ReadKeepsHolding ==
  ASSUME ControlInv, NEW w \in Workers, Holding(w), target[w] \in Nodes, Read, pc'[w] # "grant",
         pc[w] # "grant", UNCHANGED <<target, exec, leased>>
  PROVE  Holding(w)'
<1>1. LatestRuns(target[w])' <=> LatestRuns(target[w])
  BY ReadKeepsState
<1>2. QED
  BY <1>1, ReadKeepsState DEF Holding

LEMMA SoloInvokes ==
  ASSUME ControlInv, NEW w \in Workers, SoloInv(w), Invoke(w)
  PROVE  SoloInv(w)'
<1>1. pc[w] = "invoke" /\ Read
  BY DEF Invoke, At
<1>2. pc'[w] = "report" /\ UNCHANGED <<target, exec, leased>>
  BY ApplyArrives DEF Invoke
<1>3. /\ target[w] \in Nodes /\ node[target[w]] = "RUNNING"
      /\ Cancelled \/ (Alone(target[w]) /\ session = "RUNNING")
  BY <1>1, SoloHolds DEF HoldingCalls
<1>4. Holding(w)'
  BY <1>1, <1>2, <1>3, ReadKeepsHolding DEF SoloInv, SoloAt, HoldingCalls
<1>5. SoloAt(w)'
  BY <1>1, <1>2, <1>3, <1>4, ReadKeepsState
     DEF SoloAt, SessionAt, NodeAt, NodeCalls, HoldingCalls, Unused
<1>6. QED
  BY <1>1, <1>2, <1>5, ReadKeeps DEF Pausing

LEMMA SoloReports ==
  ASSUME ControlInv, NEW w \in Workers, SoloInv(w),
         Report(w) \/ ReportStartNode(w) \/ ReportReread(w) \/ ReportStartAttempt(w)
  PROVE  SoloInv(w)'
<1>1. CASE Report(w)
  <2>1. pc[w] = "report" /\ Read
    BY <1>1 DEF Report, At
  <2>2. /\ target[w] \in Nodes /\ node[target[w]] = "RUNNING" /\ LatestRuns(target[w])
        /\ Cancelled \/ (Alone(target[w]) /\ session = "RUNNING")
    BY <2>1, SoloHolds DEF HoldingCalls
  <2>3. PICK c \in {"fail_get", "consume"} :
          pc'[w] = c /\ UNCHANGED <<target, exec, leased, intent>>
    BY <1>1, <2>2, GotoArrives DEF Report, AfterReport
  <2>4. Holding(w)'
    BY <2>1, <2>2, <2>3, ReadKeepsHolding DEF SoloInv, SoloAt, HoldingCalls
  <2>5. SoloAt(w)'
    BY <2>1, <2>2, <2>3, <2>4, ReadKeepsState
       DEF SoloAt, SessionAt, NodeAt, NodeCalls, HoldingCalls, Unused
  <2>6. QED
    BY <2>1, <2>3, <2>5, ReadKeeps DEF Pausing
<1>2. CASE ~Report(w)
  BY <1>2 DEF ReportStartNode, ReportReread, ReportStartAttempt, At, SoloInv, SoloAt, Unused
<1>3. QED
  BY <1>1, <1>2

LEMMA SoloConsumes ==
  ASSUME ControlInv, NEW w \in Workers, SoloInv(w), Consume(w)
  PROVE  SoloInv(w)'
<1>1. pc[w] = "consume"
  BY DEF Consume, At
<1>2. /\ target[w] \in Nodes /\ node[target[w]] = "RUNNING"
      /\ Cancelled \/ (Alone(target[w]) /\ session = "RUNNING")
      /\ attempt[target[w]][exec[w]] = "RUNNING"
  BY <1>1, SoloHolds DEF HoldingCalls
<1>3. UNCHANGED <<session, node, count, attempt, lease, gates, decision>>
  BY <1>2 DEF Consume, ConsumeAgentReport
<1>4. PICK c \in {"pause_gate", "fail_get", "apply_get"}, k \in IntentKind :
        /\ pc'[w] = c /\ intent'[w] = k /\ UNCHANGED <<target, exec, leased>>
        /\ c = "pause_gate" => CanRecordGate(target[w])
        /\ c = "apply_get" /\ k # "COMPLETE" => CanAppendAttempt(target[w])
  BY ApplyArrives DEF Consume, IntentKind
<1>5. /\ Holding(w)'
      /\ (Alone(target[w]) => Alone(target[w])') /\ (Cancelled <=> Cancelled')
  <2>1. Holding(w)
    BY <1>1 DEF SoloInv, SoloAt, HoldingCalls
  <2>2. LatestRuns(target[w])' <=> LatestRuns(target[w])
    BY <1>3, <1>4 DEF LatestRuns
  <2>3. QED
    BY <1>1, <1>3, <1>4, <2>1, <2>2 DEF Holding, Alone, Cancelled
<1>6. /\ CanRecordGate(target[w]) => CanRecordGate(target[w])'
      /\ CanAppendAttempt(target[w]) => CanAppendAttempt(target[w])'
  BY <1>3, <1>4 DEF CanRecordGate, CanAppendAttempt
<1>7. SoloAt(w)'
  BY <1>1, <1>2, <1>3, <1>4, <1>5, <1>6
     DEF SoloAt, SessionAt, NodeAt, NodeCalls, HoldingCalls, Unused
<1>8. GateHeld(w)'
  BY <1>1, <1>3, <1>4, <1>5, GatesStayHeld DEF SoloInv, Pausing
<1>9. Room' /\ Outcome'
  BY <1>3 DEF SoloInv, Room, Outcome, CanAppendAttempt
<1>10. QED
  BY <1>7, <1>8, <1>9 DEF SoloInv

LEMMA SoloRecordsGate ==
  ASSUME ControlInv, NEW w \in Workers, SoloInv(w), PauseRecordGate(w)
  PROVE  SoloInv(w)'
<1>1. pc[w] = "pause_gate"
  BY DEF PauseRecordGate, At
<1>2. PICK n \in Nodes : /\ n = target[w] /\ node[n] = "RUNNING" /\ LatestRuns(n)
                         /\ Cancelled \/ (Alone(n) /\ session = "RUNNING")
  BY <1>1, SoloHolds DEF HoldingCalls
<1>3. PICK c \in Pausing :
        /\ pc'[w] = c /\ UNCHANGED <<target, exec, leased, intent>>
        /\ c = "pause_release" <=> leased[w]
  BY GotoArrives DEF PauseRecordGate, Pausing
<1>4. /\ UNCHANGED <<session, node, count, attempt, lease>>
      /\ \A m \in Nodes \ {n} : gates'[m] = gates[m] /\ decision'[m] = decision[m]
  BY <1>2 DEF PauseRecordGate, RecordGate, ControlInv, ServiceInv, ServiceTypeOK
<1>5. /\ LatestRuns(n)' <=> LatestRuns(n)
      /\ (Alone(n) <=> Alone(n)') /\ (Cancelled <=> Cancelled')
  BY <1>4 DEF LatestRuns, Alone, Cancelled
<1>6. Holding(w)'
  BY <1>1, <1>2, <1>3, <1>4, <1>5
     DEF SoloInv, SoloAt, HoldingCalls, Holding, Pausing, Cancelled
<1>7. SoloAt(w)'
  BY <1>2, <1>3, <1>4, <1>5, <1>6
     DEF SoloAt, SessionAt, NodeAt, NodeCalls, HoldingCalls, Unused, Pausing
<1>8. GateHeld(w)'
  <2> SUFFICES ASSUME NEW m \in Nodes, OpenGate(m)'
               PROVE  \/ node'[m] = "PENDING_GATE"
                      \/ node'[m] = "RUNNING" /\ target'[w] = m /\ pc'[w] \in Pausing
                      \/ /\ node'[m] = "RUNNING" /\ Cancelled' /\ target'[w] # m
                         /\ count'[m] > 0 /\ lease'[m][count'[m]] = "none"
    BY DEF GateHeld
  <2>1. CASE m = n
    BY <1>2, <1>3, <1>4, <2>1
  <2>2. CASE m # n
    <3>1. OpenGate(m)
      BY <1>4, <2>2 DEF OpenGate
    <3>2. QED
      BY <1>2, <1>3, <1>4, <1>5, <2>2, <3>1 DEF SoloInv, GateHeld
  <2>3. QED
    BY <2>1, <2>2
<1>9. Room' /\ Outcome'
  BY <1>4 DEF SoloInv, Room, Outcome, CanAppendAttempt
<1>10. QED
  BY <1>7, <1>8, <1>9 DEF SoloInv

LEMMA SoloReleases ==
  ASSUME ControlInv, NEW w \in Workers, SoloInv(w), PauseReleaseLease(w)
  PROVE  SoloInv(w)'
<1>1. pc[w] = "pause_release"
  BY DEF PauseReleaseLease, At
<1>2. PICK n \in Nodes : /\ n = target[w] /\ node[n] = "RUNNING" /\ exec[w] = count[n]
                         /\ Cancelled \/ (Alone(n) /\ session = "RUNNING")
                         /\ count[n] \in AttemptNos
  BY <1>1, SoloHolds DEF HoldingCalls
<1>3. pc'[w] = "pause_node" /\ UNCHANGED <<target, exec, leased, intent>>
  BY GotoArrives DEF PauseReleaseLease
<1>4. /\ UNCHANGED <<session, node, count, attempt, gates, decision>>
      /\ lease'[n][count[n]] = "none"
      /\ \A m \in Nodes \ {n} : lease'[m] = lease[m]
  BY <1>2 DEF PauseReleaseLease, ReleaseLease, ControlInv, ServiceInv, ServiceTypeOK
<1>5. (Alone(n) <=> Alone(n)') /\ (Cancelled <=> Cancelled')
  BY <1>4 DEF Alone, Cancelled
<1>6. SoloAt(w)'
  BY <1>2, <1>3, <1>4, <1>5 DEF SoloAt, SessionAt, NodeAt, NodeCalls, HoldingCalls, Unused
<1>7. GateHeld(w)'
  BY <1>1, <1>2, <1>3, <1>4, <1>5, GatesStayHeld DEF SoloInv, Pausing
<1>8. Room' /\ Outcome'
  BY <1>4 DEF SoloInv, Room, Outcome, CanAppendAttempt
<1>9. QED
  BY <1>6, <1>7, <1>8 DEF SoloInv

LEMMA SoloPauses ==
  ASSUME ControlInv, NEW w \in Workers, SoloInv(w), PauseNode(w)
  PROVE  SoloInv(w)'
<1>1. PICK n \in Nodes : n = target[w]
  BY DEF PauseNode, At, NodeCalls, ControlInv, Placed
<1>2. /\ pc[w] = "pause_node" /\ node[n] = "RUNNING"
      /\ Cancelled \/ (Alone(n) /\ session = "RUNNING")
  BY <1>1 DEF PauseNode, At, SoloInv, SoloAt, SessionAt, NodeAt, NodeCalls
<1>3. pc'[w] = "pause_session" /\ UNCHANGED <<target, exec, leased, intent>>
  BY GotoArrives DEF PauseNode
<1>4. /\ UNCHANGED <<session, count, attempt, lease, gates, decision>> /\ node'[n] = "PENDING_GATE"
      /\ \A m \in Nodes \ {n} : node'[m] = node[m]
  BY <1>1 DEF PauseNode, MoveNode, ControlInv, ServiceInv, ServiceTypeOK
<1>5. (Alone(n) <=> Alone(n)') /\ (Cancelled <=> Cancelled')
  BY <1>4 DEF Alone, Cancelled
<1>6. SoloAt(w)'
  BY <1>1, <1>2, <1>3, <1>4, <1>5 DEF SoloAt, SessionAt, NodeAt, NodeCalls, HoldingCalls, Unused
<1>7. GateHeld(w)'
  BY <1>1, <1>3, <1>4, <1>5 DEF SoloInv, GateHeld, OpenGate
<1>8. Room' /\ Outcome'
  BY <1>2, <1>4, <1>5 DEF SoloInv, Room, Outcome, CanAppendAttempt, Cancelled
<1>9. QED
  BY <1>6, <1>7, <1>8 DEF SoloInv

LEMMA SoloWaits ==
  ASSUME ControlInv, NEW w \in Workers, SoloInv(w), PauseSession(w)
  PROVE  SoloInv(w)'
<1>1. PICK n \in Nodes : n = target[w]
  BY DEF PauseSession, At, NodeCalls, ControlInv, Placed
<1>2. pc[w] = "pause_session" /\ node[n] = "PENDING_GATE" /\ (Cancelled \/ Alone(n))
  BY <1>1 DEF PauseSession, At, SoloInv, SoloAt, NodeAt, NodeCalls
<1>3. pc'[w] = "idle" /\ target'[w] = NoNode /\ MarkSession("WAITING_GATE")
  BY LeaveArrives DEF PauseSession
<1>4. session' = "WAITING_GATE" /\ ~Cancelled /\ UNCHANGED node /\ (Alone(n) <=> Alone(n)')
  BY <1>3, MarkKeepsState
<1>5. Between'
  BY <1>2, <1>4 DEF Between
<1>6. Outcome'
  BY <1>4 DEF Outcome
<1>7. QED
  BY <1>2, <1>3, <1>5, <1>6, AtHome, MarkKeeps DEF Pausing

LEMMA SoloFails ==
  ASSUME ControlInv, NEW w \in Workers, SoloInv(w),
         FailGet(w) \/ ApplyFailNode(w) \/ ApplyFailSession(w)
  PROVE  SoloInv(w)'
<1>1. PICK n \in Nodes : n = target[w]
  BY DEF FailGet, ApplyFailNode, ApplyFailSession, At, NodeCalls, ControlInv, Placed
<1>2. /\ pc[w] \in {"fail_get", "fail_node", "fail_session"}
      /\ node[n] \in NodeAt(pc[w], intent[w])
      /\ Cancelled \/ (Alone(n) /\ session \in {"RUNNING", "WAITING_GATE"})
  BY <1>1 DEF FailGet, ApplyFailNode, ApplyFailSession, At, SoloInv, SoloAt, SessionAt, NodeCalls
<1>3. CASE FailGet(w)
  <2>1. pc[w] = "fail_get" /\ Read
    BY <1>3 DEF FailGet, At
  <2>2. PICK c \in {"fail_session", "fail_node"} :
          /\ pc'[w] = c /\ UNCHANGED <<target, exec, leased, intent>>
          /\ node[n] \in NodeAt(c, intent[w])
    BY <1>1, <1>2, <1>3, <2>1, GotoArrives DEF FailGet, NodeAt
  <2>3. SoloAt(w)'
    BY <1>1, <1>2, <2>1, <2>2, ReadKeepsState
       DEF SoloAt, SessionAt, NodeCalls, HoldingCalls, Unused
  <2>4. QED
    BY <2>1, <2>2, <2>3, ReadKeeps DEF Pausing
<1>4. CASE ApplyFailNode(w)
  <2>1. /\ pc[w] = "fail_node" /\ node[n] = "RUNNING" /\ FailNode(n)
        /\ pc'[w] = "fail_session" /\ UNCHANGED <<target, exec, leased, intent>>
    BY <1>1, <1>2, <1>4, GotoArrives DEF ApplyFailNode, At, NodeAt
  <2>2. /\ UNCHANGED <<session, count, gates, decision>> /\ node'[n] = "FAILED"
        /\ \A m \in Nodes \ {n} : node'[m] = node[m]
        /\ EndRunningAttempt(n, "FAILED") /\ ServiceTypeOK
    BY <2>1 DEF FailNode, ControlInv, ServiceInv, ServiceTypeOK
  <2>3. \A m \in Nodes : \A i \in AttemptNos :
          lease'[m][i] = lease[m][i] \/ (m = n /\ lease'[m][i] = "none")
    BY <2>2, EndRunning
  <2>4. count[n] > 0 => count[n] \in AttemptNos
    BY <2>2 DEF ServiceTypeOK, AttemptNos
  <2>5. count'[n] > 0 /\ lease'[n][count'[n]] = "expired" => CanAppendAttempt(n)'
    BY <2>2, <2>3, <2>4 DEF SoloInv, Room, CanAppendAttempt
  <2>6. (Alone(n) <=> Alone(n)') /\ (Cancelled <=> Cancelled')
    BY <2>2 DEF Alone, Cancelled
  <2>7. SoloAt(w)'
    BY <1>1, <1>2, <2>1, <2>2, <2>6
       DEF SoloAt, SessionAt, NodeAt, NodeCalls, HoldingCalls, Unused
  <2>8. \A m \in Nodes \ {n} : \A i \in AttemptNos : lease'[m][i] = lease[m][i]
    BY <2>3
  <2>9. QED
    BY <1>1, <2>1, <2>2, <2>5, <2>7, <2>8, NodeStepKeeps DEF NodeCalls, Pausing
<1>5. CASE ApplyFailSession(w)
  <2>1. /\ pc[w] = "fail_session" /\ node[n] = "FAILED" /\ MarkSession("FAILED")
        /\ pc'[w] = "note" /\ UNCHANGED <<target, exec, leased, intent>>
    BY <1>1, <1>2, <1>5, GotoArrives DEF ApplyFailSession, At, NodeAt
  <2>2. session' = "FAILED" /\ ~Cancelled /\ UNCHANGED node
    BY <2>1, MarkKeepsState
  <2>3. Outcome'
    BY <1>2, <2>1, <2>2 DEF Outcome, Alone
  <2>4. SoloAt(w)'
    BY <2>1, <2>2 DEF SoloAt, SessionAt, SessionStatus, NodeCalls, HoldingCalls, Unused
  <2>5. QED
    BY <2>1, <2>3, <2>4, MarkKeeps DEF Pausing
<1>6. QED
  BY <1>3, <1>4, <1>5

(* The calls of an intent that completes the node or sends it back.            *)
LEMMA SoloResumes ==
  ASSUME ControlInv, NEW w \in Workers, SoloInv(w), ApplyGet(w) \/ ApplyResuming(w)
  PROVE  SoloInv(w)'
<1>1. PICK n \in Nodes : n = target[w]
  BY DEF ApplyGet, ApplyResuming, At, NodeCalls, ControlInv, Placed
<1>2. /\ pc[w] \in {"apply_get", "apply_resuming"}
      /\ \A c \in {"apply_resuming", "apply_node"} : node[n] \in NodeAt(c, intent[w])
      /\ Cancelled \/ (Alone(n) /\ session \in {"RUNNING", "WAITING_GATE"})
      /\ intent[w] # "COMPLETE" => CanAppendAttempt(n)
  BY <1>1 DEF ApplyGet, ApplyResuming, At, SoloInv, SoloAt, SessionAt, NodeAt, NodeCalls
<1>3. CASE ApplyGet(w)
  <2>1. pc[w] = "apply_get" /\ Read
    BY <1>3 DEF ApplyGet, At
  <2>2. PICK c \in {"apply_resuming", "apply_node"} :
          /\ pc'[w] = c /\ UNCHANGED <<target, exec, leased, intent>>
          /\ c = "apply_resuming" <=> session = "WAITING_GATE"
    BY <1>3, GotoArrives DEF ApplyGet
  <2>3. Cancelled \/ session \in SessionAt(c)
    BY <1>2, <2>2 DEF SessionAt
  <2>4. SoloAt(w)'
    BY <1>1, <1>2, <2>1, <2>2, <2>3, ReadKeepsState DEF SoloAt, NodeCalls, HoldingCalls, Unused
  <2>5. QED
    BY <2>1, <2>2, <2>4, ReadKeeps DEF Pausing
<1>4. CASE ApplyResuming(w)
  <2>1. /\ pc[w] = "apply_resuming" /\ MarkSession("RESUMING")
        /\ pc'[w] = "apply_node" /\ UNCHANGED <<target, exec, leased, intent>>
    BY <1>4, GotoArrives DEF ApplyResuming, At
  <2>2. /\ session' = "RESUMING" /\ ~Cancelled /\ UNCHANGED node /\ (Alone(n) <=> Alone(n)')
        /\ CanAppendAttempt(n) <=> CanAppendAttempt(n)'
    BY <2>1, MarkKeepsState
  <2>3. SoloAt(w)'
    BY <1>1, <1>2, <2>1, <2>2 DEF SoloAt, SessionAt, NodeCalls, HoldingCalls, Unused
  <2>4. Outcome'
    BY <2>2 DEF Outcome
  <2>5. QED
    BY <2>1, <2>3, <2>4, MarkKeeps DEF Pausing
<1>5. QED
  BY <1>3, <1>4

LEMMA SoloAppliesNode ==
  ASSUME ControlInv, NEW w \in Workers, SoloInv(w), ApplyNode(w)
  PROVE  SoloInv(w)'
<1>1. PICK n \in Nodes : n = target[w]
  BY DEF ApplyNode, At, NodeCalls, ControlInv, Placed
<1>2. /\ pc[w] = "apply_node" /\ node[n] # "PENDING_GATE"
      /\ Cancelled \/ (Alone(n) /\ session \in {"RUNNING", "RESUMING"})
      /\ intent[w] # "COMPLETE" => CanAppendAttempt(n)
  BY <1>1 DEF ApplyNode, At, SoloInv, SoloAt, SessionAt, NodeAt, NodeCalls
<1>3. pc'[w] = "apply_reget" /\ UNCHANGED <<target, exec, leased, intent>>
  BY GotoArrives DEF ApplyNode
<1>4. /\ UNCHANGED <<session, count, gates, decision>>
      /\ node'[n] \in {"QUEUED", "COMPLETED"} /\ (node'[n] = "QUEUED" => CanAppendAttempt(n))
      /\ \A m \in Nodes \ {n} : node'[m] = node[m]
      /\ EndRunningAttempt(n, "SUCCEEDED") \/ EndRunningAttempt(n, "ABORTED")
      /\ ServiceTypeOK
  BY <1>1, <1>2 DEF ApplyNode, CompleteNode, RequeueNode, ControlInv, ServiceInv, ServiceTypeOK
<1>5. \A m \in Nodes : \A i \in AttemptNos :
        lease'[m][i] = lease[m][i] \/ (m = n /\ lease'[m][i] = "none")
  BY <1>4, EndRunning
<1>6. count[n] > 0 => count[n] \in AttemptNos
  BY <1>4 DEF ServiceTypeOK, AttemptNos
<1>7. /\ CanAppendAttempt(n) <=> CanAppendAttempt(n)'
      /\ count'[n] > 0 /\ lease'[n][count'[n]] = "expired" => CanAppendAttempt(n)'
  BY <1>4, <1>5, <1>6 DEF SoloInv, Room, CanAppendAttempt
<1>8. (Alone(n) <=> Alone(n)') /\ (Cancelled <=> Cancelled')
  BY <1>4 DEF Alone, Cancelled
<1>9. SoloAt(w)'
  BY <1>1, <1>2, <1>3, <1>4, <1>8
     DEF SoloAt, SessionAt, NodeAt, NodeCalls, HoldingCalls, Unused
<1>10. \A m \in Nodes \ {n} : \A i \in AttemptNos : lease'[m][i] = lease[m][i]
  BY <1>5
<1>11. QED
  BY <1>1, <1>2, <1>3, <1>4, <1>7, <1>9, <1>10, NodeStepKeeps DEF NodeCalls, Pausing

LEMMA SoloReturnsToTop ==
  ASSUME ControlInv, NEW w \in Workers, SoloInv(w), ApplyReget(w) \/ ApplyRunning(w)
  PROVE  SoloInv(w)'
<1>1. PICK n \in Nodes : n = target[w]
  BY DEF ApplyReget, ApplyRunning, At, NodeCalls, ControlInv, Placed
<1>2. /\ pc[w] \in {"apply_reget", "apply_running"} /\ node[n] \in {"QUEUED", "COMPLETED"}
      /\ Cancelled \/ (Alone(n) /\ session \in {"RUNNING", "RESUMING"})
  BY <1>1 DEF ApplyReget, ApplyRunning, At, SoloInv, SoloAt, SessionAt, NodeAt, NodeCalls
<1>3. Cancelled \/ AtRest
  BY <1>2 DEF Alone, AtRest
<1>4. CASE ApplyReget(w)
  <2>1. Read /\ pc[w] = "apply_reget"
    BY <1>4 DEF ApplyReget, At
  <2>2. PICK c \in {"apply_running", "top"} :
          /\ pc'[w] = c /\ UNCHANGED <<target, exec, leased, intent>>
          /\ c = "apply_running" <=> session = "RESUMING"
    BY <1>4, GotoArrives DEF ApplyReget
  <2>3. CASE c = "top"
    <3>1. Between
      BY <1>2, <1>3, <2>2, <2>3 DEF Between, Cancelled, TerminalSession
    <3>2. QED
      BY <2>1, <2>2, <2>3, <3>1, AtHome, ReadKeeps, ReadKeepsState DEF Pausing
  <2>4. CASE c = "apply_running"
    <3>1. SoloAt(w)'
      BY <1>1, <1>2, <2>1, <2>2, <2>4, ReadKeepsState
         DEF SoloAt, SessionAt, NodeAt, NodeCalls, HoldingCalls, Unused
    <3>2. QED
      BY <2>1, <2>2, <3>1, ReadKeeps DEF Pausing
  <2>5. QED
    BY <2>3, <2>4
<1>5. CASE ApplyRunning(w)
  <2>1. /\ pc[w] = "apply_running" /\ MarkSession("RUNNING") /\ pc'[w] = "top" /\ target' = target
    BY <1>5, GotoArrives DEF ApplyRunning, At
  <2>2. session' = "RUNNING" /\ ~Cancelled /\ (AtRest <=> AtRest')
    BY <2>1, MarkKeepsState
  <2>3. Between' /\ Outcome'
    BY <1>3, <2>2 DEF Between, Outcome
  <2>4. QED
    BY <2>1, <2>3, AtHome, MarkKeeps DEF Pausing
<1>6. QED
  BY <1>4, <1>5

(* A decision on the latest gate of the one node that is not at rest.          *)
LEMMA SoloDecides ==
  ASSUME ControlInv, ~StaleDecisions, NEW w \in Workers, SoloInv(w), Decide(w)
  PROVE  SoloInv(w)'
<1>1. pc[w] = "idle" /\ Between
  BY DEF Decide, At, SoloInv, SoloAt
<1>2. PICK n \in Nodes, g \in GateNos, a \in DecisionAction :
        /\ g = gates[n] /\ ApplyGateDecision(n, g, a)
        /\ a \in {"REVISE", "REPLAN"} => CanAppendAttempt(n)
        /\ target' = [target EXCEPT ![w] = n]
        /\ pc' = [pc EXCEPT ![w] = "decide_get"]
        /\ UNCHANGED <<exec, leased, intent>>
  BY DEF Decide
<1>3. pc'[w] = "decide_get" /\ target'[w] = n
  BY <1>2 DEF ControlInv, WorkerTypes
<1>4. /\ node[n] \in {"RUNNING", "PENDING_GATE", "NEEDS_REVISION"}
      /\ DecisionTarget(a) \in {"APPROVED", "NEEDS_REVISION", "FAILED"}
      /\ DecisionTarget(a) = "NEEDS_REVISION" => CanAppendAttempt(n)
  BY <1>2 DEF ApplyGateDecision, CanMoveNode, NodeTransitions, DecisionTarget, DecisionAction
<1>5. Cancelled \/ (Alone(n) /\ session \in {"RUNNING", "WAITING_GATE"})
  <2>1. session \notin {"COMPLETED", "FAILED"}
    BY <1>4 DEF SoloInv, Outcome
  <2>2. ~AtRest /\ \A m \in Nodes : Alone(m) => m = n
    BY <1>4 DEF AtRest, Alone
  <2>3. QED
    BY <1>1, <2>1, <2>2 DEF Between, TerminalSession, Cancelled
<1>6. /\ UNCHANGED <<session, count, attempt, lease, gates>> /\ node'[n] = DecisionTarget(a)
      /\ \A m \in Nodes \ {n} : node'[m] = node[m] /\ decision'[m] = decision[m]
      /\ decision'[n][g] = a
  BY <1>2 DEF ApplyGateDecision, ControlInv, ServiceInv, ServiceTypeOK
<1>7. (Alone(n) <=> Alone(n)') /\ (Cancelled <=> Cancelled')
  BY <1>6 DEF Alone, Cancelled
<1>8. SoloAt(w)'
  BY <1>3, <1>4, <1>5, <1>6, <1>7
     DEF SoloAt, SessionAt, NodeAt, NodeCalls, HoldingCalls, Unused
<1>9. GateHeld(w)'
  <2> SUFFICES ASSUME NEW m \in Nodes, OpenGate(m)'
               PROVE  \/ node'[m] = "PENDING_GATE"
                      \/ node'[m] = "RUNNING" /\ target'[w] = m /\ pc'[w] \in Pausing
                      \/ /\ node'[m] = "RUNNING" /\ Cancelled' /\ target'[w] # m
                         /\ count'[m] > 0 /\ lease'[m][count'[m]] = "none"
    BY DEF GateHeld
  <2>1. m # n
    BY <1>2, <1>6 DEF OpenGate, DecisionAction
  <2>2. OpenGate(m)
    BY <1>6, <2>1 DEF OpenGate
  <2>3. QED
    BY <1>1, <1>3, <1>6, <1>7, <2>1, <2>2 DEF SoloInv, GateHeld, Pausing
<1>10. Room'
  BY <1>4, <1>6 DEF SoloInv, Room, CanAppendAttempt
<1>11. Outcome'
  BY <1>5, <1>6 DEF Outcome, Cancelled
<1>12. QED
  BY <1>8, <1>9, <1>10, <1>11 DEF SoloInv

LEMMA SoloReadsDecision ==
  ASSUME ControlInv, NEW w \in Workers, SoloInv(w), DecideGet(w)
  PROVE  SoloInv(w)'
<1>1. PICK n \in Nodes : n = target[w]
  BY DEF DecideGet, At, NodeCalls, ControlInv, Placed
<1>2. /\ pc[w] = "decide_get" /\ Read
      /\ Cancelled \/ (Alone(n) /\ session \in {"RUNNING", "WAITING_GATE"})
  BY <1>1 DEF DecideGet, At, SoloInv, SoloAt, SessionAt, NodeCalls
<1>3. PICK c \in {"apply_get", "fail_get"}, k \in {"REQUEUE", "COMPLETE", "FAIL"} :
        /\ pc'[w] = c /\ intent'[w] = k /\ UNCHANGED <<target, exec, leased>>
        /\ node[n] = IF c = "fail_get" THEN "FAILED"
                     ELSE IF k = "COMPLETE" THEN "APPROVED" ELSE "NEEDS_REVISION"
  BY <1>1, ApplyArrives DEF DecideGet
<1>4. node[n] = "NEEDS_REVISION" => CanAppendAttempt(n)
  BY DEF SoloInv, Room
<1>5. SoloAt(w)'
  BY <1>1, <1>2, <1>3, <1>4, ReadKeepsState
     DEF SoloAt, SessionAt, NodeAt, NodeCalls, HoldingCalls, Unused
<1>6. QED
  BY <1>2, <1>3, <1>5, ReadKeeps DEF Pausing

(* A call of the single writer raises only in a session that was cancelled, or *)
(* when its report is turned away: the lease of its execution has expired.     *)
LEMMA RaisesBetween ==
  ASSUME ControlInv, NEW w \in Workers, SoloInv(w), CallRaises(w)
  PROVE  Between /\ pc[w] # "pause_node"
<1> DEFINE n == target[w]
<1>1. /\ pc[w] \notin Unused
      /\ Cancelled \/ session \in SessionAt(pc[w])
      /\ pc[w] \in NodeCalls =>
           n \in Nodes /\ node[n] \in NodeAt(pc[w], intent[w]) /\ (Cancelled \/ Alone(n))
      /\ pc[w] = "complete" => Cancelled \/ AtRest
      /\ pc[w] \in HoldingCalls => Holding(w) /\ attempt[n][exec[w]] = "RUNNING"
      /\ pc[w] = "pause_release" => leased[w]
  <2>1. Placed(w)
    BY DEF ControlInv
  <2>2. ASSUME pc[w] \in HoldingCalls PROVE Holding(w) /\ attempt[n][exec[w]] = "RUNNING"
    BY <2>2 DEF SoloInv, SoloAt, Holding, LatestRuns
  <2>3. QED
    BY <2>1, <2>2 DEF SoloInv, SoloAt, Placed
<1>2. Cancelled => Between
  BY DEF Between, Cancelled, TerminalSession
<1>3. CASE pc[w] = "complete"
  BY <1>1, <1>2, <1>3 DEF Between, SessionAt
<1>4. CASE pc[w] = "report"
  <2>1. Cancelled \/ (session = "RUNNING" /\ node[n] = "RUNNING" /\ Alone(n) /\ n \in Nodes)
    BY <1>1, <1>4 DEF SessionAt, NodeAt, NodeCalls
  <2>2. ~Cancelled => ~LeaseAccepts(w)
    BY <1>4, <2>1 DEF CallRaises, At, Accepting
  <2>3. lease[n][count[n]] \in LeaseState
    BY <1>1, <1>4, <2>1 DEF HoldingCalls, Holding, LatestRuns, ControlInv, ServiceInv, ServiceTypeOK, NodeCalls, AttemptNos
  <2>4. ~Cancelled => Recoverable(n)
    BY <1>1, <1>4, <2>1, <2>2, <2>3
       DEF HoldingCalls, Holding, LeaseAccepts, Recoverable, LeaseState
  <2>5. QED
    BY <1>2, <1>4, <2>1, <2>4 DEF Between
<1>5. CASE pc[w] \notin {"complete", "report"}
  <2>1. ~(pc[w] \in {"start_node", "grant", "pause_node", "fail_node", "apply_node", "decide_get"})
    BY <1>1, <1>5 DEF CallRaises, At, NodeCalls, NodeAt, HoldingCalls, Holding, CanMoveNode,
                      NodeTransitions, CanGrantLease, CanRequeueNode, Unused
  <2>2. Cancelled
    BY <1>1, <1>5, <2>1 DEF CallRaises, At, SessionAt, CanMarkSession, SessionTransitions,
                           Accepting, Unused, HoldingCalls, Holding, CanReleaseLease
  <2>3. QED
    BY <1>2, <2>1, <2>2
<1>6. QED
  BY <1>3, <1>4, <1>5

LEMMA SoloRaises ==
  ASSUME ControlInv, NEW w \in Workers, SoloInv(w), Raise(w)
  PROVE  SoloInv(w)'
<1>1. /\ CallRaises(w) /\ Read /\ pc'[w] = "idle" /\ target'[w] = NoNode
      /\ Between /\ Between' /\ pc[w] # "pause_node"
  BY RaisesBetween, ReadKeepsState, LeaveArrives DEF Raise
<1>2. SoloAt(w)'
  BY <1>1, AtHome
<1>3. CASE pc[w] = "pause_release"
  <2>1. /\ target[w] \in Nodes /\ LatestRuns(target[w]) /\ exec[w] = count[target[w]]
        /\ ~Cancelled => (leased[w] <=> lease[target[w]][count[target[w]]] # "none")
        /\ attempt[target[w]][exec[w]] = "RUNNING"
    BY <1>3, SoloHolds DEF HoldingCalls
  <2>2. ~CanReleaseLease(target[w], exec[w]) /\ leased[w]
    BY <1>1, <1>3 DEF CallRaises, At, SoloInv, SoloAt
  <2>3. Cancelled /\ count[target[w]] > 0 /\ lease[target[w]][count[target[w]]] = "none"
    BY <2>1, <2>2 DEF CanReleaseLease, LatestRuns
  <2>4. GateHeld(w)'
    <3> SUFFICES ASSUME NEW m \in Nodes, OpenGate(m)'
                 PROVE  \/ node'[m] = "PENDING_GATE"
                        \/ node'[m] = "RUNNING" /\ target'[w] = m /\ pc'[w] \in Pausing
                        \/ /\ node'[m] = "RUNNING" /\ Cancelled' /\ target'[w] # m
                           /\ count'[m] > 0 /\ lease'[m][count'[m]] = "none"
      BY DEF GateHeld
    <3>1. /\ UNCHANGED <<node, count, lease, gates, decision>> /\ (Cancelled' <=> Cancelled)
          /\ m # NoNode
      BY <1>1, ReadKeepsState
    <3>2. OpenGate(m)
      BY <3>1 DEF OpenGate
    <3>3. QED
      BY <1>1, <2>3, <3>1, <3>2 DEF SoloInv, GateHeld
  <2>5. QED
    BY <1>1, <1>2, <2>4, ReadKeepsState DEF SoloInv
<1>4. CASE pc[w] # "pause_release"
  BY <1>1, <1>2, <1>4, ReadKeeps DEF Pausing
<1>5. QED
  BY <1>3, <1>4

(* No call is cut short: a single writer never comes to a bound.               *)
LEMMA SoloGoesOn ==
  ASSUME ControlInv, MaxFaults = 0, NEW w \in Workers, SoloInv(w)
  PROVE  ~Abandon(w)
<1>1. ~(faults < MaxFaults)
  BY DEF ControlInv, WorkerTypes
<1>2. ~AtBound(w)
  <2>1. pc[w] = "consume" => attempt[target[w]][exec[w]] = "RUNNING"
    BY SoloHolds DEF HoldingCalls
  <2>2. QED
    BY <2>1 DEF AtBound, At, SoloInv, SoloAt, Unused
<1>3. QED
  BY <1>1, <1>2 DEF Abandon

LEMMA SoloIsCancelled ==
  ASSUME ControlInv, NEW w \in Workers, SoloInv(w), Cancel
  PROVE  SoloInv(w)'
<1>1. MarkSession("CANCELLED") /\ UNCHANGED workerVars
  BY DEF Cancel
<1>2. /\ UNCHANGED <<node, count, attempt, gates, decision>> /\ session' = "CANCELLED"
      /\ Ready' = Ready /\ ~Cancelled
      /\ \A n \in Nodes : LatestRuns(n)' <=> LatestRuns(n)
      /\ \A n \in Nodes : /\ CanAppendAttempt(n)' <=> CanAppendAttempt(n)
                          /\ CanRecordGate(n)' <=> CanRecordGate(n)
  BY <1>1, MarkKeepsState
<1>3. Cancelled' /\ Between' /\ Outcome'
  BY <1>2 DEF Cancelled, Between, TerminalSession, Outcome
<1>4. UNCHANGED <<pc, target, exec, leased, intent>>
  BY <1>1 DEF workerVars
<1>5. pc[w] \in HoldingCalls => Holding(w)'
  <2> SUFFICES ASSUME pc[w] \in HoldingCalls PROVE Holding(w)'
    OBVIOUS
  <2>1. Holding(w) /\ target[w] \in Nodes
    BY DEF SoloInv, SoloAt, HoldingCalls, NodeCalls, ControlInv, Placed
  <2>2. LatestRuns(target[w])
    BY <2>1 DEF Holding
  <2>3. count[target[w]] \in AttemptNos
    BY <2>1, <2>2 DEF LatestRuns, ControlInv, ServiceInv, ServiceTypeOK, AttemptNos
  <2>4. lease'[target[w]][count[target[w]]] = "none"
    BY <1>1, <2>1, <2>3 DEF MarkSession, NoLease, TerminalSession
  <2>5. LatestRuns(target[w])'
    BY <1>2, <1>4, <2>1, <2>2
  <2>6. QED
    BY <1>2, <1>3, <1>4, <2>1, <2>4, <2>5 DEF Holding
<1>6. SoloAt(w)'
  <2>1. pc[w] \in NodeCalls => target[w] \in Nodes
    BY DEF ControlInv, Placed
  <2>2. "pause_gate" \in NodeCalls /\ "start_exec" \in NodeCalls
        /\ {"apply_get", "apply_resuming", "apply_node"} \subseteq NodeCalls
    BY DEF NodeCalls
  <2>3. /\ pc[w] = "pause_gate" => CanRecordGate(target[w])'
        /\ pc[w] = "start_exec" => CanAppendAttempt(target[w])'
        /\ pc[w] \in {"apply_get", "apply_resuming", "apply_node"} /\ intent[w] # "COMPLETE" =>
             CanAppendAttempt(target[w])'
    BY <1>2, <1>4, <2>1, <2>2 DEF SoloInv, SoloAt
  <2>4. QED
    BY <1>2, <1>3, <1>4, <1>5, <2>3 DEF SoloInv, SoloAt
<1>7. QED
  BY <1>1, <1>3, <1>4, <1>6, MarkKeeps

LEMMA SoloExpires ==
  ASSUME ControlInv, NEW w \in Workers, SoloInv(w), Expire
  PROVE  SoloInv(w)'
<1>1. PICK n \in Nodes, i \in AttemptNos : ExpireLease(n, i)
  BY DEF Expire
<1>2. /\ UNCHANGED <<session, node, count, attempt, gates, decision>>
      /\ UNCHANGED <<pc, target, exec, leased, intent>>
  BY <1>1 DEF Expire, ExpireLease, workerVars
<1>3. /\ lease[n][i] = "live" /\ CanAppendAttempt(n) /\ lease'[n][i] = "expired"
      /\ \A m \in Nodes : \A j \in AttemptNos : m # n \/ j # i => lease'[m][j] = lease[m][j]
  BY <1>1 DEF ExpireLease, CanAppendAttempt, ControlInv, ServiceInv, ServiceTypeOK
<1>4. \A m \in Nodes : count[m] > 0 => count[m] \in AttemptNos
  BY DEF ControlInv, ServiceInv, ServiceTypeOK, AttemptNos
<1>5. \A m \in Nodes : count[m] > 0 =>
        /\ lease'[m][count[m]] = "none" <=> lease[m][count[m]] = "none"
        /\ lease[m][count[m]] = "expired" => lease'[m][count[m]] = "expired"
        /\ lease'[m][count[m]] = "expired" => lease[m][count[m]] = "expired" \/ CanAppendAttempt(m)
  BY <1>3, <1>4
<1>6. /\ (Cancelled' <=> Cancelled) /\ (AtRest' <=> AtRest) /\ Ready' = Ready
      /\ \A m \in Nodes : (Alone(m)' <=> Alone(m)) /\ (LatestRuns(m)' <=> LatestRuns(m))
      /\ \A m \in Nodes : /\ CanAppendAttempt(m)' <=> CanAppendAttempt(m)
                          /\ CanRecordGate(m)' <=> CanRecordGate(m)
  BY <1>2 DEF Cancelled, AtRest, Ready, Alone, LatestRuns, CanAppendAttempt, CanRecordGate
<1>7. Between => Between'
  <2>1. \A m \in Nodes : Recoverable(m) => Recoverable(m)'
    BY <1>2, <1>5, <1>6 DEF Recoverable, LatestRuns
  <2>2. QED
    BY <1>2, <1>6, <2>1 DEF Between
<1>8. pc[w] \in NodeCalls => target[w] \in Nodes
  BY DEF ControlInv, Placed
<1>9. pc[w] \in HoldingCalls => Holding(w)'
  <2> SUFFICES ASSUME pc[w] \in HoldingCalls PROVE Holding(w)'
    OBVIOUS
  <2>1. Holding(w) /\ target[w] \in Nodes
    BY <1>8 DEF SoloInv, SoloAt, HoldingCalls, NodeCalls
  <2>2. LatestRuns(target[w]) /\ count[target[w]] > 0
    BY <2>1 DEF Holding, LatestRuns
  <2>3. LatestRuns(target[w])'
    BY <1>2, <1>6, <2>1, <2>2
  <2>4. lease'[target[w]][count[target[w]]] = "none" <=> lease[target[w]][count[target[w]]] = "none"
    BY <1>5, <2>1, <2>2
  <2>5. QED
    BY <1>2, <1>6, <2>1, <2>3, <2>4 DEF Holding
<1>10. SoloAt(w)'
  <2>1. "pause_gate" \in NodeCalls /\ "start_exec" \in NodeCalls
        /\ {"apply_get", "apply_resuming", "apply_node"} \subseteq NodeCalls
    BY DEF NodeCalls
  <2>2. /\ pc[w] = "pause_gate" => CanRecordGate(target[w])'
        /\ pc[w] = "start_exec" => CanAppendAttempt(target[w])'
        /\ pc[w] \in {"apply_get", "apply_resuming", "apply_node"} /\ intent[w] # "COMPLETE" =>
             CanAppendAttempt(target[w])'
    BY <1>2, <1>6, <1>8, <2>1 DEF SoloInv, SoloAt
  <2>3. pc[w] \in NodeCalls =>
          node[target[w]] \in NodeAt(pc[w], intent[w]) /\ (Cancelled' \/ Alone(target[w])')
    BY <1>2, <1>6, <1>8 DEF SoloInv, SoloAt
  <2>4. QED
    BY <1>2, <1>6, <1>7, <1>9, <2>2, <2>3 DEF SoloInv, SoloAt
<1>11. GateHeld(w)'
  BY <1>2, <1>5, <1>6, GatesStayHeld DEF SoloInv
<1>12. Room' /\ Outcome'
  BY <1>2, <1>5, <1>6 DEF SoloInv, Room, Outcome
<1>13. QED
  BY <1>10, <1>11, <1>12 DEF SoloInv

LEMMA SoloInit ==
  ASSUME NEW w, SingleWriter(w), Init
  PROVE  SoloInv(w)
<1>1. w \in Workers /\ pc[w] = "idle"
  BY DEF SingleWriter, Init
<1>2. /\ session = "QUEUED" /\ \A n \in Nodes : node[n] = "QUEUED" /\ count[n] = 0 /\ gates[n] = 0
  BY DEF Init, ServiceInit
<1>3. Between /\ Outcome
  BY <1>2 DEF Between, AtRest, Outcome
<1>4. SoloAt(w)
  BY <1>1, <1>2, <1>3 DEF SoloAt, SessionAt, SessionStatus, NodeCalls, HoldingCalls, Unused
<1>5. Room /\ GateHeld(w)
  BY <1>2, BoundsAssumption DEF Room, CanAppendAttempt, GateHeld, OpenGate
<1>6. QED
  BY <1>3, <1>4, <1>5 DEF SoloInv

(* Who steps is the one worker, an operator that cancels, or the clock.        *)
LEMMA SoloNext ==
  ASSUME NEW w, SingleWriter(w), ControlInv, SoloInv(w), [Next]_vars
  PROVE  SoloInv(w)'
<1>1. w \in Workers /\ MaxFaults = 0 /\ ~StaleDecisions /\ ControlInv'
  BY NextIsPlaneStep, ControlStepInv DEF SingleWriter
<1>2. CASE RunStep(w)
  BY <1>1, <1>2, SoloTops, SoloRecovers, SoloRereads, SoloCompletes, SoloOpens, SoloStartsNode,
     SoloStartsExecution, SoloGrants, SoloInvokes DEF RunStep
<1>3. CASE ReportStep(w)
  BY <1>1, <1>3, SoloReports, SoloConsumes DEF ReportStep
<1>4. CASE ApplyStep(w)
  BY <1>1, <1>4, SoloRecordsGate, SoloReleases, SoloPauses, SoloWaits, SoloFails, SoloResumes,
     SoloAppliesNode, SoloReturnsToTop, SoloReadsDecision DEF ApplyStep
<1>5. CASE Deliver(w) \/ Raise(w) \/ Decide(w)
  BY <1>1, <1>5, SoloDelivers, SoloRaises, SoloDecides
<1>6. CASE Cancel \/ Expire
  BY <1>1, <1>6, SoloIsCancelled, SoloExpires
<1>7. CASE UNCHANGED vars
  <2>1. /\ Read /\ UNCHANGED <<pc, target, exec, leased, intent>>
    BY <1>7 DEF vars, workerVars, Read
  <2>2. UNCHANGED <<session, node, count, attempt, lease, gates, decision>>
    BY <2>1, ReadKeepsState
  <2>3. SoloAt(w)' <=> SoloAt(w)
    BY <2>1, <2>2 DEF SoloAt, Cancelled, Alone, Between, AtRest, Recoverable, LatestRuns, Ready,
                      Holding, CanRecordGate, CanAppendAttempt
  <2>4. QED
    BY <1>1, <2>1, <2>3, ReadKeeps DEF SoloInv
<1>8. ~Abandon(w)
  BY <1>1, SoloGoesOn
<1>9. QED
  BY <1>2, <1>3, <1>4, <1>5, <1>6, <1>7, <1>8 DEF Next, WorkerStep, SingleWriter

LEMMA SoloInvariant ==
  ASSUME NEW w, SingleWriter(w)
  PROVE  Spec => [](ControlInv /\ SoloInv(w))
<1>1. Init => ControlInv /\ SoloInv(w)
  BY ControlInitInv, SoloInit
<1>2. ControlInv /\ SoloInv(w) /\ [Next]_vars => (ControlInv /\ SoloInv(w))'
  BY SoloNext, NextIsPlaneStep, ControlStepInv
<1>3. QED
  BY <1>1, <1>2, PTL DEF Spec

(* A session that one uninterrupted worker at a time drives is completed only  *)
(* when every node of the blueprint is COMPLETED, whatever expires under it.   *)
THEOREM CompletionMeansDone ==
  ASSUME NEW w, SingleWriter(w)
  PROVE  Spec => []CompletedMeansDone
<1>1. SoloInv(w) => CompletedMeansDone
  BY DEF SoloInv, Outcome, CompletedMeansDone
<1>2. QED
  BY <1>1, SoloInvariant, PTL

(* Under a single writer no pause is passed by: what was gated completes only  *)
(* once its latest gate is decided.                                           *)
THEOREM GatesHold ==
  ASSUME NEW w, SingleWriter(w)
  PROVE  Spec => []GateHolds
<1>1. SoloInv(w) => GateHolds
  BY DEF SoloInv, GateHeld, OpenGate, GateHolds
<1>2. QED
  BY <1>1, SoloInvariant, PTL

(* A session a single writer leaves waiting has a gate that a decision moves.  *)
THEOREM WaitingSessionsAreDecidable ==
  ASSUME NEW w, SingleWriter(w)
  PROVE  Spec => []WaitingIsDecidable
<1>1. SoloInv(w) => WaitingIsDecidable
  BY DEF SingleWriter, SoloInv, SoloAt, At, Between, TerminalSession, WaitingIsDecidable
<1>2. QED
  BY <1>1, SoloInvariant, PTL

------------------------------------------------------------------------------
(* The run of a single writer implements WorkflowRun *)

(* Only the node whose execution the worker is about to start has none yet.    *)
Executed(w) ==
  \A n \in Nodes : node[n] # "QUEUED" /\ count[n] = 0 => pc[w] = "start_exec" /\ target[w] = n

Lingers(w) == pc[w] = "start_exec" => pc'[w] = "start_exec" /\ target'[w] = target[w]

(* A step changes no node, and at most the status of the session; or one node   *)
(* that is under way; or it starts a node or its execution, or recovers.       *)
EndsRightly(s) ==
  /\ MarkSession(s)
  /\ s = "COMPLETED" => AtRest /\ Ready = {}
  /\ s = "FAILED" => \E n \in Nodes : node[n] = "FAILED"

OffTheNodes(w) ==
  /\ Lingers(w) /\ UNCHANGED <<node, count>>
  /\ session' = session \/ \E s \in SessionStatus : EndsRightly(s)

OnANode(w) ==
  /\ pc[w] # "start_exec" /\ UNCHANGED <<session, count>>
  /\ session \notin {"COMPLETED", "FAILED"}
  /\ \E n \in Nodes : /\ node[n] \notin {"QUEUED", "COMPLETED", "FAILED"}
                      /\ \A m \in Nodes \ {n} : node'[m] = node[m]

StartsANode(w) ==
  /\ pc[w] = "start_node" /\ pc'[w] = "start_exec" /\ target'[w] = target[w]
  /\ UNCHANGED <<session, count>>
  /\ session \notin {"COMPLETED", "FAILED"}
  /\ node[target[w]] = "QUEUED" /\ node'[target[w]] = "RUNNING"
  /\ \A m \in Nodes \ {target[w]} : node'[m] = node[m]

StartsAnExecution(w) ==
  /\ pc[w] = "start_exec" /\ UNCHANGED <<session, node>>
  /\ node[target[w]] = "RUNNING" /\ count'[target[w]] > 0
  /\ \A m \in Nodes \ {target[w]} : count'[m] = count[m]

Recovers(w) ==
  /\ pc[w] = "recover" /\ UNCHANGED <<session, count>>
  /\ \A n \in Nodes : node'[n] = node[n] \/ (node[n] = "RUNNING" /\ node'[n] = "QUEUED" /\ count[n] > 0)

SoloStep(w) ==
  \/ OffTheNodes(w) \/ OnANode(w) \/ StartsANode(w) \/ StartsAnExecution(w) \/ Recovers(w)

LEMMA ReadIsOff ==
  ASSUME NEW w, Read, Lingers(w)
  PROVE  OffTheNodes(w)
  BY ReadKeepsState DEF OffTheNodes

LEMMA MarkIsOff ==
  ASSUME NEW w, NEW s \in SessionStatus, EndsRightly(s), Lingers(w)
  PROVE  OffTheNodes(w)
  BY DEF OffTheNodes, EndsRightly, MarkSession

LEMMA SoloRunCases ==
  ASSUME ControlInv, NEW w \in Workers, SoloInv(w), RunStep(w)
  PROVE  SoloStep(w)
<1>1. CASE OpenStartNode(w)
  <2>1. /\ pc[w] = "start_node" /\ pc'[w] = "start_exec" /\ target' = target
        /\ target[w] \in Nodes
    BY <1>1, GotoArrives DEF OpenStartNode, At, ControlInv, Placed, NodeCalls
  <2>2. /\ session \notin {"COMPLETED", "FAILED"} /\ node[target[w]] = "QUEUED"
    BY <2>1 DEF SoloInv, SoloAt, SessionAt, NodeAt, NodeCalls, Cancelled
  <2>3. /\ UNCHANGED <<session, count>> /\ node'[target[w]] = "RUNNING"
        /\ \A m \in Nodes \ {target[w]} : node'[m] = node[m]
    BY <1>1, <2>1 DEF OpenStartNode, MoveNode, ControlInv, ServiceInv, ServiceTypeOK
  <2>4. QED
    BY <2>1, <2>2, <2>3 DEF StartsANode, SoloStep
<1>2. CASE StartNodeExecution(w)
  <2>1. pc[w] = "start_exec" /\ target[w] \in Nodes
    BY <1>2 DEF StartNodeExecution, At, ControlInv, Placed, NodeCalls
  <2>2. node[target[w]] = "RUNNING"
    BY <2>1 DEF SoloInv, SoloAt, NodeAt, NodeCalls
  <2>3. /\ UNCHANGED <<session, node>> /\ count'[target[w]] > 0
        /\ \A m \in Nodes \ {target[w]} : count'[m] = count[m]
    BY <1>2, <2>1 DEF StartNodeExecution, StartAttempt, AppendAttempt, ControlInv, ServiceInv,
                      ServiceTypeOK
  <2>4. QED
    BY <2>1, <2>2, <2>3 DEF StartsAnExecution, SoloStep
<1>3. CASE Recover(w)
  <2>1. pc[w] = "recover"
    BY <1>3 DEF Recover, At
  <2>2. CASE RecoverExpired
    BY <2>1, <2>2 DEF RecoverExpired, Recoverable, LatestRuns, Recovers, SoloStep
  <2>3. CASE Read
    BY <2>1, <2>3, ReadIsOff DEF Lingers, SoloStep
  <2>4. QED
    BY <1>3, <2>2, <2>3 DEF Recover
<1>4. CASE Top(w) \/ Reread(w) \/ CompleteGet(w) \/ Open(w) \/ OpenReread(w) \/ Invoke(w)
  <2>1. Read /\ pc[w] # "start_exec"
    BY <1>4 DEF Top, Reread, CompleteGet, Open, OpenReread, Invoke, At
  <2>2. QED
    BY <2>1, ReadIsOff DEF Lingers, SoloStep
<1>5. CASE Note(w) \/ Grant(w)
  BY <1>5 DEF Note, NoteOutcome, Grant, GrantLease, At, Lingers, OffTheNodes, SoloStep
<1>6. CASE OpenRunning(w) \/ CompleteRunning(w)
  <2>1. MarkSession("RUNNING") /\ pc[w] # "start_exec"
    BY <1>6 DEF OpenRunning, CompleteRunning, At
  <2>2. EndsRightly("RUNNING") /\ "RUNNING" \in SessionStatus
    BY <2>1 DEF EndsRightly, SessionStatus
  <2>3. QED
    BY <2>1, <2>2, MarkIsOff DEF Lingers, SoloStep
<1>7. CASE Complete(w)
  <2>1. MarkSession("COMPLETED") /\ pc[w] = "complete"
    BY <1>7 DEF Complete, At
  <2>2. ~Cancelled
    BY <2>1, MarkKeepsState
  <2>3. EndsRightly("COMPLETED") /\ "COMPLETED" \in SessionStatus
    BY <2>1, <2>2 DEF EndsRightly, SessionStatus, SoloInv, SoloAt
  <2>4. QED
    BY <2>1, <2>3, MarkIsOff DEF Lingers, SoloStep
<1>8. QED
  BY <1>1, <1>2, <1>3, <1>4, <1>5, <1>6, <1>7 DEF RunStep

LEMMA SoloReportCases ==
  ASSUME ControlInv, NEW w \in Workers, SoloInv(w), ReportStep(w)
  PROVE  SoloStep(w)
<1>1. pc[w] \notin Unused
  BY DEF SoloInv, SoloAt
<1>2. CASE Report(w)
  BY <1>2, ReadIsOff DEF Report, At, Lingers, SoloStep
<1>3. CASE Consume(w)
  <2>1. pc[w] = "consume" /\ attempt[target[w]][exec[w]] = "RUNNING"
    BY <1>3, SoloHolds DEF Consume, At, HoldingCalls
  <2>2. UNCHANGED <<session, node, count>>
    BY <1>3, <2>1 DEF Consume, ConsumeAgentReport
  <2>3. QED
    BY <2>1, <2>2 DEF Lingers, OffTheNodes, SoloStep
<1>4. QED
  BY <1>1, <1>2, <1>3 DEF ReportStep, ReportStartNode, ReportReread, ReportStartAttempt, At, Unused

LEMMA SoloApplyCases ==
  ASSUME ControlInv, NEW w \in Workers, SoloInv(w), ApplyStep(w)
  PROVE  SoloStep(w)
<1>1. CASE FailGet(w) \/ ApplyGet(w) \/ ApplyReget(w) \/ DecideGet(w)
  <2>1. Read /\ pc[w] # "start_exec"
    BY <1>1 DEF FailGet, ApplyGet, ApplyReget, DecideGet, At
  <2>2. QED
    BY <2>1, ReadIsOff DEF Lingers, SoloStep
<1>2. CASE PauseRecordGate(w) \/ PauseReleaseLease(w)
  BY <1>2 DEF PauseRecordGate, RecordGate, PauseReleaseLease, ReleaseLease, At, Lingers,
              OffTheNodes, SoloStep
<1>3. CASE PauseSession(w) \/ ApplyResuming(w) \/ ApplyRunning(w)
  <2>1. PICK s \in SessionStatus \ {"COMPLETED", "FAILED"} : MarkSession(s) /\ pc[w] # "start_exec"
    BY <1>3 DEF PauseSession, ApplyResuming, ApplyRunning, At, SessionStatus
  <2>2. EndsRightly(s)
    BY <2>1 DEF EndsRightly
  <2>3. QED
    BY <2>1, <2>2, MarkIsOff DEF Lingers, SoloStep
<1>4. CASE ApplyFailSession(w)
  <2>1. MarkSession("FAILED") /\ pc[w] = "fail_session"
    BY <1>4 DEF ApplyFailSession, At
  <2>2. target[w] \in Nodes /\ node[target[w]] = "FAILED"
    BY <2>1 DEF SoloInv, SoloAt, NodeAt, NodeCalls, ControlInv, Placed
  <2>3. EndsRightly("FAILED") /\ "FAILED" \in SessionStatus
    BY <2>1, <2>2 DEF EndsRightly, SessionStatus
  <2>4. QED
    BY <2>1, <2>3, MarkIsOff DEF Lingers, SoloStep
<1>5. CASE PauseNode(w) \/ ApplyFailNode(w) \/ ApplyNode(w)
  <2>1. pc[w] \in {"pause_node", "fail_node", "apply_node"} /\ target[w] \in Nodes
    BY <1>5 DEF PauseNode, ApplyFailNode, ApplyNode, At, NodeCalls, ControlInv, Placed
  <2>2. /\ session \notin {"COMPLETED", "FAILED"}
        /\ node[target[w]] \notin {"QUEUED", "COMPLETED", "FAILED"}
    BY <2>1 DEF SoloInv, SoloAt, SessionAt, NodeAt, NodeCalls, Cancelled
  <2>3. UNCHANGED <<session, count>> /\ \A m \in Nodes \ {target[w]} : node'[m] = node[m]
    BY <1>5, <2>1 DEF PauseNode, MoveNode, ApplyFailNode, FailNode, ApplyNode, CompleteNode,
                      RequeueNode, ControlInv, ServiceInv, ServiceTypeOK
  <2>4. QED
    BY <2>1, <2>2, <2>3 DEF OnANode, SoloStep
<1>6. QED
  BY <1>1, <1>2, <1>3, <1>4, <1>5 DEF ApplyStep

LEMMA SoloDecisionCases ==
  ASSUME ControlInv, NEW w \in Workers, SoloInv(w), Decide(w)
  PROVE  SoloStep(w)
<1>1. pc[w] = "idle"
  BY DEF Decide, At
<1>2. PICK n \in Nodes, g \in GateNos, a \in DecisionAction : ApplyGateDecision(n, g, a)
  BY DEF Decide
<1>3. node[n] \in {"RUNNING", "PENDING_GATE", "NEEDS_REVISION"}
  BY <1>2 DEF ApplyGateDecision, CanMoveNode, NodeTransitions, DecisionTarget, DecisionAction
<1>4. session \notin {"COMPLETED", "FAILED"}
  BY <1>3 DEF SoloInv, Outcome
<1>5. UNCHANGED <<session, count>> /\ \A m \in Nodes \ {n} : node'[m] = node[m]
  BY <1>2 DEF ApplyGateDecision, ControlInv, ServiceInv, ServiceTypeOK
<1>6. QED
  BY <1>1, <1>3, <1>4, <1>5 DEF OnANode, SoloStep

LEMMA SoloCases ==
  ASSUME NEW w, SingleWriter(w), ControlInv, SoloInv(w), [Next]_vars
  PROVE  SoloStep(w)
<1>1. w \in Workers /\ MaxFaults = 0 /\ ~Abandon(w)
  BY SoloGoesOn DEF SingleWriter
<1>2. CASE Deliver(w)
  BY <1>2, ReadIsOff DEF Deliver, At, Lingers, SoloStep
<1>3. CASE Raise(w)
  <2>1. Read /\ pc[w] # "start_exec"
    BY <1>3 DEF Raise, CallRaises, At
  <2>2. QED
    BY <2>1, ReadIsOff DEF Lingers, SoloStep
<1>4. CASE Cancel
  <2>1. MarkSession("CANCELLED") /\ Lingers(w)
    BY <1>4 DEF Cancel, workerVars, Lingers
  <2>2. EndsRightly("CANCELLED") /\ "CANCELLED" \in SessionStatus
    BY <2>1 DEF EndsRightly, SessionStatus
  <2>3. QED
    BY <2>1, <2>2, MarkIsOff DEF SoloStep
<1>5. CASE Expire
  BY <1>5 DEF Expire, ExpireLease, workerVars, Lingers, OffTheNodes, SoloStep
<1>6. CASE UNCHANGED vars
  BY <1>6 DEF vars, serviceVars, workerVars, Lingers, OffTheNodes, SoloStep
<1>7. QED
  BY <1>1, <1>2, <1>3, <1>4, <1>5, <1>6, SoloRunCases, SoloReportCases, SoloApplyCases,
     SoloDecisionCases DEF Next, WorkerStep, SingleWriter

LEMMA ExecutedKept ==
  ASSUME ControlInv, ControlInv', NEW w \in Workers, Executed(w), SoloStep(w)
  PROVE  Executed(w)'
<1>1. \A n \in Nodes : count[n] \in Nat /\ count'[n] \in Nat
  BY DEF ControlInv, ServiceInv, ServiceTypeOK
<1>2. CASE OffTheNodes(w)
  BY <1>2 DEF OffTheNodes, Lingers, Executed
<1>3. CASE OnANode(w)
  BY <1>3 DEF OnANode, Executed
<1>4. CASE StartsANode(w)
  BY <1>4 DEF StartsANode, Executed
<1>5. CASE StartsAnExecution(w)
  BY <1>1, <1>5 DEF StartsAnExecution, Executed
<1>6. CASE Recovers(w)
  BY <1>6 DEF Recovers, Executed
<1>7. QED
  BY <1>2, <1>3, <1>4, <1>5, <1>6 DEF SoloStep

(* Nothing of the abstract run moves.                                          *)
LEMMA RunStutters ==
  ASSUME session' = session \/ {session, session'} \cap TerminalSession = {},
         \A n \in Nodes : Begun(n)' <=> Begun(n),
         \A n \in Nodes : /\ node'[n] = "COMPLETED" <=> node[n] = "COMPLETED"
                          /\ node'[n] = "FAILED" <=> node[n] = "FAILED"
  PROVE  UNCHANGED Run!vars
  BY DEF Run!vars, Begun, TerminalSession

RunInv(w) == OrderInv /\ SoloInv(w) /\ Executed(w)

LEMMA OffTheNodesRuns ==
  ASSUME ControlInv, ControlInv', NEW w, OffTheNodes(w)
  PROVE  [Run!Next]_Run!vars
<1>1. \A n \in Nodes : Begun(n)' <=> Begun(n)
  BY DEF OffTheNodes, Begun
<1>2. UNCHANGED node
  BY DEF OffTheNodes
<1>3. CASE session' = session
  BY <1>1, <1>2, <1>3, RunStutters
<1>4. ASSUME NEW s \in SessionStatus, EndsRightly(s), s \notin TerminalSession
      PROVE  [Run!Next]_Run!vars
  <2>1. session' = s /\ session \notin TerminalSession
    BY <1>4 DEF EndsRightly, MarkSession, CanMarkSession, SessionTransitions, TerminalSession
  <2>2. QED
    BY <1>1, <1>2, <1>4, <2>1, RunStutters
<1>5. ASSUME NEW s \in TerminalSession, EndsRightly(s)
      PROVE  Run!End
  <2>1. session' = s /\ session \notin TerminalSession
    BY <1>5 DEF EndsRightly, MarkSession, CanMarkSession, SessionTransitions, TerminalSession
  <2>2. UNCHANGED <<node, count>>
    BY DEF OffTheNodes
  <2>3. s = "COMPLETED" => \A n \in Nodes : node[n] = "COMPLETED"
    BY <1>5, ExhaustedIsDone DEF EndsRightly
  <2>4. s = "FAILED" => \E n \in Nodes : node[n] = "FAILED"
    BY <1>5 DEF EndsRightly
  <2>5. CASE s = "COMPLETED"
    BY <2>1, <2>2, <2>3, <2>5 DEF Run!End, Run!Complete, TerminalSession
  <2>6. CASE s = "FAILED"
    BY <2>1, <2>2, <2>4, <2>6 DEF Run!End, Run!GiveUp, TerminalSession
  <2>7. CASE s = "CANCELLED"
    BY <2>1, <2>2, <2>7 DEF Run!End, Run!Cancel, TerminalSession
  <2>8. QED
    BY <1>5, <2>5, <2>6, <2>7 DEF TerminalSession
<1>6. QED
  BY <1>3, <1>4, <1>5 DEF OffTheNodes, Run!Next

LEMMA OnANodeRuns ==
  ASSUME ControlInv, ControlInv', NEW w \in Workers, Executed(w), OnANode(w)
  PROVE  [Run!Next]_Run!vars
<1>1. PICK n \in Nodes : /\ node[n] \notin {"QUEUED", "COMPLETED", "FAILED"}
                         /\ \A m \in Nodes \ {n} : node'[m] = node[m]
  BY DEF OnANode
<1>2. UNCHANGED <<session, count>> /\ session \notin {"COMPLETED", "FAILED"}
  BY DEF OnANode
<1>3. count[n] > 0 /\ count'[n] > 0
  <2>1. count[n] # 0
    BY <1>1 DEF Executed, OnANode
  <2>2. count[n] \in Nat
    BY DEF ControlInv, ServiceInv, ServiceTypeOK
  <2>3. QED
    BY <1>2, <2>1, <2>2
<1>4. \A m \in Nodes : Begun(m)' <=> Begun(m)
  BY <1>1, <1>2, <1>3 DEF Begun
<1>5. CASE node'[n] = "COMPLETED"
  <2>1. Run!Finish(n)
    BY <1>1, <1>2, <1>4, <1>5 DEF Run!Finish, Run!Unfinished, Begun
  <2>2. QED
    BY <2>1 DEF Run!Next
<1>6. CASE node'[n] = "FAILED"
  <2>1. Run!Fail(n)
    BY <1>1, <1>2, <1>4, <1>6 DEF Run!Fail, Run!Unfinished, Begun
  <2>2. QED
    BY <2>1 DEF Run!Next
<1>7. CASE node'[n] \notin {"COMPLETED", "FAILED"}
  BY <1>1, <1>2, <1>4, <1>7, RunStutters
<1>8. QED
  BY <1>5, <1>6, <1>7

(* A node that is started has what it requires; one that was sent back has      *)
(* started before.                                                            *)
LEMMA StartsRun ==
  ASSUME OrderInv, NEW w \in Workers, StartsANode(w)
  PROVE  [Run!Next]_Run!vars
<1>1. PICK n \in Nodes : n = target[w]
  BY DEF StartsANode, OrderInv, ControlInv, Placed, NodeCalls
<1>2. /\ UNCHANGED <<session, count>> /\ session \notin {"COMPLETED", "FAILED"}
      /\ node[n] = "QUEUED" /\ node'[n] = "RUNNING"
      /\ \A m \in Nodes \ {n} : node'[m] = node[m]
  BY <1>1 DEF StartsANode
<1>3. Requires[n] \subseteq Nodes /\ \A r \in Requires[n] : node[r] = "COMPLETED"
  BY <1>1, BlueprintAssumption DEF OrderInv, TargetsReady
<1>4. \A m \in Nodes \ {n} : Begun(m)' <=> Begun(m)
  BY <1>2 DEF Begun
<1>5. Begun(n)'
  BY <1>2 DEF Begun
<1>6. CASE count[n] > 0
  <2>1. \A m \in Nodes : Begun(m)' <=> Begun(m)
    BY <1>4, <1>5, <1>6 DEF Begun
  <2>2. QED
    BY <1>2, <2>1, RunStutters
<1>7. CASE ~(count[n] > 0)
  <2>1. ~Begun(n)
    BY <1>2, <1>7 DEF Begun
  <2>2. Run!Start(n)
    BY <1>2, <1>3, <1>4, <1>5, <2>1 DEF Run!Start, Run!Unfinished, Begun
  <2>3. QED
    BY <2>2 DEF Run!Next
<1>8. QED
  BY <1>6, <1>7

LEMMA SoloStepRuns ==
  ASSUME ControlInv', NEW w \in Workers, RunInv(w), SoloStep(w)
  PROVE  [Run!Next]_Run!vars
<1>1. ControlInv
  BY DEF RunInv, OrderInv
<1>2. CASE OffTheNodes(w)
  BY <1>1, <1>2, OffTheNodesRuns
<1>3. CASE OnANode(w)
  BY <1>1, <1>3, OnANodeRuns DEF RunInv
<1>4. CASE StartsANode(w)
  BY <1>4, StartsRun DEF RunInv
<1>5. CASE StartsAnExecution(w)
  <2>1. \A n \in Nodes : Begun(n)' <=> Begun(n)
    BY <1>5 DEF StartsAnExecution, Begun
  <2>2. QED
    BY <1>5, <2>1, RunStutters DEF StartsAnExecution
<1>6. CASE Recovers(w)
  <2>1. \A n \in Nodes : Begun(n)' <=> Begun(n)
    BY <1>6 DEF Recovers, Begun
  <2>2. QED
    BY <1>6, <2>1, RunStutters DEF Recovers
<1>7. QED
  BY <1>2, <1>3, <1>4, <1>5, <1>6 DEF SoloStep

(* The refinement: seen through what its session and its nodes have come to,   *)
(* what a single writer does is what a workflow run promises, step by step.   *)
THEOREM RunsImplementWorkflowRun ==
  ASSUME NEW w, SingleWriter(w)
  PROVE  Spec => ImplementsWorkflowRun
<1>1. Init => Run!Init /\ RunInv(w)
  <2> SUFFICES ASSUME Init PROVE Run!Init /\ RunInv(w)
    OBVIOUS
  <2>1. session = "QUEUED" /\ \A n \in Nodes : node[n] = "QUEUED" /\ count[n] = 0
    BY DEF Init, ServiceInit
  <2>2. Run!Init
    BY <2>1 DEF Run!Init
  <2>3. Executed(w) /\ DependencyOrder
    BY <2>1 DEF Executed, DependencyOrder
  <2>4. TargetsReady
    BY DEF Init, TargetsReady
  <2>5. QED
    BY <2>2, <2>3, <2>4, ControlInitInv, SoloInit DEF RunInv, OrderInv
<1>2. RunInv(w) /\ [Next]_vars => RunInv(w)' /\ [Run!Next]_Run!vars
  <2> SUFFICES ASSUME RunInv(w), [Next]_vars PROVE RunInv(w)' /\ [Run!Next]_Run!vars
    OBVIOUS
  <2>1. w \in Workers /\ ControlInv /\ SoloInv(w) /\ Executed(w)
    BY DEF SingleWriter, RunInv, OrderInv
  <2>2. OrderInv' /\ ControlInv'
    BY <2>1, NextIsPlaneStep, OrderStepInv DEF RunInv, OrderInv
  <2>3. SoloStep(w) /\ SoloInv(w)'
    BY <2>1, SoloCases, SoloNext
  <2>4. QED
    BY <2>1, <2>2, <2>3, ExecutedKept, SoloStepRuns DEF RunInv
<1>3. QED
  BY <1>1, <1>2, PTL DEF Spec, ImplementsWorkflowRun, Run!Spec
==============================================================================
