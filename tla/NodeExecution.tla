---------------------------- MODULE NodeExecution ----------------------------
(***************************************************************************)
(* What happens between open_node_execution and the report: the episode of   *)
(* an execution harness (orchestration/execution_harness.py and              *)
(* explicit_submit_execution_harness.py), its tool loop (agent_tools.py) with *)
(* the ToolExecution rows of the attempt and the session's ledger of tool    *)
(* effects, the verifiers (verification.py) and the gate that reads them     *)
(* (gating/).                                                               *)
(*                                                                          *)
(* One worker runs the session; it may die between any two puts, and the     *)
(* session is then delivered again once the lease of the dead execution has  *)
(* expired.  What a delivery before that or a second worker would do is in   *)
(* ControlPlane.tla.  Nodes, executions and the apply intents, which are      *)
(* there in full, are one step each here.                                    *)
(*                                                                          *)
(* A tool stands for a call of it with fixed arguments, so a node and a tool  *)
(* make an effect fingerprint.  There is one artifact: some tools write it,   *)
(* the others tell whether it is there.                                      *)
(***************************************************************************)
EXTENDS Naturals, Sequences, FiniteSets

CONSTANTS
  Nodes, Requires,   \* the workflow graph
  Tools, Writers,    \* tools, and those that write the artifact
  NodeTools,         \* the tools a node is given, as its plan task lists them
  Required,          \* GoalSpec.required_tools
  Expects,           \* nodes whose task contract expects the artifact
  Answers,           \* what a model may answer: the tools it calls, in order
  MaxRounds,         \* max_tool_rounds
  UniqueIds,         \* whether the provider gives every tool call its own id
  MaxCrashes,        \* bound: deaths of the worker
  MaxFailures,       \* bound: tool calls that fail
  MaxDecisions       \* bound: gate decisions

NoNode == 0

ASSUME NodeExecutionAssumption ==
  /\ Requires \in [Nodes -> SUBSET Nodes]
  /\ Writers \subseteq Tools /\ Required \subseteq Tools
  /\ NodeTools \in [Nodes -> SUBSET Tools]
  /\ Expects \subseteq Nodes
  /\ Answers \subseteq Seq(Tools)
  /\ NoNode \notin Nodes
  /\ UniqueIds \in BOOLEAN
  /\ MaxRounds \in Nat
  /\ MaxCrashes \in Nat /\ MaxFailures \in Nat /\ MaxDecisions \in Nat

VARIABLES
  session,   \* RuntimeSession.status
  node,      \* NodeState.status
  rows,      \* tool_executions of every attempt: id -> [tool, status]
  effects,   \* processed_idempotency_keys of kind tool_effect
  artifact,  \* the artifact is there
  harness,   \* the ExecutionHarness of the host
  pc,        \* the next step of the episode
  at,        \* its node
  round,     \* tool rounds so far
  calls,     \* tool calls of the round still to do
  seen,      \* successful_results_by_fingerprint
  result,    \* the result of the current call, if it has one
  events,    \* crashes, failures and decisions so far, whether one approved a node
  ran,       \* successes of a tool's handler for a node
  cut,       \* those whose record a crash prevented
  told,      \* calls whose success the model was told: [node, attempt, tool]
  stale      \* a success was told that the handler would no longer give

durable == <<session, node, rows, effects>>
episode == <<pc, at, round, calls, seen, result>>
ghosts == <<ran, cut, told, stale>>
vars == <<durable, artifact, harness, episode, events, ghosts>>

Results == {"written", "present", "absent"}
NoResults == [t \in Tools |-> "none"]

Init ==
  /\ session = "RUNNING"
  /\ node = [n \in Nodes |-> "QUEUED"]
  /\ rows = [n \in Nodes |-> <<>>]
  /\ effects = [n \in Nodes |-> NoResults]
  /\ artifact = FALSE
  /\ harness \in {"drain", "submit"}
  /\ pc = "idle" /\ at = NoNode /\ round = 0 /\ calls = <<>>
  /\ seen = NoResults /\ result = "none"
  /\ events = [crashes |-> 0, failures |-> 0, decisions |-> 0, approved |-> FALSE]
  /\ ran = [n \in Nodes |-> [t \in Tools |-> 0]]
  /\ cut = [n \in Nodes |-> [t \in Tools |-> 0]]
  /\ told = {} /\ stale = FALSE

Idle ==
  /\ pc' = "idle" /\ at' = NoNode /\ round' = 0 /\ calls' = <<>>
  /\ seen' = NoResults /\ result' = "none"

------------------------------------------------------------------------------
(* The loop of run_session *)

(* recover_expired_node_executions: the attempt of a dead run is aborted *)
Recovered(n) == IF node[n] = "RUNNING" THEN "QUEUED" ELSE node[n]

Ready == {n \in Nodes : /\ Recovered(n) = "QUEUED"
                        /\ \A r \in Requires[n] : node[r] = "COMPLETED"}

(* a new execution, with no tool rows, begins its episode *)
Open(n) ==
  /\ pc = "idle" /\ session = "RUNNING" /\ n \in Ready
  /\ node' = [m \in Nodes |-> IF m = n THEN "RUNNING" ELSE Recovered(m)]
  /\ rows' = [rows EXCEPT ![n] = Append(@, <<>>)]
  /\ pc' = "model" /\ at' = n
  /\ UNCHANGED <<session, effects, artifact, harness, round, calls, seen, result,
                 events, ghosts>>

CompleteSession ==
  /\ pc = "idle" /\ session = "RUNNING" /\ Ready = {}
  /\ session' = "COMPLETED"
  /\ node' = [n \in Nodes |-> Recovered(n)]
  /\ UNCHANGED <<rows, effects, artifact, harness, episode, events, ghosts>>

------------------------------------------------------------------------------
(* The harness.  HydraMindExecutionHarness drains the tool calls of every     *)
(* answer and ends with the first that has none; the explicit-submit one      *)
(* takes the first call of an answer and ends with the one that is submitted. *)

(* what the harness takes of an answer *)
Action(a) == IF harness = "submit" /\ a # <<>> THEN <<Head(a)>> ELSE a

(* the answer ends the episode: submitted is {"done": true, "submit": ...} *)
Final(a, submitted) == IF harness = "submit" THEN submitted ELSE a = <<>>

(* execute_tool_round: one call that is not allowed and no call is made *)
Authorized(a) == \A i \in DOMAIN a : a[i] \in NodeTools[at]

EndEpisode(a, submitted) ==
  /\ pc = "model" /\ Final(a, submitted)
  /\ pc' = "verify"
  /\ UNCHANGED <<durable, artifact, harness, at, round, calls, seen, result, events, ghosts>>

TakeCalls(a) ==
  /\ pc = "model" /\ ~Final(a, FALSE) /\ a # <<>>
  /\ round < MaxRounds /\ Authorized(Action(a))
  /\ round' = round + 1 /\ calls' = Action(a)
  /\ pc' = "look"
  /\ UNCHANGED <<durable, artifact, harness, at, seen, result, events, ghosts>>

(* the submit loop goes on after a turn without a call *)
IdleTurn ==
  /\ pc = "model" /\ ~Final(<<>>, FALSE) /\ round < MaxRounds
  /\ round' = round + 1
  /\ UNCHANGED <<durable, artifact, harness, pc, at, calls, seen, result, events, ghosts>>

(* variant: a verifier that raises sends the episode back to the model *)
AskAgain ==
  /\ pc = "verify"
  /\ pc' = "model"
  /\ UNCHANGED <<durable, artifact, harness, at, round, calls, seen, result, events, ghosts>>

(* Unresolved or unauthorized calls, turns that are used up, a provider or a  *)
(* verifier that raises: an error report, with or without an exception.       *)
EpisodeFails ==
  /\ pc \in {"model", "verify"}
  /\ pc' = "error"
  /\ UNCHANGED <<durable, artifact, harness, at, round, calls, seen, result, events, ghosts>>

------------------------------------------------------------------------------
(* A tool call.  Every step is one call of the control plane, or of the tool. *)

Tool == Head(calls)
Attempt == Len(rows[at])
Rows == rows[at][Attempt]

(* an id that the provider leaves out is the same empty one for every call *)
CallId == IF UniqueIds THEN Cardinality(DOMAIN Rows) + 1 ELSE 0
CurrentId == IF UniqueIds THEN Cardinality(DOMAIN Rows) ELSE 0

(* variant: the episode's own results only *)
KnownHere == seen[Tool]

(* a result of the same fingerprint, from this episode or from the ledger *)
Known == IF seen[Tool] # "none" THEN seen[Tool] ELSE effects[at][Tool]

LookUp ==
  /\ pc = "look"
  /\ result' = Known
  /\ seen' = [seen EXCEPT ![Tool] = result']
  /\ pc' = "start"
  /\ UNCHANGED <<durable, artifact, harness, at, round, calls, events, ghosts>>

(* record_tool_execution_started: a row that exists keeps its status *)
WithStarted(r) ==
  [id \in DOMAIN r \cup {CallId} |->
     IF id # CallId THEN r[id]
     ELSE [tool |-> Tool, status |-> IF id \in DOMAIN r THEN r[id].status ELSE "STARTED"]]

RecordStarted ==
  /\ pc = "start"
  /\ rows' = [rows EXCEPT ![at][Attempt] = WithStarted(@)]
  /\ pc' = IF result = "none" THEN "run" ELSE "reuse"
  /\ UNCHANGED <<session, node, effects, artifact, harness, at, round, calls, seen, result,
                 events, ghosts>>

(* what the handler of a tool answers *)
Answer(t) == IF t \in Writers THEN "written" ELSE IF artifact THEN "present" ELSE "absent"

RunTool ==
  /\ pc = "run"
  /\ result' = Answer(Tool)
  /\ artifact' = (artifact \/ Tool \in Writers)
  /\ ran' = [ran EXCEPT ![at][Tool] = @ + 1]
  /\ pc' = "effect"
  /\ UNCHANGED <<durable, harness, at, round, calls, seen, events, cut, told, stale>>

(* run_tool_call: an exception, a timeout, a disabled or refused tool; what it *)
(* did before that stays done                                                 *)
ToolFails ==
  /\ pc = "run" /\ events.failures < MaxFailures
  /\ events' = [events EXCEPT !.failures = @ + 1]
  /\ result' = "error"
  /\ artifact' \in {artifact, artifact \/ Tool \in Writers}
  /\ pc' = "done"
  /\ UNCHANGED <<durable, harness, at, round, calls, seen, ghosts>>

(* the recorded result is given in place of a run *)
Reuse ==
  /\ pc = "reuse"
  /\ stale' = (stale \/ result # Answer(Tool))
  /\ pc' = "done"
  /\ UNCHANGED <<durable, artifact, harness, at, round, calls, seen, result, events, ran,
                 cut, told>>

(* record_tool_effect_result: the first success is kept *)
RecordEffect ==
  /\ pc = "effect"
  /\ seen' = [seen EXCEPT ![Tool] = result]
  /\ effects' = [effects EXCEPT ![at][Tool] = IF @ = "none" THEN result ELSE @]
  /\ pc' = "done"
  /\ UNCHANGED <<session, node, rows, artifact, harness, at, round, calls, result, events,
                 ghosts>>

(* variant: whatever was answered *)
AlwaysSucceeded == "SUCCEEDED"

(* the status of a call that was answered *)
Outcome == IF result = "error" THEN "FAILED" ELSE "SUCCEEDED"

(* record_tool_execution_completed; after the last call the model is asked *)
RecordCompleted ==
  /\ pc = "done"
  /\ rows' = [rows EXCEPT ![at][Attempt][CurrentId].status = Outcome]
  /\ told' = IF result = "error" THEN told
             ELSE told \cup {[node |-> at, attempt |-> Attempt, tool |-> Tool]}
  /\ calls' = Tail(calls) /\ result' = "none"
  /\ pc' = IF Tail(calls) = <<>> THEN "model" ELSE "look"
  /\ UNCHANGED <<session, node, effects, artifact, harness, at, round, seen, events, ran,
                 cut, stale>>

------------------------------------------------------------------------------
(* Verifiers and the gate *)

(* TaskContractVerifierRunner *)
ArtifactExists == at \in Expects => artifact

(* Whether the judge of a semantic rubric passes every check.  A judge that   *)
(* fails or answers no JSON, also when asked again, fails the rubric; there   *)
(* is nothing to judge without the artifact.                                 *)
Judged == IF at \in Expects /\ artifact THEN BOOLEAN ELSE {TRUE}

(* the runners in their order; passed is kept in the place of the result *)
Verify ==
  /\ pc = "verify"
  /\ \E judged \in Judged :
       result' = IF ArtifactExists /\ judged THEN "passed" ELSE "failed"
  /\ pc' = "report"
  /\ UNCHANGED <<durable, artifact, harness, at, round, calls, seen, events, ghosts>>

(* _completed_required_tools: in any attempt of any node *)
Completed ==
  {t \in Required : \E n \in Nodes : \E i \in DOMAIN rows[n] : \E id \in DOMAIN rows[n][i] :
     rows[n][i][id] = [tool |-> t, status |-> "SUCCEEDED"]}

Missing == Required \ Completed

(* _pending_tool_nodes: another node may still call a missing tool *)
Pending == {n \in Nodes \ {at} : /\ node[n] \in {"QUEUED", "RUNNING"}
                                 /\ NodeTools[n] \cap Missing # {}}

(* VerifierFeedbackEvaluator *)
Feedback ==
  IF result = "failed" \/ (Missing # {} /\ Pending = {}) THEN "REQUIRES_DECISION" ELSE "PASS"

(* GateRegistry.to_gate_fn: the outcomes of the evaluators in their order;    *)
(* the first that halts, or else the first that passes                        *)
Halting == {"REQUIRES_DECISION", "BLOCK"}

(* variant: the first outcome that is not none, as GateRegistry's comment has it *)
GateFnFirst(outcomes) ==
  LET said == {i \in DOMAIN outcomes : outcomes[i] # "none"}
  IN IF said = {} THEN "none" ELSE outcomes[CHOOSE i \in said : \A j \in said : i <= j]

GateFn(outcomes) ==
  LET halts == {i \in DOMAIN outcomes : outcomes[i] \in Halting}
      passes == {i \in DOMAIN outcomes : outcomes[i] = "PASS"}
      first(S) == outcomes[CHOOSE i \in S : \A j \in S : i <= j]
  IN IF halts # {} THEN first(halts) ELSE IF passes # {} THEN first(passes) ELSE "none"

(* what an evaluator of the host, registered before the feedback, may say: a   *)
(* schema check, a timeout, a review or a blocking gate, "none" when it does  *)
(* not apply                                                                  *)
HostGate == {"none", "PASS", "REQUIRES_DECISION", "BLOCK"}

(* open_runtime_decision and the apply intent *)
Report(outcome) ==
  /\ pc = "report"
  /\ LET gate == GateFn(<<outcome, Feedback>>) IN
       /\ node' = [node EXCEPT ![at] = CASE gate = "REQUIRES_DECISION" -> "PENDING_GATE"
                                         [] gate = "BLOCK" -> "FAILED"
                                         [] OTHER -> "COMPLETED"]
       /\ session' = CASE gate = "REQUIRES_DECISION" -> "WAITING_GATE"
                       [] gate = "BLOCK" -> "FAILED"
                       [] OTHER -> "RUNNING"
  /\ Idle
  /\ UNCHANGED <<rows, effects, artifact, harness, events, ghosts>>

(* an error report fails the node and the session *)
ReportError ==
  /\ pc = "error"
  /\ node' = [node EXCEPT ![at] = "FAILED"]
  /\ session' = "FAILED"
  /\ Idle
  /\ UNCHANGED <<rows, effects, artifact, harness, events, ghosts>>

------------------------------------------------------------------------------
(* Decisions and crashes *)

AfterDecision(action) ==
  CASE action = "APPROVE" -> "COMPLETED" [] action = "REJECT" -> "FAILED" [] OTHER -> "QUEUED"

Decide(n, action) ==
  /\ pc = "idle" /\ session = "WAITING_GATE" /\ node[n] = "PENDING_GATE"
  /\ events.decisions < MaxDecisions
  /\ events' = [events EXCEPT !.decisions = @ + 1, !.approved = @ \/ action = "APPROVE"]
  /\ node' = [node EXCEPT ![n] = AfterDecision(action)]
  /\ session' = IF action = "REJECT" THEN "FAILED" ELSE "RUNNING"
  /\ UNCHANGED <<rows, effects, artifact, harness, episode, ghosts>>

Crash ==
  /\ pc # "idle" /\ events.crashes < MaxCrashes
  /\ events' = [events EXCEPT !.crashes = @ + 1]
  /\ cut' = IF pc = "effect" THEN [cut EXCEPT ![at][Tool] = @ + 1] ELSE cut
  /\ Idle
  /\ UNCHANGED <<durable, artifact, harness, ran, told, stale>>

HarnessStep ==
  \/ \E a \in Answers : TakeCalls(a) \/ \E submitted \in BOOLEAN : EndEpisode(a, submitted)
  \/ IdleTurn \/ EpisodeFails

(* the puts about a tool call, through the control plane *)
RecordTool == RecordStarted \/ RecordCompleted

ToolStep == LookUp \/ RunTool \/ ToolFails \/ Reuse \/ RecordEffect \/ RecordTool

ReportStep == Verify \/ ReportError \/ \E outcome \in HostGate : Report(outcome)

Step == (\E n \in Nodes : Open(n)) \/ CompleteSession \/ HarnessStep \/ ToolStep \/ ReportStep

Next ==
  \/ Step \/ Crash
  \/ \E n \in Nodes, action \in {"APPROVE", "REVISE", "REJECT"} : Decide(n, action)

Spec == Init /\ [][Next]_vars

(* the worker goes on, or the session is delivered again *)
FairSpec == Spec /\ WF_vars(Step)

------------------------------------------------------------------------------
(* Properties *)

TypeOK ==
  /\ session \in {"RUNNING", "WAITING_GATE", "COMPLETED", "FAILED"}
  /\ node \in [Nodes -> {"QUEUED", "RUNNING", "PENDING_GATE", "COMPLETED", "FAILED"}]
  /\ effects \in [Nodes -> [Tools -> Results \cup {"none"}]]
  /\ round \in 0..MaxRounds

(* The rows of the attempts say what the tools did: a SUCCEEDED row is a call *)
(* of a tool that has succeeded for its node, and no success that the model   *)
(* was told of is missing (record_tool_execution_started and _completed).     *)
LedgerIsTruth ==
  /\ \A n \in Nodes : \A i \in DOMAIN rows[n] : \A id \in DOMAIN rows[n][i] :
       LET row == rows[n][i][id] IN row.status = "SUCCEEDED" => ran[n][row.tool] > 0
  /\ \A c \in told : \E id \in DOMAIN rows[c.node][c.attempt] :
       rows[c.node][c.attempt][id] = [tool |-> c.tool, status |-> "SUCCEEDED"]

(* A tool that succeeded is not run again for its node, by another round, a    *)
(* redelivery or a revision, unless the worker died before the success was     *)
(* recorded (lookup_tool_effect_result, record_tool_effect_result).            *)
EffectsAreNotRepeated ==
  \A n \in Nodes, t \in Tools : ran[n][t] <= 1 + cut[n][t]

(* A session that completes without an approval has run every required tool    *)
(* with success and left the artifact its nodes expect, whatever the model     *)
(* answers, the other gates say and the crashes cut short.                     *)
CompletedIsVerified ==
  session = "COMPLETED" /\ ~events.approved =>
    /\ \A t \in Required : \E n \in Nodes : ran[n][t] > 0
    /\ Expects # {} => artifact

(* A model that goes on calling tools, or never submits, does not keep the      *)
(* session running: it ends or waits for a decision.                            *)
RunEnds == <>[](session # "RUNNING")

(* tools/builtin.py:136: artifact.exists is to "Check whether an artifact path  *)
(* exists".  A call that is answered with a success is told what its handler     *)
(* would tell.                                                                   *)
AnswersAreCurrent == ~stale
==============================================================================
