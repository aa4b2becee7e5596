------------------------------ MODULE GoalRepair ------------------------------
(***************************************************************************)
(* A goal session (orchestration/goal_agent.py): its workflow is a plan that *)
(* is kept in the session and revised while it is executed, by the bounded   *)
(* auto-repair loop after a failed verifier, by a REPLAN decision of a gate   *)
(* or by a direct call of revise_goal_session.                               *)
(*                                                                          *)
(* A process is one GoalDrivenOrchestratorAgent, with its cache of agents:   *)
(* an agent is built from the plan as it was, and keeps that graph until     *)
(* its own process revises the plan.  Several processes serve the session.   *)
(* An action is one put on the session or one read that a later put relies   *)
(* on; the calls inside open_node_execution, the report and the apply        *)
(* intents, and the leases, are those of ControlPlane.tla and are one step   *)
(* here, so the passing status RESUMING is not seen.                         *)
(*                                                                          *)
(* A plan is a function from its task keys to their requires.                *)
(***************************************************************************)
EXTENDS Naturals, FiniteSets

CONSTANTS
  Keys,         \* task keys that plans may use
  InitialPlan,  \* what the planner answers to the goal
  Deltas,       \* what it may answer to revise_plan: [add, update, remove]
  GateKind,     \* failed verifiers of a gate: none, required_tools.completed, others
  Processes,
  NoPlan,       \* no agent is cached
  MaxRepairs,   \* max_repair_attempts
  MaxEvents     \* bound: crashes, and decisions and revisions from outside

Plans == UNION {[K -> SUBSET Keys] : K \in SUBSET Keys}
NoKey == 0

ASSUME GoalAssumption ==
  /\ InitialPlan \in Plans
  /\ Deltas \subseteq [add : Plans, update : Plans, remove : SUBSET Keys]
  /\ GateKind \subseteq {"review", "tools", "verifier"}
  /\ NoKey \notin Keys /\ NoPlan \notin Plans
  /\ IsFiniteSet(Processes)
  /\ MaxRepairs \in Nat /\ MaxEvents \in Nat

VARIABLES
  session,    \* RuntimeSession.status
  plan,       \* metadata["execution_plan"]
  node,       \* NodeState.status, "ABSENT" before a plan first has the key
  gate,       \* what failed at the latest gate of a node
  used,       \* auto_repair_attempts_used
  pc,         \* the next step of each process
  agent,      \* the plan its cached agent was built from
  hand,       \* what it holds: see Hand
  events,     \* crashes and calls from outside so far
  version,    \* how often each node completed
  result,     \* what its latest report rests on: [inputs, outdated]
  repairs,    \* auto-repair revisions applied
  lost        \* a revision was applied over one it had not read

durable == <<session, plan, node, gate, used>>
local == <<pc, agent, hand>>
ghosts == <<version, result, repairs, lost>>
vars == <<durable, local, ghosts, events>>

NodeStatus == {"ABSENT", "QUEUED", "RUNNING", "PENDING_GATE", "APPROVED",
               "NEEDS_REVISION", "COMPLETED", "FAILED", "STALE"}

Action == {"APPROVE", "REVISE", "REPLAN", "REJECT"}

NoDelta == [add |-> <<>>, update |-> <<>>, remove |-> {}]
NoInputs == [k \in Keys |-> 0]

(* What a process holds between two steps: the node it runs or whose gate is  *)
(* decided, the gate, the decision to apply, whether the call repairs by      *)
(* itself, whether the revision is such a repair, the payload                 *)
(* approve_current_after_replan, the planner's delta and the plan it is for,  *)
(* the versions of the inputs of the run.                                     *)
Hand == [task |-> NoKey, kind |-> "review", decision |-> "none", repairing |-> FALSE,
         auto |-> FALSE, approve |-> FALSE, delta |-> NoDelta, base |-> NoPlan,
         inputs |-> NoInputs]

(* start_goal: the session is created with a node for every task *)
Init ==
  /\ session = "QUEUED" /\ plan = InitialPlan
  /\ node = [k \in Keys |-> IF k \in DOMAIN InitialPlan THEN "QUEUED" ELSE "ABSENT"]
  /\ gate = [k \in Keys |-> "review"]
  /\ used = 0
  /\ pc = [p \in Processes |-> "idle"]
  /\ agent = [p \in Processes |-> NoPlan]
  /\ hand = [p \in Processes |-> Hand]
  /\ events = 0
  /\ version = NoInputs
  /\ result = [k \in Keys |-> [inputs |-> NoInputs, outdated |-> FALSE]]
  /\ repairs = 0 /\ lost = FALSE

------------------------------------------------------------------------------
(* Moves of a process *)

At(p, step) == pc[p] = step
Goto(p, step) == pc' = [pc EXCEPT ![p] = step]

(* the call of the orchestrator returns *)
Return(p) ==
  /\ Goto(p, "idle")
  /\ hand' = [hand EXCEPT ![p] = Hand]
  /\ UNCHANGED agent

(* the call goes on with the next node *)
GoOn(p) ==
  /\ Goto(p, "top")
  /\ hand' = [hand EXCEPT ![p] = [Hand EXCEPT !.repairing = hand[p].repairing]]
  /\ UNCHANGED agent

Terminal == {"COMPLETED", "FAILED"}
Halted == session \in Terminal \cup {"WAITING_GATE"}

(* these inputs of a node are not the latest results of what it requires *)
Outdated(k, inputs) ==
  \/ k \notin DOMAIN plan
  \/ \E r \in plan[k] : node[r] # "COMPLETED" \/ inputs[r] # version[r]

------------------------------------------------------------------------------
(* Plans and their revision *)

(* ExecutionPlan.apply_delta; the requires of the result are known tasks.  A   *)
(* key removed and added at once would come twice, which validate_blueprint   *)
(* refuses.                                                                   *)
Applies(p, d) ==
  /\ d.remove \subseteq DOMAIN p
  /\ DOMAIN d.update \subseteq DOMAIN p \ d.remove
  /\ DOMAIN d.add \cap DOMAIN p = {}
  /\ LET keys == (DOMAIN p \ d.remove) \cup DOMAIN d.add
         requires(k) == IF k \in DOMAIN d.add THEN d.add[k]
                        ELSE IF k \in DOMAIN d.update THEN d.update[k] ELSE p[k]
     IN  \A k \in keys : requires(k) \subseteq keys

Revised(p, d) ==
  [k \in (DOMAIN p \ d.remove) \cup DOMAIN d.add |->
     IF k \in DOMAIN d.add THEN d.add[k]
     ELSE IF k \in DOMAIN d.update THEN d.update[k] ELSE p[k]]

Changes(d) == DOMAIN d.add \cup DOMAIN d.update \cup d.remove # {}

(* variant: only the nodes that require a root themselves *)
Children(p, roots) == {k \in DOMAIN p : p[k] \cap roots # {}}

(* descendant_keys: everything that requires a root, directly or not *)
Descendants(p, roots) ==
  {k \in DOMAIN p :
     \A S \in SUBSET DOMAIN p :
       (\A c \in DOMAIN p : p[c] \cap (roots \cup S) # {} => c \in S) => k \in S}

(* the keys a revision from p to q touches *)
Removed(p, q) == DOMAIN p \ DOMAIN q
Added(p, q) == DOMAIN q \ DOMAIN p
Requeued(p, q, changed) ==
  (changed \cup Descendants(p, changed \cup Removed(p, q))) \ Removed(p, q)

(* mark_node_stale_for_revision and requeue_node_for_revision *)
CanRemove(k) == node[k] \notin {"RUNNING", "PENDING_GATE", "FAILED"}
CanRequeue(k) == node[k] \notin {"RUNNING", "FAILED"}

(* variant: the node of a removed task keeps its status *)
KeepRemoved(k) == node[k]

AfterRemoval(k) == IF node[k] = "ABSENT" THEN "ABSENT" ELSE "STALE"
AfterRequeue(k) == IF node[k] \in {"ABSENT", "PENDING_GATE"} THEN node[k] ELSE "QUEUED"

Legal(p, q, changed) ==
  /\ \A k \in Removed(p, q) : CanRemove(k)
  /\ \A k \in Added(p, q) \cup Requeued(p, q, changed) : CanRequeue(k)

(* SessionService.apply_workflow_revision, one put: nodes, plan and history.  *)
(* The status of the session is not looked at.                               *)
ApplyWorkflowRevision(p, q, changed) ==
  /\ Legal(p, q, changed)
  /\ node' = [k \in Keys |->
       IF k \in Removed(p, q) THEN AfterRemoval(k)
       ELSE IF k \in Added(p, q) /\ node[k] = "ABSENT" THEN "QUEUED"
       ELSE IF k \in Added(p, q) \cup Requeued(p, q, changed) THEN AfterRequeue(k)
       ELSE node[k]]
  /\ plan' = q
  /\ UNCHANGED <<session, gate, used>>

------------------------------------------------------------------------------
(* run_session of a goal session *)

(* a delivery, or run_goal_session: the call that repairs by itself *)
Begin(p) ==
  /\ At(p, "idle")
  /\ Goto(p, "agent")
  /\ hand' = [hand EXCEPT ![p].repairing = TRUE]
  /\ UNCHANGED <<agent, durable, ghosts, events>>

(* the process restarts: a queue worker builds a new one for every delivery *)
Restart(p) ==
  /\ At(p, "idle") /\ agent[p] # NoPlan
  /\ agent' = [agent EXCEPT ![p] = NoPlan]
  /\ UNCHANGED <<pc, hand, durable, ghosts, events>>

(* _agent_for_session: the cached agent, or one built from the plan *)
AgentForSession(p) ==
  /\ At(p, "agent")
  /\ agent' = [agent EXCEPT ![p] = IF @ = NoPlan THEN plan ELSE @]
  /\ Goto(p, IF hand[p].decision = "none" THEN "top" ELSE "decide")
  /\ UNCHANGED <<hand, durable, ghosts, events>>

(* the ready nodes of a graph; which of them comes first is not used *)
Ready(graph, status) ==
  {k \in DOMAIN graph :
     status[k] = "QUEUED" /\ \A r \in graph[k] : status[r] = "COMPLETED"}

(* nodes left RUNNING by a run that died *)
Orphans ==
  {k \in Keys : /\ node[k] = "RUNNING"
                /\ \A p \in Processes : ~(At(p, "run") /\ hand[p].task = k)}

(* The head of the loop: executions of dead runs that were leased are         *)
(* recovered, others stay; then a node is picked and its inputs are read.     *)
Top(p) ==
  /\ At(p, "top") /\ ~Halted
  /\ \E recovered \in SUBSET Orphans :
       node' = [k \in Keys |-> IF k \in recovered THEN "QUEUED" ELSE node[k]]
  /\ LET ready == Ready(agent[p], node') IN
       \/ \E k \in ready :
            /\ hand' = [hand EXCEPT ![p].task = k, ![p].inputs =
                 [r \in Keys |-> IF r \in agent[p][k] THEN version[r] ELSE 0]]
            /\ Goto(p, "open")
       \/ ready = {} /\ Goto(p, "complete") /\ UNCHANGED hand
  /\ UNCHANGED <<session, plan, gate, used, agent, ghosts, events>>

(* record_session_complete *)
Complete(p) ==
  /\ At(p, "complete") /\ session = "RUNNING"
  /\ session' = "COMPLETED"
  /\ Return(p)
  /\ UNCHANGED <<plan, node, gate, used, ghosts, events>>

Started(k) == IF node[k] = "QUEUED" THEN "RUNNING" ELSE node[k]

(* open_node_execution: a node that is not QUEUED gets another execution *)
Open(p) ==
  LET k == hand[p].task IN
  /\ At(p, "open") /\ session \in {"QUEUED", "RUNNING"}
  /\ session' = "RUNNING"
  /\ node' = [node EXCEPT ![k] = Started(k)]
  /\ Goto(p, "run")
  /\ UNCHANGED <<plan, gate, used, agent, hand, ghosts, events>>

(* what a completion rests on: a node that is outdated as it completes is     *)
(* not the revision's doing                                                   *)
Rests(k, inputs) == [inputs |-> inputs, outdated |-> Outdated(k, inputs)]

(* The report of the run; a node that was requeued meanwhile is started       *)
(* again by it.                                                               *)
ReportComplete(p) ==
  LET k == hand[p].task IN
  /\ At(p, "run") /\ session = "RUNNING" /\ Started(k) = "RUNNING"
  /\ node' = [node EXCEPT ![k] = "COMPLETED"]
  /\ version' = [version EXCEPT ![k] = @ + 1]
  /\ result' = [result EXCEPT ![k] = Rests(k, hand[p].inputs)]
  /\ GoOn(p)
  /\ UNCHANGED <<session, plan, gate, used, repairs, lost, events>>

ReportFail(p) ==
  /\ At(p, "run") /\ session = "RUNNING" /\ Started(hand[p].task) = "RUNNING"
  /\ node' = [node EXCEPT ![hand[p].task] = "FAILED"]
  /\ session' = "FAILED"
  /\ Return(p)
  /\ UNCHANGED <<plan, gate, used, ghosts, events>>

(* PAUSE; only the calls that repair by themselves look at the gate.  The     *)
(* gate stays recorded when the node cannot be paused and the run raises.     *)
ReportPause(p, kind) ==
  LET k == hand[p].task IN
  /\ At(p, "run") /\ session = "RUNNING"
  /\ gate' = [gate EXCEPT ![k] = kind]
  /\ \/ /\ Started(k) = "RUNNING"
        /\ node' = [node EXCEPT ![k] = "PENDING_GATE"]
        /\ session' = "WAITING_GATE"
        /\ result' = [result EXCEPT ![k] = Rests(k, hand[p].inputs)]
        /\ \/ /\ hand[p].repairing
              /\ hand' = [hand EXCEPT ![p].kind = kind]
              /\ Goto(p, "repair") /\ UNCHANGED agent
           \/ ~hand[p].repairing /\ Return(p)
     \/ /\ Started(k) # "RUNNING"
        /\ Return(p) /\ UNCHANGED <<node, session, result>>
  /\ UNCHANGED <<plan, used, version, repairs, lost, events>>

------------------------------------------------------------------------------
(* maybe_auto_repair and revise_goal_session *)

(* variant: the reservation is not stored *)
ReserveInMemory(p) ==
  /\ At(p, "repair") /\ hand[p].kind # "review" /\ used < MaxRepairs
  /\ hand' = [hand EXCEPT ![p].auto = TRUE, ![p].approve = TRUE]
  /\ Goto(p, "plan")
  /\ UNCHANGED <<session, plan, node, gate, used, agent, ghosts, events>>

(* reserve_auto_repair_attempt, before the planner is asked *)
Reserve(p) ==
  /\ At(p, "repair") /\ hand[p].kind # "review" /\ used < MaxRepairs
  /\ used' = used + 1
  /\ hand' = [hand EXCEPT ![p].auto = TRUE, ![p].approve = TRUE]
  /\ Goto(p, "plan")
  /\ UNCHANGED <<session, plan, node, gate, agent, ghosts, events>>

(* variant: the loop asks for an attempt again *)
RetryReserve(p) == At(p, "repair") /\ UNCHANGED vars

(* no failed verifier, or the budget is spent: the gate is left to others *)
DeclineRepair(p) ==
  /\ At(p, "repair") /\ (hand[p].kind = "review" \/ used >= MaxRepairs)
  /\ Return(p)
  /\ UNCHANGED <<durable, ghosts, events>>

(* revise_plan answers with a change; the plan it applies to is read *)
PlanChange(p) ==
  /\ At(p, "plan")
  /\ \E d \in Deltas :
       /\ Changes(d)
       /\ \/ Applies(plan, d) /\ Goto(p, "revise") /\ UNCHANGED agent
             /\ hand' = [hand EXCEPT ![p].delta = d, ![p].base = plan]
          \/ ~Applies(plan, d) /\ Return(p)
  /\ UNCHANGED <<durable, ghosts, events>>

(* revise_plan answers with no change: only a REPLAN decision goes on *)
PlanNoChange(p) ==
  /\ At(p, "plan")
  /\ \/ hand[p].decision = "REPLAN" /\ Goto(p, "agent") /\ UNCHANGED <<agent, hand>>
     \/ hand[p].decision = "none" /\ Return(p)
  /\ UNCHANGED <<durable, ghosts, events>>

(* should_approve_current_after_replan *)
ApproveCurrent(h) ==
  /\ h.approve /\ h.kind = "tools"
  /\ h.task \notin h.delta.remove \cup DOMAIN h.delta.update

(* apply_plan_delta; the process drops its own cached agent, and goes on with *)
(* the decision when the revision is a repair or a REPLAN                     *)
Revise(p) ==
  LET h == hand[p] IN
  /\ At(p, "revise")
  /\ \/ /\ ApplyWorkflowRevision(h.base, Revised(h.base, h.delta), DOMAIN h.delta.update)
        /\ agent' = [agent EXCEPT ![p] = NoPlan]
        /\ repairs' = IF h.auto THEN repairs + 1 ELSE repairs
        /\ lost' = (lost \/ h.base # plan)
        /\ IF h.auto \/ h.decision = "REPLAN"
           THEN /\ hand' = [hand EXCEPT ![p].auto = FALSE, ![p].delta = NoDelta,
                              ![p].base = NoPlan, ![p].decision =
                              IF ApproveCurrent(h) THEN "APPROVE" ELSE "REPLAN"]
                /\ Goto(p, "agent")
           ELSE Goto(p, "idle") /\ hand' = [hand EXCEPT ![p] = Hand]
     \/ /\ ~Legal(h.base, Revised(h.base, h.delta), DOMAIN h.delta.update)
        /\ Return(p) /\ UNCHANGED <<durable, repairs, lost>>
  /\ UNCHANGED <<version, result, events>>

------------------------------------------------------------------------------
(* resume_session with a decision *)

CanDecide(k, a) ==
  \/ node[k] = "PENDING_GATE"
  \/ a = "REJECT" /\ node[k] \in {"RUNNING", "NEEDS_REVISION"}

Decide(p) ==
  LET k == hand[p].task  a == hand[p].decision IN
  /\ At(p, "decide") /\ CanDecide(k, a)
  /\ node' = [node EXCEPT ![k] = CASE a = "APPROVE" -> "APPROVED"
                                  [] a = "REJECT" -> "FAILED"
                                  [] OTHER -> "NEEDS_REVISION"]
  /\ Goto(p, "apply")
  /\ UNCHANGED <<session, plan, gate, used, agent, hand, ghosts, events>>

(* apply_node_intent, from the status of the node read back *)
Resumed == IF session = "WAITING_GATE" THEN "RUNNING" ELSE session

ApplyRequeue(p) ==
  /\ At(p, "apply") /\ node[hand[p].task] = "NEEDS_REVISION"
  /\ node' = [node EXCEPT ![hand[p].task] = "QUEUED"]
  /\ session' = Resumed
  /\ GoOn(p)
  /\ UNCHANGED <<plan, gate, used, ghosts, events>>

ApplyComplete(p) ==
  LET k == hand[p].task IN
  /\ At(p, "apply") /\ node[k] = "APPROVED"
  /\ node' = [node EXCEPT ![k] = "COMPLETED"]
  /\ version' = [version EXCEPT ![k] = @ + 1]
  /\ result' = [result EXCEPT ![k] = Rests(k, @.inputs)]
  /\ session' = Resumed
  /\ GoOn(p)
  /\ UNCHANGED <<plan, gate, used, repairs, lost, events>>

ApplyFail(p) ==
  /\ At(p, "apply") /\ node[hand[p].task] = "FAILED"
  /\ session \in {"RUNNING", "WAITING_GATE"}
  /\ session' = "FAILED"
  /\ Return(p)
  /\ UNCHANGED <<plan, node, gate, used, ghosts, events>>

------------------------------------------------------------------------------
(* Calls from outside, failures *)

(* resume_goal_session; a REPLAN asks the planner first *)
Resume(p, k, a, approved) ==
  /\ At(p, "idle") /\ events < MaxEvents
  /\ node[k] = "PENDING_GATE" /\ (approved => a = "REPLAN")
  /\ events' = events + 1
  /\ hand' = [hand EXCEPT ![p].task = k, ![p].kind = gate[k],
                          ![p].decision = a, ![p].approve = approved]
  /\ Goto(p, IF a = "REPLAN" THEN "plan" ELSE "agent")
  /\ UNCHANGED <<agent, durable, ghosts>>

(* revise_goal_session or apply_plan_delta, at any time *)
ReviseGoalSession(p) ==
  /\ At(p, "idle") /\ events < MaxEvents
  /\ events' = events + 1
  /\ Goto(p, "plan")
  /\ UNCHANGED <<agent, hand, durable, ghosts>>

(* the run finds the session halted, or a call finds an illegal status *)
Stops(p) ==
  LET k == hand[p].task IN
  \/ At(p, "top") /\ Halted
  \/ At(p, "complete") /\ session # "RUNNING"
  \/ At(p, "open") /\ session \notin {"QUEUED", "RUNNING"}
  \/ At(p, "run") /\ (session # "RUNNING" \/ Started(k) # "RUNNING")
  \/ At(p, "decide") /\ ~CanDecide(k, hand[p].decision)
  \/ At(p, "apply") /\ node[k] \notin {"NEEDS_REVISION", "APPROVED", "FAILED"}
  \/ At(p, "apply") /\ node[k] = "FAILED" /\ session \in Terminal \cup {"QUEUED"}

Stop(p) == Stops(p) /\ Return(p) /\ UNCHANGED <<durable, ghosts, events>>

(* the process dies before its next step *)
Crash(p) ==
  /\ pc[p] # "idle" /\ events < MaxEvents
  /\ events' = events + 1
  /\ Goto(p, "idle")
  /\ hand' = [hand EXCEPT ![p] = Hand]
  /\ agent' = [agent EXCEPT ![p] = NoPlan]
  /\ UNCHANGED <<durable, ghosts>>

RunStep(p) ==
  \/ AgentForSession(p) \/ Top(p) \/ Complete(p) \/ Open(p)
  \/ ReportComplete(p) \/ ReportFail(p) \/ \E kind \in GateKind : ReportPause(p, kind)
  \/ Stop(p)

RepairStep(p) ==
  \/ Reserve(p) \/ DeclineRepair(p) \/ PlanChange(p) \/ PlanNoChange(p) \/ Revise(p)
  \/ Decide(p) \/ ApplyRequeue(p) \/ ApplyComplete(p) \/ ApplyFail(p)

Step(p) == RunStep(p) \/ RepairStep(p)

Next ==
  \E p \in Processes :
    \/ Begin(p) \/ Restart(p) \/ Step(p) \/ Crash(p) \/ ReviseGoalSession(p)
    \/ \E k \in Keys, a \in Action, approved \in BOOLEAN : Resume(p, k, a, approved)

Spec == Init /\ [][Next]_vars

(* A process goes on with its call, and the session is delivered again.       *)
FairSpec == Spec /\ \A p \in Processes : WF_vars(Step(p)) /\ WF_vars(Begin(p))

------------------------------------------------------------------------------
(* Properties *)

TypeOK ==
  /\ session \in {"QUEUED", "RUNNING", "WAITING_GATE"} \cup Terminal
  /\ plan \in Plans
  /\ node \in [Keys -> NodeStatus]
  /\ gate \in [Keys -> GateKind \cup {"review"}]
  /\ used \in 0..MaxRepairs

(* Auto-repair is bounded: however the repair loops of several processes,     *)
(* duplicate deliveries and crashes interleave, no more revisions are applied *)
(* by it than attempts were reserved, and never more than max_repair_attempts *)
(* (goal_repair_runtime.maybe_auto_repair, reserve_auto_repair_attempt).      *)
RepairBudget == repairs <= used /\ used <= MaxRepairs

(* The plan and the nodes agree: every task has a node, and a node without a  *)
(* task is STALE, so that a late report or a stale pick never brings a        *)
(* removed task back.  Two revisions that cross break this, since the second  *)
(* is made of a plan that is read before its put: lost.                       *)
PlanAndNodesAgree ==
  ~lost => \A k \in Keys :
             IF k \in DOMAIN plan THEN node[k] \notin {"ABSENT", "STALE"}
             ELSE node[k] \in {"ABSENT", "STALE"}

(* A COMPLETED node never becomes outdated: a revision sends back everything   *)
(* downstream of what it changes, so a result that rested on the latest ones   *)
(* of its requirements still does.  (A node may complete on outdated inputs:   *)
(* a run that was picked before a revision, an old cached graph, a repair that *)
(* revises an upstream task and approves the current one.)                     *)
ResultsAreFresh ==
  ~lost => \A k \in DOMAIN plan :
    node[k] = "COMPLETED" /\ ~result[k].outdated =>
      \A r \in plan[k] :
        node[r] = "COMPLETED" => result[k].inputs[r] = version[r]

(* The repair loop ends: every call returns, and the session ends or waits    *)
(* for a decision.                                                            *)
RepairEnds ==
  /\ \A p \in Processes : []<>At(p, "idle")
  /\ <>[]Halted
==============================================================================
