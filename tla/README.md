# HydraMind in TLA+

HydraMind runs multi-agent workflows. A workflow session is a durable record; an
orchestrator drives it node by node through a control plane; agents only report;
a queue delivers session ids to workers. These modules model the durable core:
the session record, the store that makes its updates atomic, the workers that drive
it with crashes, expired leases, redelivery and human decisions, the queues that
deliver it, the worker loop and its command line, the planner and the goal loop that
revises the plan while it is executed, the episode of an execution with its tools,
verifiers and lease, and the team interactions that are resumed turn by turn.

Paths below are relative to `src/src/hydramind/` unless they start with `docs/` or
`tests/` (then relative to `src/`).

## 1. The system

| Component | State it keeps | Operations | Interacts with |
|---|---|---|---|
| Session store (`control/store.py`, `session_persistence.py`) | one versioned row per session | `get`, `put` with version check, `delete` | called by the service only |
| Session service (`control/session_service.py`, `session_*.py`, `states.py`) | the `RuntimeSession`: status, nodes, attempts (executions), leases, gates, tool ledger, idempotency keys, repair budget, interactions | about 40 methods, each get / mutate / put | the only writer of the store |
| Control plane (`control/control_*.py`) | none | open execution, lease, accept report, apply intent, apply gate decision, record completion | a sequence of service calls per operation |
| Orchestrator (`orchestration/agent.py`, `agent_execution.py`, `graph.py`) | local variables of one run | `run_session`, `resume_session`, lease heartbeat | control plane; agents |
| Queue worker (`runtime_worker.py`, `runtime_queue.py`, `cli_worker_support.py`) | the message in hand, counters, the observers of its emitter | dequeue, build a runtime, run, ack / nack, leave the loop | queue, orchestrator, memory |
| Queues (`queue/in_memory.py`, `redis_stream.py`) | pending, in flight, dead letters | enqueue, dequeue, ack, nack, reclaim, replay | worker, command line |
| Durable interactions (`control/interaction_*.py`, `session_durable_interactions.py`) | turns, messages, turn leases | grant, record, resume, recover | collaboration runtime |
| Workflow revision (`control/session_workflow.py`) | nodes of the session | add, remove, mark stale, requeue descendants | goal agent |
| Goal loop (`orchestration/goal_*.py`) | repair attempts used | revise, auto-repair, resume | service, planner |
| Planner (`orchestration/planning*.py`) | the dialogue with its model | plan, delta, repair of an answer; lays the goal's artifacts and contract on tasks | goal loop, model |
| Execution harnesses and tools (`orchestration/*execution_harness.py`, `agent_tools.py`, `tools/`) | rounds and results of an episode; tool rows and ledger of the session | ask the model, run tools, submit | control plane, model |
| Gating and verification (`gating/`, `orchestration/verification*.py`) | none | verifiers of a report, evaluators of a gate | control plane reads the gate |
| Memory and emitter (`memory/`, `observability/emitter.py`) | memory entries; observers | project the episode of a session | called after the put of a session |
| Session events and trace (`control/session_observability.py`, `observability/trace_console.py`) | the trace | emit what a call did; summarise a trace | called by the service around its put |
| Turn scheduling (`kernel/scheduler.py`, `mas/`) | none | strategies that choose the next speaker | collaboration runtime |
| Providers (`harness/openai_compatible*.py`) | none | a dialogue and its tools on the wire, calls and results back | the loops of nodes and members |
| Governance, the rest of the command line | external or per call | | |

What makes it hard: every control operation is several service calls with a
store put each, so a crash or a second delivery can come between any two of them;
leases expire while their holder works; a decision on a gate can arrive late,
twice, or for an old gate; and the orchestrator acts on sessions it read some
calls ago.

What makes each component correct:

* store: every service call is atomic, no update is lost, a deleted session stays deleted;
* service: history is append-only, a node succeeds once, an ended execution has no
  lease, decisions bind their node, terminal sessions are terminal;
* control plane and orchestrator: nodes start in dependency order, completion is
  recorded when everything is done, no gate is passed undecided, failures have a
  cause, a run ends or waits for a decision that can still be taken;
* queues: a message is never lost or delivered past its budget, an old delivery
  cannot acknowledge a new one;
* interactions: turns are recorded once and in order, an expired turn is resumed once, every member is heard before the end;
* revision: what depends on a revised node is executed again, history is kept;
* goal loop: the repair budget is never exceeded;
* planner: whatever its model writes, the call ends, the plan that is stored can be run, and
  what the goal expects is looked at by the verifiers before the session completes;
* episodes: the record of tool calls is true, an effect is not repeated, a gate is not passed
  without its tools and artifacts, a model that never stops does not keep the run going;
* leases: a worker that keeps its heartbeat keeps its execution;
* worker: every delivery is settled, every session that ends leaves one episode;
* dialogues: what a model is sent has a result for every call it is told it made;
* tools: a result says what has happened, a process ends with its call;
* events: the trace tells no end that the session does not have, and misses none.

## 2. Modules

| Module | Models | |
|---|---|---|
| `SessionStore` | `put` / `get` / `delete` on one row by several processes | section 3 |
| `AtomicSession` | abstract: a session is a register on which each call takes effect at once | implemented by `SessionStore` |
| `SessionService` | the session record and every service method on its status, nodes, executions, leases and gates | section 4 |
| `SessionEvents` | extends it: service calls that overlap, what they emit before and after their put, and the summary a reader makes of the trace | section 4 |
| `ControlPlane` | `run_session` / `resume_session` by several workers, one service call per step | section 5 |
| `WorkflowRun` | abstract: what a run promises (order, one outcome per node, completion) | implemented by `ControlPlane` with a single writer |
| `RedisStreamQueue` | the Redis Streams adapter and its workers, one Redis command per step | section 6 |
| `InMemoryQueue` | the in-memory adapter: bounded asyncio queue, sweeps, cancellation, close | section 6 |
| `GoalRepair` | goal sessions: plan, revision, auto-repair, REPLAN decisions, cached agents | section 7 |
| `TurnScheduling` | pure: which member takes the next turn, what it reads, what the outcome is made of | section 8 |
| `DurableInteraction` | extends it: attempts that record, resume and repeat turns; turn leases; the ledger of tool effects | section 8 |
| `Planning` | the planner's dialogue, the plan and its deltas, goal artifacts and contract up to the verifiers | section 9 |
| `NodeExecution` | one episode: harness, tool loop, ledger, verifiers, gate | section 10 |
| `ExecutionLease` | the lease of an execution in time: ttl, clocks, heartbeat | section 11 |
| `ModelDialogue` | what one model is sent in each loop, tool names and results on the wire | section 13 |
| `ToolExecution` | registry, built-in handlers, processes, fingerprints | section 13 |
| `QueuedRun` | client, worker loop, emitter and episodic memory | section 12 |
| `*Proofs` | the theorems of the module in their name | section 15 |
| `MC*` | the instances of the runs; `MCSession`, `MCNodeExecution` and `MCQueueAdapters` put independent modules side by side | section 14 |

The layers fit as in the code. `SessionStore` shows that get / mutate / put is
atomic (it implements `AtomicSession`), which is why `SessionService` makes each
method one action. `ControlPlane` extends `SessionService` and makes each control
operation a sequence of its actions.

An operator whose comment starts with "variant:" is a wrong version of the
definition that follows it. No specification uses one; they are kept to show that
each property notices the bug it is about.

## 3. SessionStore

`stored` is the row, `copy[w]` the `RuntimeSession` object a process holds,
`call[w]` the service call it is in. The content of a session is abstracted to
the set of calls whose mutation it holds. `Get` and the mutation are one
action (the copy is private), `Put` is the critical section of the store (in
SQLite `begin immediate` .. `commit`; in memory there is no `await` inside).
`PutAgain` is the second put of `complete_session` and `fail_session`, made on the object
whose version the first put advanced. `Drop` is a conflict, a failing put or a
crash.

## 4. SessionService

A node is a number, its place in topological order; an execution is a node and
its attempt number; the lease of an execution is `none`, `live` or `expired` (the
token is not spelt out because an execution is leased to the worker that opened
it, and no two workers hold the same one (`ExecutionsArePrivate`); a
heartbeat keeps a lease live and is a stutter here, `ExecutionLease` has it). Every method has a guard `CanX`, false
exactly when the method raises before its put. `ServiceSpec` lets any caller call
any method in any order. `ExpireLease` is the passing of `lease_expires_at`.
`STALE` is entered by workflow revisions only. `RevisionCall` is `apply_workflow_revision` on any nodes (`removed`, `requeued`: the two blueprints
and the changed keys come from the caller), whatever the session's status: it moves APPROVED and COMPLETED nodes to STALE or, through STALE, to QUEUED, and
keeps their executions, gates and decisions; a RUNNING or FAILED node refuses it, and one that is PENDING_GATE cannot be removed and stays when it is requeued.
`PlanCall` is every other call. Two ghosts note what a revision takes back, as its record in the session's metadata would tell: `redone`, the successes from before,
and `revoked`, the gates whose approval is from before and has not been given again. Hence the exceptions of the properties: a node succeeds once, and once more for each
time a revision takes it back (`OneSuccess`, `HistoryIsFrozen`); an approval keeps its node APPROVED or COMPLETED against every call but a revision, and a rejection
keeps it FAILED against all of them (`DecisionsBind`). Which nodes a revision of a plan takes, and the repair budget, are in
`GoalRepair`, interactions, turn leases and the ledger of tool effects in
`DurableInteraction`. Not modelled: metadata, the evidence of tool executions, and
`claim_idempotency_key`, which nothing in `src/` calls.

**SessionEvents** splits a call into its steps. `request[w]` is the call of a caller, `copied[w]` the version it read:
`GetSession` (a call that is not legal ends here), `PutSession` (the operation of `SessionService`, under the version check), `PutNote` (the second put of
`complete_session` and `fail_session`), `Finish`, `RaiseError` (a lost put). `pending[w]` are the events it still has to emit, one per
`EmitEvent`: `EventsBefore` its put (`complete_node` and `fail_node` tell the end of the execution before they store it) and `EventsAfter` it. `ObserverFails` is a critical
observer that raises: the event was delivered, the rest of the call is not made. `CallIsCut` is a crash. `trace` is the summary that
`trace_console.py` makes of the events in the order of their emission (`ReadEvent`). Ghosts: `alone` (no two calls overlapped), `whole` (no call was cut).

What the model shows, beside the property:

* a `complete_node` that loses its put leaves the end of an execution in the trace that the session does not have;
* calls that overlap emit in an order that need not be that of their puts, so that only the end of the session can be trusted in such a trace;
* an event that was cut off is never made up for: the next delivery tells nothing of it.

The clock is read with the put. `apply_workflow_revision` emits nothing: a node it moves is in `untold` until a call tells its status again, and the
trace may be wrong about it until then, which `TraceTellsTheSession` excepts. The events of interactions, tools, agents and the queue are left out.

## 5. ControlPlane

`pc[w]` names the service call worker `w` makes next; what it read before
(`target[w]`, the branch it took) may be stale by then. `Deliver` starts
`run_session` with an execution owner (leased executions), `Decide` is
`resume_session` with a decision, which runs on without leases. `CallRaises` lists
for each call when the code raises; `Raise` then ends the run. `Abandon` is a crash
or a lost put between two calls, bounded by `MaxFaults`. The agent's work is the one step
`Invoke`, with an output or an error; the gate function and the apply deriver are the
choice in `Consume`. The lease check of a report reads the session twice in the
code; since a failed check changes nothing, one read gives the same outcomes.
Not modelled: `max_steps`, the `WORKFLOW_REVISION` intent, interactions (their
recovery only makes `run_session` read the session again, which `Recover` allows).

## 6. RedisStreamQueue, InMemoryQueue

**Redis.** One action is one Redis command of `enqueue`, `dequeue`, `ack`, `nack` or
`replay_dead_letter`: `Claim` (XAUTOCLAIM), `ReadNew` (XREADGROUP), `Inspect` (HGET of the delivery state),
`BuryReclaimed` (XADD to the dead letters), `Issue` (HSET of a new token), `Settle` (the
token is compared), `Xack`, `Xdel`, `Hdel`, `AppendRetry`. Commands of several workers
interleave. `Cut` ends an operation after any command. `Expire` is the visibility
timeout; it may pass while the worker still runs. A token is the worker and the
attempt. Ghosts: `submitted`, `settled`, `cut`, `deliveries`, `replays`, `raced`.

What the model shows of the code, beside the properties:

* `max_delivery_attempts = N` is documented as exactly N deliveries
  (`queue/redis_stream.py:38`). A worker that acts on an entry another one
  reclaimed can make one more; `DeliveryBudget` is stated without such a race.
* Between the removal of an entry and the append of its retry a nack holds the
  message in no durable place: a crash there loses it (`cut`).
* `pending()` counts an entry between its XACK and its XDEL; a crash there leaves it counted
  for ever.
* A crash between the two commands of a replay leaves both the retry and the dead letter.

**In memory.** All tasks share one event loop, so an action is what a task does
between two awaits. Only the put on a full bounded queue suspends an operation: `task[t] = "put"`.
Every dequeue and every count first sweeps the expired handles (`RedeliverExpired`), by
workers and by the monitor alike. A handle is known by session and attempt, which is
renewed with every delivery. A cancelled run stays in flight until it expires; a
cancelled put is lost; `close` drops what it finds. When every worker is in such a put,
nobody takes from the queue: `ComesToRest` exempts that stall.

`MCQueueAdapters` follows `create_queue_adapter` (`runtime_support.py`): the variable `adapter` is set once
and the other adapter stays in its initial state.

## 7. GoalRepair

A process is one `GoalDrivenOrchestratorAgent` with its cached agent (`agent[p]`: the plan it
was built from). `Begin` / `AgentForSession` / `Top` / `Open` / `Report*` / `Complete` are `run_session` with
the control operations of `ControlPlane` as one step each. `Reserve` and `DeclineRepair` are
`maybe_auto_repair`, `PlanChange` / `PlanNoChange` the planner's answer, `Revise` is `apply_plan_delta` with
`SessionService.apply_workflow_revision` (one put), `Resume` / `Decide` / `Apply*` is `resume_goal_session`. A plan is a
function from task keys to their requires; a delta adds, updates and removes.
The planner may answer any delta of a set.

The model shows where freshness ends: a node may complete on outdated inputs when
its run was picked before a revision, when a process still uses an old cached graph, when an
unleased report comes after a requeue, or when a repair revises an upstream task and approves the
current one. `ResultsAreFresh` says that no *later* revision makes a fresh result outdated. Two
revisions that cross lose one of them, because the plan is read at
`orchestration/goal_session_state.py:51` and put later (`lost`). `apply_workflow_revision` does not look at the
session's status: a COMPLETED session can get QUEUED nodes. A process with an old graph
completes the session without the tasks another one added. `resume_goal_session` does not
repair after its own run. `docs/architecture/40-orchestration.md:95` speaks of requirements that are STALE as
accepted; the code accepts COMPLETED only. Where plans and deltas come from, and what a quality contract does, is in `Planning`.

## 8. TurnScheduling, DurableInteraction

`TurnScheduling` translates the six executed strategies of `kernel/scheduler.py`: `NextAgent`, `VisibleTurns`, and what a
typed outcome counts. The strategies in which each member has one turn differ in the order: `Place` is the declared one, but for a delegator, who
`ActsFirst`, and the coordinator of a team, who `ActsLast`; the next is the one of least place that has not acted (`NextUnacted`). A debate goes round (`NextSpeaker`). `Turns` is how many turns a
protocol has. A message is known by the run of the turn that wrote it.

`DurableInteraction` runs `NativeTeamExecutor.invoke` by several attempts: `Find` (what to resume from), `Start`, `Mark`, then
for each turn `RunTurn`, the tool call (`LookUpEffect`, `RunTool`, `RecordEffect`), `RecordTurn`, `RecordMessage`, and at the
end `Aggregate`, `CompleteInteraction`, `Report`. `Crash` and `Fault` cut it anywhere; `Expire` requeues the node although its
worker may live; `Requeue` is a decision or a revision. Turn leases (`GrantTurnLease`, `ExpireTurnLease`, `ReleaseTurnLease`,
`RecoverTurnLeases`) run beside it: `invoke` neither takes nor checks them. Where an action is a call of the service on the durable record, the
change of the record is an operator of its own, named like the function in `control/` (`RecordDurableTurn`, `GrantDurableTurnLease`, ...); `InteractionCall` and `TurnLeaseCall` are what goes through the control plane.

What the model shows, beside the properties:

* A crash between the two puts of a turn completes it without its message. A resume
  does not run it again and counts its result as empty.
* An attempt on an interaction that has ended cannot resume: it runs every member
  again, and its messages and outcome are dropped in favour of the first ones.
* Attempts that overlap mix their turns; a stale one can turn COMPLETED into FAILED. Even so no member is left out of an
  interaction that is COMPLETED (`EveryMemberHeard`), since an attempt completes it only when it knows of no turn that is left.
* `release_turn_lease(completed=True)` completes a turn that has no message.
* The ledger does not protect attempts that overlap, nor a crash between the effect and its record.

The team's config is assumed not to change between attempts.

## 9. Planning

`StartGoal` and `AskRevision` are `start_goal` and `revise_goal_session`; `ProviderFails`, `NoJson` and
`Malformed` are what may go wrong in `invoke_provider` and `repair_planner_json`, with their retries and repairs;
`AnswersPlan` is `execution_plan_from_payload` up to the stored session, `AnswersDelta` is `apply_delta`, the laying of the goal on
the tasks (`Laid`: `with_goal_expected_artifacts`, `with_goal_quality_contract`) and the revision. `RunTask` runs a task and verifies it
by what it carries, `DecideTask` is `resume_goal_session`. Task lists are sequences, because the goal is laid on the last task. One process
drives; several are in `GoalRepair`.

`GoalIsVerified` and `PlannedRunEnds` name the ways out the code leaves:

* a person's approval;
* artifacts or a contract that a revision lays on a task which had completed: it is not run again
  (`docs/operations/env-and-live-smoke.md:141` speaks of the verifier's enforcement without this case);
* a last task that names no artifact: the judge has nothing to read and passes
  (`orchestration/verification.py:224`; `docs/architecture/40-orchestration.md:134` and the prompt in `cli_runtime.py:101` put the contract on the final task without this case);
* a delta that closes a cycle is stored, and every later run of the session raises
  (`docs/architecture/40-orchestration.md:95` says that cycles are rejected at construction; construction comes after the put);
* a QUEUED session whose tasks were all removed has nothing ready and cannot be completed.

Not modelled: the contract that a planner may write into `config.task_contract` itself, memory in the prompts, teams and agents of a plan, the tool
scope of a task beyond "malformed".

## 10. NodeExecution

One worker; `Open` and `CompleteSession` are the loop of `run_session`, `HarnessStep` is an answer of the model under either harness (`harness`: "drain" is
`HydraMindExecutionHarness`, "submit" the explicit-submit one), `ToolStep` one call of `execute_tool_round`, split at each of its control calls:
`LookUp`, `RecordStarted`, `RunTool` / `ToolFails` / `Reuse`, `RecordEffect`, `RecordCompleted` (the two puts of a row are `RecordTool`). `Verify` are the verifiers, `Report` is the gate function over
an evaluator of the host and the verifier feedback, with the apply intent. `Crash` may come between any two of them; the session is then delivered again
after the lease of the dead execution has expired. A tool stands for a call with fixed arguments, so node and tool are a fingerprint.

`UniqueIds = TRUE` assumes that the provider gives every call its own id. With empty ids all calls of an attempt share a row and `LedgerIsTruth` fails. What else the
model shows:

* a success is reused for read-only tools too (run `stale_answer`, section 16);
* required tools may have run in any attempt of any node, with any arguments;
* the outcome of a gate is the first that halts, else the first that passes; a comment in `gating/base.py` reads as if it were the first of all.

Not modelled: the team mode of the explicit-submit harness, context compaction, delegation to subagents, the dialogue with the semantic judge (its verdict is a choice). An evaluator that is not blocking and returns BLOCK all the
same raises `RuntimeError` (`gating/base.py:108`); the node then stands where a crash at that step leaves it, which is how the model has it.

## 11. ExecutionLease

Time passes in thirds of a second (`TimePasses`), since a heartbeat is due after a third of the ttl, one second at least and a minute at most
(`resolve_lease_heartbeat_interval_seconds`). `left` is what remains of `lease_expires_at` on the clock that wrote it; `Live(e, v)` compares it with the clock of
process `v` (`Offset`). A heartbeat is `HeartbeatReads` (get and check) and `HeartbeatPuts`, with the time between them (`lag`) and other puts between them (`fresh`,
`AgentPuts`, `OthersPut`), by which it loses its put. `Pick` is the head of `run_session` with the recovery of expired executions; `OpenExecution`,
`GrantExecutionLease` and `ReportExecution` are one step each, and so is what another process does in between. A process may die anywhere.

`KeptLeaseHolds` asks for a ttl of three seconds and clocks closer than two thirds of the ttl, and that no heartbeat was late (`late`) or lost its put
(`beating`). Neither can be dropped: a host that asks for a longer interval than the ttl, a tool that blocks the event loop, and a lost put all let a lease of a
working process run out. Of the code the model shows besides:

* after a heartbeat that failed none follows, and its exception replaces the report of an agent that succeeded (`orchestration/agent_execution.py:76`), so that the node fails;
* with a ttl of one second the heartbeat is due exactly when the lease is over;
* a report whose own execution has ended appends an execution and completes it.

## 12. QueuedRun

`CreateQueued` and `Publish` are `goal --enqueue-only`, two calls between which the client may die. A host is a process in `run_loop`: `Take`, `Build`
(the runtime of a delivery, with a projector more on the emitter when there is a trace), the outcome of the run (`Ends`, `Pauses`, `Raises`, `AlreadyEnded`), `Emit` (the
observers, of which a failing critical one raises after all were called), `Ack` / `Nack`, and the bounds of the loop in their order. The queue is what section 6 shows of the
adapters: `DeliveryExpires`, `Over` (budget and dead letters). A transient queue belongs to its process and has no budget. Memory is a store shared by the processes, as the SQLite
one is. `Restart` is a supervisor. `given` notes, for each process since it was started, the sessions whose message its nack dropped (`--no-retry-on-error`) or made a dead letter, `lost`
those whose episode it could not write: `CleanExit` says that an exit code of 0 means that both are empty. A message that the broker makes a dead letter because its delivery
expired is the broker's doing, and no process counts it as an error.

The episode of a session can be missing only if a process died, or the store failed, right after the put that ended the session: the delivery that follows finds it ended and emits
nothing. A client that dies between its two calls leaves a QUEUED session that nobody publishes. Not modelled: a cancellation of the session during the loop, the memory of agent turns.

## 13. ModelDialogue, ToolExecution

**ModelDialogue.** One model and what it is sent: `speaker` is a node executed directly or by a subagent, or a member of a team, `strategy` the harness.
`NodeAsks` / `MemberAsks` choose the tools (`tools_for_agent`), `ModelAnswers` is `parse_completion` with the names mapped back (`ToolNamed`), `ModelFails` the transport. What each
loop makes of an answer: `Submits`, `AnswersPlainly`, `Idles`, `ActsOnCalls`, `Unauthorized`, `OutOfTurns`. `Told` and `Noted` are the two places where the answer is written into the
dialogue: the handle of a member writes it as it comes, a node's loop writes what it acts on. `Wire` is `to_openai_messages`. A name is the sequence of its parts, so that a
number appended to make it unique (`Unique`) may collide with a tool that is called so. A name that was not sent is no tool's in the model; the code takes it as it is
written (`harness/openai_compatible_support.py:136`), so that it may be the tool's own name from before it was cleaned. No property depends on that: such a call is answered like any other.

A member under the explicit-submit harness is sent every call of its answers but the result of the first only
(`orchestration/collaboration_member_strategy.py:230`, `orchestration/subagent_spawn.py:128`), although its docstring says that it mirrors the loop of the
node, which trims the answer to one call. `EveryCallIsAnswered` says that it is the only loop that does.

**ToolExecution.** `Registry` is the table of `register_builtin_tools` with what a host registers. `Reuses` / `Refuses` are the ledger and the checks of
`run_tool_call`; the handlers `Writes`, `Reads`, `Lists`, `LooksFor`, `TellsTime`, `Searches`, `Generates` never await, so each is one step whatever the timeout is. A host's handler
has its effect before or after the timeout (`HostHandlerActs`, `HostHandlerEnds`). `process.run` is `StartsProcess`, the process on its own (`ProcessExits`, `ExitIsNoticed`,
`HolderEnds`: it may leave a process behind that holds its output), and the call (`ProcessReturns`, `TimeoutFires`, `CleanupEnds`, `CallIsCancelled`).

What the model shows, beside the properties:

* two calls that differ only in a URL or in an argument named like a secret are one call to the ledger (`tools/registry.py:295`): the second is told the first one's result;
* a call that is cancelled with its task leaves its process running;
* a failure may have had its effect: an image that was made and could not be fetched, a handler that was too slow. The model may try it again.

## 14. Runs

| Run | Instance | Shows |
|---|---|---|
| `session` | five sides: the store under 3 processes and 6 calls; the service under any caller, 1 node, 3 attempts, 2 gates; 2 callers of the service with 2 calls between them, from a new session and four on the way; client and 2 workers of 1 session, budget 2, 1 fault; the planner, 2 keys, 7 drafts, 10 deltas, 3 interventions | atomic calls, history and decisions; a true trace; one episode, clean exits, sessions settle; goals are verified and planned runs end |
| `shared_session` | 2 workers, chain of 2 nodes, 2 attempts, 1 gate, 1 fault, late decisions of any gate | order and failures under duplicate delivery, expired leases, a crash and late decisions |
| `single_writer` | 1 worker, fork of 3 nodes, 3 attempts, 2 gates, no fault | the documented mode: completion, gates, refinement, termination |
| `queue_adapters` | Redis: 2 workers, 1 session, budget 2, 1 cut or replay; in memory: 2 workers and a monitor, 2 sessions, budget 2, room for one message, 1 cancellation | nothing is lost, the budget, one place for every session, both queues come to rest |
| `goal_repair` | 2 processes, chain of 2 tasks and a third that may be added, 3 deltas, 1 repair, 1 event | plan and nodes agree, results stay fresh, the repair loop is bounded and ends |
| `durable_interaction` | 2 attempts, 2 members, all 6 protocols, 2 rounds of debate, 2 events, the first two turns make the same tool call | resumption, order, coherence, history, effects |
| `node_execution` | four sides: an episode of either harness, chain of 2 nodes, 2 tools, 2 rounds, 1 crash, 1 failing call, 1 decision; a lease under 2 processes, clocks 5 ticks apart, ttl 3 s, 2 executions; a dialogue in any loop, 3 tools with colliding names, 2 calls per answer, 2 turns; 2 calls of the built-in tools, a host's and unknown ones | true rows, no repeated effects, verified completion, an end; kept leases; answered calls; true results, no process left |
| `shared_completion`, `shared_lease`, `expired_report` | 2 workers, 1 node | the documentation's claims that the code does not keep (section 16) |
| `stale_handle` | 2 workers, 1 session, no cut | a claim of the queue's documentation the code does not keep (section 16) |
| `stale_answer` | the instance of `node_execution` | a claim about tools the code does not keep (section 16) |

Sides. A run with sides chooses one at the start; the variables of the others stay in their initial state, so the run explores the sum of the
sides and its properties are those of all of them. `EpisodeEnds` is `RunEnds` of the side that has an episode.

Bounds. `MaxAttempts` and `MaxGates` cut executions and gates per node: recovery, retry and
revision need two executions, an old and a late report a third; a stale decision
needs two gates. A run that would pass a bound is cut there (`AtBound`), and no lease expires past the last
attempt, so that the cut never poses as a deadlock or a livelock. One node is
enough for the service side: only recovery and terminal sessions touch several nodes
at once, and these are per-node independent; the proofs cover any number. A
chain gives dependency order (the theorems extend it to any blueprint), the fork two nodes ready at
once. Three processes
are one more than a conflict needs. `MaxFaults = 1` in `shared_session` places one crash anywhere;
the state after a crash is a state of the shared record alone, so further crashes
start from states of the same kind. Two workers on one message are what a reclaim needs, a budget of two has a retry and a dead letter, and
`MaxSize = 1` makes a put suspend; an unbounded queue behaves like a bounded one that is never full. One repair and one outside
event meet a second process; three tasks have a descendant that is not a child. Two events in `durable_interaction` give a
cut and an expired execution, or a lease and its recovery; `MaxTurns` is the longest protocol's, which cuts nothing off (`NoTurnIsCutOff`). In `QueuedRun` three iterations outlast the two deliveries of the budget, one idle cycle tells
an empty queue, two observers are what duplicates need (`MaxObservers`), and attempts past the budget are not told apart (`NextAttempt`). In `SessionEvents` two calls (`MaxServiceCalls`) are an overlap, or a call and what follows it; the four sessions on the way (a node that runs with a live or an expired lease, that is
completed, that waits at a gate) bring every call to a session in which it is legal. In `Planning` three
interventions are a revision, a decision and another revision; the drafts and deltas, one of a kind, are listed in `MCSession`. In `NodeExecution` two rounds have a
call and its repetition, a crash and a decision bring the node a second and a third execution. In `ExecutionLease` two executions are one that is lost and one that follows, and five ticks are
the most that `KeptLeaseHolds` allows at a ttl of three seconds; with six the property, without its premise, fails.

The runs reach from 530,000 (`session`) to 4,170,000 (`shared_session`) states, in one to three minutes each.

`session`, `queue_adapters`, `stale_handle`, `durable_interaction`, `node_execution` and `stale_answer` stop when their calls, messages, events or executions are used up, so deadlock is not checked
there; everywhere else it is.

Fairness. `EventuallyHalts`: weak fairness of each worker's own steps, since a
run is a coroutine that the event loop goes on with, and of `Deliver`, since a
worker that raises nacks its message and the queue delivers it again. The queue's
delivery budget is assumed to outlast the expired leases of a run, of which the bound
allows finitely many. Nobody is obliged to decide a gate or to cancel: halting
includes waiting for a decision.

`Drains` and `ComesToRest`: a worker polls again and again and its commands return (weak fairness of its steps), time passes (the
expiry of visibility), and the monitor goes on with a put it has begun. `RepairEnds`: a process goes on with its call, and the session is
delivered again while it is not halted; nobody is obliged to decide. `SessionsSettle`: the loops go on, a supervisor starts a process again, visibility ends; no client has to come
and no run has to succeed. `PlannedRunEnds`: a call of the planner's model returns or raises, and a session that can run is delivered; nobody is obliged to intervene. `EpisodeEnds`: the worker goes on, or
the session is delivered again after its death; the model is obliged to nothing.

Scope of the single-writer run. `docs/architecture/20-control-plane.md:99` states
"single-writer per session". Its properties fail with a second worker (section 16) and
with a fault between the puts of one operation: cut after `record_gate`, a pause is forgotten and
the node runs again past its gate; cut after `apply_gate_decision`, the node is
decided but the session waits for ever; cut before the lease grant, the node is RUNNING
without a lease, recovery passes it by, and the next delivery completes the session.
`PROJECT.json` lists these under hazards.

## 15. Proofs

Checked by TLAPS for every value of the constants.

* `SessionStoreProofs`. The invariant `Inv` adds to the checked `NoLostUpdate` that call numbers are private
  (`CallsPrivate`) and that no object is ahead of the row, while one level with it
  equals it plus the writer's own mutation (`CopiesFollow`): this is what makes the version check
  sufficient. From it: `StoreLosesNoUpdate`, `StoreAcceptsCurrent`,
  `DeletedStaysDeleted` (no deleted session comes back), `StoreIsAtomic` (refinement of `AtomicSession`).
* `SessionServiceProofs`. The conjunction `ServiceInv` of types, leases, successes, failures and decisions is inductive: a success is
  unique because a node leaves COMPLETED by no call but a revision, which notes its successes in `redone` and its approvals in `revoked`; this needs the legal moves
  (`NodeMoves`) and the numbering in `ServiceTypeOK`. From it: `ServiceTypeCorrect`,
  `LeasesAreOfRunning`, `OutcomesAreUnique`, `FailuresAreFinal`, `DecisionsAreBinding`, `HistoryStaysFrozen`.
  And those of `SessionEvents`: `TraceInv` adds that every event which is to come is true of the session, and that what the summary does not tell yet one of them
  will tell, but of a node in `untold` (`Agrees`); a `complete_node` or `fail_node` that has told the end of an execution and has not stored it is compared with the session of its put (`DueExecutions`, `DueLeases`).
  This needs calls that do not overlap (`AloneIsTold`); that an end which is told, or about to be, is the end of the session holds of any calls (`EndIsTold`), as a terminal session has no way out.
  The events of a recovery are in the order of the nodes; that they leave out none is the lemma `InOrder`: a finite set of numbers has one increasing enumeration. From it: `TraceIsTrue`. Every step of calls that overlap, lose their puts or are cut by an observer or a crash is, on the record, one call of
  `SessionService` or none (`OverlappingCallsAreCalls`: this needs that the second put of a call comes to a session that has ended, `NotesTheEnd`), so that what is proved of atomic calls holds of them: `OverlapKeepsHistory`.
* `ControlPlaneProofs`. Each action of the plane is shown to be a read or one service call on a node and an
  execution that exist (`PlaneImplementsService`: `Spec => ServiceSpec`), none of them a revision (`NothingTakenBack`, so that `PlaneDecisionsBind` states approvals without the exception), so the service's theorems hold of the plane, with any
  number of workers, nodes and faults. The invariant `ControlInv` adds to `ServiceInv` where each
  worker stands (`Placed`); `OrderInv` adds `TargetsReady`, that a worker's target keeps its requirements
  COMPLETED however long ago it was picked, which makes `DependencyOrder` inductive: a completed node
  is left by no call, and only the target of the worker that steps can begin. `PrivateInv` adds that the execution a worker has in hand is one of its target's
  (`ExecutionOf`), so that the next one, whose number is past them all, is nobody's; `GateInv` adds what a worker relies on between two calls of one intent (`Relies`: the gate it has
  recorded, the node it failed) and that nothing is decided on a gate that is not recorded. From them: `ControlTypes`,
  `NodesStartInOrder`, `PlaneDecisionsBind`, `ExecutionsArePrivate`, `OnlyDecisionsMove`, `FailedSessionsHaveFailedNode`.
* The second half of `ControlPlaneProofs` is about a single writer: the premise `SingleWriter(w)` is one worker, no call cut short, and decisions of the latest gate, while
  leases expire and operators cancel at any time. `SoloInv` says at each call which status the session and the worker's node can have (`SessionAt`, `NodeAt`), that all other nodes are
  QUEUED or COMPLETED (`Alone`), that the worker holds the latest execution of its node and its lease unless the session was cancelled (`Holding`), that between two runs nothing is
  under way but a gate or an expired execution (`Between`), and where the node of an open gate can be (`GateHeld`). Completion then finds no ready node with nothing under way,
  which means that every node is COMPLETED, as the graph has no cycle (`ExhaustedIsDone`). From it: `CompletionMeansDone`, `GatesHold`, `WaitingSessionsAreDecidable`. For the
  refinement, each step is one of five kinds (`SoloStep`), and a node that left QUEUED has an execution but for the one that is about to start (`Executed`), so that requeueing and
  recovery take nothing back from the abstract run: `RunsImplementWorkflowRun`, `Spec => WorkflowRun!Spec`.
* `RedisStreamQueueProofs`. `QueueInv` adds to the checked `NothingLost` where the entries are that workers hold (`Places`), that
  dead letters are known by their ids (`Letters`), and `Covered`: a stronger form of `NothingLost` in which neither an entry whose dead letter
  is already written nor a dead letter whose replay is already appended counts, so that removing them takes nothing away. From it: `NoMessageLost`.
  The budget of the stream (`BudgetInv`) is a matter of credits: an entry of attempt a is good for N - a more deliveries of it and of its retries, whether it is unread, claimed, about to be
  issued or on its way to be appended again (`Credit`). As long as no worker acts on an entry that was reclaimed from it each entry is worked on by one worker at most
  (`Exclusive`), so that a delivery spends a credit, an enqueue or a replay adds N at most and no other command makes one: deliveries plus credits stay below N times one more than the
  replays (`Bound`). That a dead letter had its N deliveries is `Earned`: with nothing cut short, the attempt in a message was delivered. From it: `StreamBudgetHolds`.
  For `InMemoryQueue`, `MemoryInv` says place by place that a session is queued, in flight, being put or a dead letter at most once and never in two of them (`Apart`), that it
  is in one unless it is gone (`Once`), and that the attempt in a message is the number of deliveries so far (`BudgetTold`); `OnePlace` and its sum of cardinalities follows. From it: `MemoryBudgetIsExact`, `SessionsAreInOnePlace`.
* `GoalRepairProofs`. The invariant adds to the checked properties that a node which runs, or was picked, or rests on a
  requirement that was sent back, is known to be outdated; and that the attempts of the budget are those reserved. That the
  descendants a revision sends back are closed under requires is a lemma on `Descendants`. From it: `PlanStaysInStep`, `ResultsStayFresh`, `RepairsAreBounded`, `GoalTypes`.
* `DurableInteractionProofs`. `HistoryStays` is a step property that needs the types only; `EffectsAreNotRepeated` needs that as long as no two
  attempts overlap at most one is active, so that the effects beyond the ledger are the spoiled ones and the one in hand. `TurnInv` adds to the checked
  `TurnsInOrder` that what an attempt has seeded is a prefix of the recorded turns and what it has in hand is the next one (`Following`), for attempts that overlap too; `ResumeInv` adds, for attempts that
  do not, that a turn on which a run was spent is known to whoever is active (`Knows`); `CoherentInv` adds that seeds are what is stored and messages were written from it (`Holds`). `HeardInv` adds to `TurnInv` that no turn is left (`NoneLeft`) once the interaction is COMPLETED or an attempt is about to complete it: what an
  attempt holds may be old, but if it names no turn after it then it is all there is, and with no turn left none becomes known (`NoneLeftStays`). That every member was heard then is counted:
  outside a debate the agents of the completed turns are an injection into the members, which is onto exactly when no turn is left; in a debate turn `r * n + k - 1` is the one of member k in round r (`TurnsOfProtocol`).
  From them: `TurnsStayInOrder`, `NoTurnIsCutOff`, `NoRecordedTurnIsRunAgain`, `ConversationIsCoherent`.
* `SessionStoreProofs` also holds those of `QueuedRun`. `RunInv` says of every process where it stands (`HostOk`: its delivery, what it has lost, why it left; `GivenUp`: what it dropped or made a dead letter is an error it counts), that nothing is published before it is created, and,
  with the process that is about to emit, that an ended session has its episode; that a projector writes once however often it runs is a lemma on `AppendOnce`. From it: `EverySessionHasItsEpisode`, `ExitCodesAreTrue`.
  And those of `Planning`: in `PlanInv` the plan that is stored has all of the goal laid on its tasks (`PlanStored`), a completed task that nothing excuses was looked at for all it asks for now (`Looked`), and the
  stage tells which nodes wait or failed (`StageTells`), so that a run which finds no ready task in an acyclic graph has completed all of them (`NoneIsLeft`). That `apply_delta` makes a list of tasks
  again, and that laying keeps the keys and adds what is missing, are the lemmas `EditedTasks` and `LaidTasks`. From it: `GoalsAreVerified`.
* `ExecutionLeaseProofs`. `LeaseInv` adds to the types where each process stands (`PlacedAt`: its execution exists and is its own, since executions are
  appended and keep their owners) and, for a kept lease, `KeptAt`: what is left is at least the ttl less what has passed of the interval, so it stays above the skew; a
  heartbeat under way that is not late has no lag. Another process spares a kept execution: it is live for that process too, so recovery leaves it, and the lease check of a
  report lets only its own latest execution pass. From it: `KeptLeases`, for any ttl, clocks, processes and nodes.
* `NodeExecutionProofs`. `EffectsInv` adds to the checked `EffectsAreNotRepeated` that the ledger has no success of the tool that is about to run or has just run, so that a
  success on its way to the ledger is the only one; a crash that cuts it off is counted in `cut`. From it: `NeverRepeated`, for empty call ids too. `LedgerInv` adds
  that the last row of the attempt belongs to the call in hand and is only STARTED (`RowInHand`), and that a result the episode takes for a success has been one (`ResultsAreReal`); with
  `UniqueIds` the rows are a sequence. From it: `LedgerIsAlwaysTruth`. `VerifiedInv` adds that, as long as nothing is approved, either every required tool has run or a node is left to
  complete; the last node to complete can leave none. With `LedgerInv`: `CompletedIsAlwaysVerified`, for any acyclic graph (`WorkflowGraph` refuses the others, `orchestration/graph.py:84`).
  For `ToolExecution`, `ToolInv` says what the entry of the call in hand may hold at each of its steps (`Awaits`), and that every fingerprint in the ledger is that of a success in the log. From it: `AgentsAreToldTheTruth`,
  `NoProcessOutlivesItsCall`.
  For `ModelDialogue`, `DialogueInv` is the property message by message (`Settled`), which each step that adds messages leaves to the ones before; only the answer
  that a member's handle has written and its loop has not acted on is exempt, the last message of the wire (`AwaitsResults`). From it: `CallsAreAnswered`, for any tools, names and answers.
  `ToolsAreFoundByName` is about `ProviderNames`: the names of an offer are distinct, because among more numbers than there are names one is free (`UniqueIsNew`), and `ToolNamed`
  takes each back to its tool. The wire and the names are recursive functions over a sequence; what they yield is shown without an induction theorem, by taking the least length at
  which it would fail (`LeastNumber`, from the well-foundedness of finite sets under inclusion).

Assumed: the `ASSUME` of each module (`BlueprintAssumption`: what a node requires are nodes, and every set of nodes has one that requires none of the set, since `WorkflowGraph` refuses cycles, `orchestration/graph.py:84`; `BoundsAssumption`,
`MaxCallsAssumption`, `EnvironmentAssumption`, `NoNodeAssumption`, `QueueAssumption`, `GoalAssumption`, `InteractionAssumption`, `MemoryAssumption`, `PlanningAssumption`, `ExecutionLeaseAssumption`, `NodeExecutionAssumption`, `ToolExecutionAssumption`, `QueuedRunAssumption`, `ServiceCallsAssumption`: a blueprint is finite); TLC evaluates them in the runs,
as it does `ModelDialogueAssumption`.

Proved and in no run: `PrivateExecutions` and `OnlyDecisionsMoveGates` of `ControlPlane`, `DeletedStaysDeleted`, `StoreAcceptsCurrent`, `FailuresAreFinal`,
`ToolsAreFoundByName`, `OverlappingCallsAreCalls`, `NoTurnIsCutOff`.

Model-checked only:

* liveness, which is outside the prover's reach: `EventuallyHalts`, `Drains`, `ComesToRest`, `RepairEnds`, `SessionsSettle`, `PlannedRunEnds`, `EpisodeEnds`;
* the five runs that disagree with the documentation (section 16).

## 16. Where the documentation and the code differ

* A delivery of a session whose node is RUNNING under another worker finds no
  ready node and records COMPLETED (`orchestration/agent.py:276`; the comment below it says
  "DAG exhausted"). Run `shared_completion`.
* Two deliveries can hold live leases on two executions of one node
  (`control/control_plane.py:107`); `tests/runtime/test_queue_idempotency.py:15` says a live lease
  blocks this. Run `shared_lease`.
* A report that comes after its expired execution was recovered is accepted as an
  unleased one (`control/control_reports.py:178`); `docs/architecture/20-control-plane.md:105` says
  it fails closed. Run `expired_report`.
* `ack` and `nack` compare the delivery token in one command and remove the entry in the next ones
  (`queue/redis_stream.py:121`); `docs/architecture/60-queue-adapter.md:85` says that stale handles become no-ops after
  redelivery. Run `stale_handle`.
* The success of a tool is reused for every later call of the same fingerprint and node, of a read-only tool too (`orchestration/agent_tools.py:196`): a path that was
  missing is told to be missing after it was written. `tools/builtin.py:136` says that the tool checks whether the path exists, and
  `docs/architecture/20-control-plane.md:183` that a reused result is evidence for this execution only. Run `stale_answer`.

Seen while modelling, without a run of their own:

* `docs/architecture/70-production-runtime.md:14` speaks of a bounded process loop, but the
  transient queue of `run_loop_with_transient_queue` (`runtime_queue.py:387`) has no delivery budget, so a session
  that always raises is retried until a limit of the loop, if one is given, ends it;
* the memory of an agent turn is keyed by its execution (`memory/projector.py:62`), so a turn that runs again is appended again;
* the versions of `MemoryWriteAuthority` start again with the process (`memory/ownership.py:12` calls them monotonically increasing);
* a workflow revision emits no event (`control/session_service.py:192`), so a trace shows a node COMPLETED that was sent back, until the node is called again;
* memory retrieval takes the latest `limit` entries of each query and then stops at `max_entries` counted
  from the oldest of them (`orchestration/memory_context.py:104-112`).

## 17. What is left

The three lease states of `SessionService` are an abstraction of `ExecutionLease` that is argued, not proved. It holds for processes whose clocks
agree; with clocks apart one process may see a lease live that another sees expired, which no single state of the lease stands for, and what
matters then (that a kept lease is live for everyone) is `KeptLeases`.

Not modelled, and why:

* Celery adapter: hands messages to an external broker.
* The route of a role to a model, the Claude SDK provider: configuration and an external SDK; what external services answer is left open.
* Governance: data contracts and judgements of content; control sees only their outcome.
* Facades, retrieval and turn entries of memory, the rest of observability: evidence and context for prompts, fed back into no status.
* The rest of the command line: arguments, output, `doctor`.
* Acceptance scripts and examples: they call what is modelled.
