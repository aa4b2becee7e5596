------------------------------- MODULE Planning -------------------------------
(***************************************************************************)
(* The plan of a goal session from the planner's model to the verifiers:      *)
(* ModelGoalPlanner asks for a plan or for a delta of it, with retries and    *)
(* repairs (planning.py, planning_invocation.py); what the model writes is     *)
(* checked and the goal's artifacts and quality contract are laid on its      *)
(* tasks (planning_payloads.py, planning_contracts.py); the revision is        *)
(* stored, and the tasks run and are verified by what they carry              *)
(* (verification.py).                                                         *)
(*                                                                          *)
(* One process drives the session here.  What several do to it, and the        *)
(* auto-repair loop that asks for revisions, are in GoalRepair.               *)
(***************************************************************************)
EXTENDS Naturals, Sequences, FiniteSets

CONSTANTS
  TaskKeys,          \* keys that plans may use
  Artifacts,         \* paths under the artifact root
  Drafts,            \* task lists the model may write for a plan
  Edits,             \* deltas it may write: [remove, update, add], sequences
  MaxInvokeRetries,  \* max_invoke_retries
  MaxJsonRepairs,    \* max_json_repairs: none, or any
  MaxInterventions   \* bound: revisions and decisions from outside

(* What the model writes of a task; the contract of the goal is not its to give *)
Draft == [key : TaskKeys, requires : SUBSET TaskKeys, artifacts : SUBSET Artifacts,
          judged : {FALSE}]

ASSUME PlanningAssumption ==
  /\ IsFiniteSet(TaskKeys) /\ IsFiniteSet(Artifacts)
  /\ Drafts \subseteq Seq(Draft)
  /\ Edits \subseteq [remove : Seq(TaskKeys), update : Seq(Draft), add : Seq(Draft)]
  /\ MaxInvokeRetries \in Nat /\ MaxJsonRepairs \in Nat /\ MaxInterventions \in Nat

VARIABLES
  goal,       \* GoalSpec: [artifacts, contract], contract: with a semantic rubric
  tasks,      \* ExecutionPlan.tasks of the session; judged: has the goal's contract
  stage,      \* RuntimeSession.status, "NONE" before the session is created
  work,       \* NodeState.status, "ABSENT" before a plan has the key
  files,      \* the artifacts that exist
  evidence,   \* the latest report of each node: what its verifiers looked at
  inquiry,    \* the call of the planner: [op, phase, tries]
  interventions,
  approved,   \* keys that are COMPLETED by a decision
  moved       \* keys COMPLETED before a revision laid more on their tasks

planVars == <<goal, tasks, stage, work, files, evidence, inquiry, interventions, approved,
              moved>>

NoInquiry == [op |-> "none", phase |-> "ask", tries |-> 0]
NoEvidence == [checked |-> {}, judged |-> FALSE]

PlanningInit ==
  /\ goal \in [artifacts : SUBSET Artifacts, contract : BOOLEAN]
  /\ tasks = <<>> /\ stage = "NONE"
  /\ work = [k \in TaskKeys |-> "ABSENT"]
  /\ files = {}
  /\ evidence = [k \in TaskKeys |-> NoEvidence]
  /\ inquiry = NoInquiry
  /\ interventions = 0
  /\ approved = {} /\ moved = {}

------------------------------------------------------------------------------
(* Task lists *)

Keys(ts) == {ts[n].key : n \in DOMAIN ts}
Named(ts) == UNION {ts[n].artifacts : n \in DOMAIN ts}
UniqueKeys(ts) == Cardinality(Keys(ts)) = Len(ts)
Chosen(ts, k) == ts[CHOOSE n \in DOMAIN ts : ts[n].key = k]

(* validate_requires, and validate_blueprint once more *)
KnownRequires(ts) == \A n \in DOMAIN ts : ts[n].requires \subseteq Keys(ts)

(* WorkflowGraph: a requirement that is no node, and a cycle, raise *)
Buildable(ts) ==
  /\ KnownRequires(ts)
  /\ \A S \in SUBSET DOMAIN ts :
       S # {} => \E n \in S : \A m \in S : ts[m].key \notin ts[n].requires

(* variant: what no task names is left out *)
AsDrafted(ts) == ts

(* with_goal_expected_artifacts: what no task names goes to the last one *)
WithGoalArtifacts(ts) ==
  [ts EXCEPT ![Len(ts)].artifacts = @ \cup (goal.artifacts \ Named(ts))]

(* with_goal_quality_contract: the last task has it; an earlier one keeps it *)
WithGoalContract(ts) == [ts EXCEPT ![Len(ts)].judged = @ \/ goal.contract]

(* A list may come out empty of a delta: then the goal must ask for nothing *)
Laid(ts) == IF ts = <<>> THEN ts ELSE WithGoalContract(WithGoalArtifacts(ts))
Layable(ts) == ts # <<>> \/ (goal.artifacts = {} /\ ~goal.contract)

------------------------------------------------------------------------------
(* What the model wrote *)

(* execution_plan_from_payload *)
PlanIsValid(ts) == ts # <<>> /\ UniqueKeys(ts) /\ KnownRequires(ts)

Elements(s) == {s[n] : n \in DOMAIN s}
Distinct(s) == Cardinality(Elements(s)) = Len(s)

(* the n-th of a finite set of numbers, and the last task of this key           *)
Nth(S, n) == CHOOSE i \in S : Cardinality({j \in S : j <= i}) = n
Latest(ts, k) ==
  LET same == {n \in DOMAIN ts : ts[n].key = k} IN ts[Nth(same, Cardinality(same))]

(* ExecutionPlan.apply_delta: the tasks that stay, in their order, of which one *)
(* that was updated has its last update, then the added ones.  A key that is     *)
(* removed and added stays in its place and comes again at the end.             *)
AfterEdit(ts, e) ==
  LET staying == {n \in DOMAIN ts : ts[n].key \notin Elements(e.remove) \ Keys(e.add)}
      Edited(t) == IF t.key \in Keys(e.add) THEN Chosen(e.add, t.key)
                   ELSE IF t.key \in Keys(e.update) THEN Latest(e.update, t.key)
                   ELSE t
  IN  [n \in 1..Cardinality(staying) |-> Edited(ts[Nth(staying, n)])] \o e.add

EditIsValid(ts, e) ==
  LET kept == Keys(ts) \ Elements(e.remove) IN
  /\ Distinct(e.remove) /\ Elements(e.remove) \subseteq Keys(ts)
  /\ Keys(e.update) \subseteq kept
  /\ UniqueKeys(e.add) /\ Keys(e.add) \cap kept = {}
  /\ KnownRequires(AfterEdit(ts, e)) /\ Layable(AfterEdit(ts, e))

Nothing(e) == e.remove = <<>> /\ e.update = <<>> /\ e.add = <<>>

------------------------------------------------------------------------------
(* The dialogue with the model *)

Asking == inquiry.op # "none"

(* start_goal; it may be called again after it raised *)
StartGoal ==
  /\ ~Asking /\ stage = "NONE"
  /\ inquiry' = [NoInquiry EXCEPT !.op = "initial"]
  /\ UNCHANGED <<goal, tasks, stage, work, files, evidence, interventions, approved, moved>>

(* revise_goal_session, whatever the status of the session *)
AskRevision ==
  /\ ~Asking /\ stage # "NONE" /\ interventions < MaxInterventions
  /\ interventions' = interventions + 1
  /\ inquiry' = [NoInquiry EXCEPT !.op = "revise"]
  /\ UNCHANGED <<goal, tasks, stage, work, files, evidence, approved, moved>>

(* the call goes on, or it raises: NoInquiry.  Nothing is stored. *)
Continue(next) ==
  /\ inquiry' = next
  /\ UNCHANGED <<goal, tasks, stage, work, files, evidence, interventions, approved, moved>>

(* invoke_provider: another attempt, or the failure is raised *)
ProviderFails ==
  /\ Asking
  /\ Continue(IF inquiry.tries < MaxInvokeRetries
           THEN [inquiry EXCEPT !.tries = @ + 1] ELSE NoInquiry)

(* repair_planner_json: once for each reason, and each has its own retries *)
Repairing(phase) == [inquiry EXCEPT !.phase = phase, !.tries = 0]

(* strict_json_object finds none *)
NoJson ==
  /\ Asking
  /\ Continue(IF inquiry.phase = "ask" /\ MaxJsonRepairs > 0
           THEN Repairing("json_repair") ELSE NoInquiry)

(* variant: another repair as long as the answer is not valid *)
RepairAgain == Continue(Repairing("semantic_repair"))

(* a payload that is not a plan or delta, of malformed fields or illegal content *)
NotValid ==
  Continue(IF inquiry.phase # "semantic_repair" /\ MaxJsonRepairs > 0
        THEN Repairing("semantic_repair") ELSE NoInquiry)

Malformed == Asking /\ NotValid

(* A valid plan becomes a session, unless its graph has a cycle: start_goal       *)
(* builds the agent first.                                                     *)
AnswersPlan(ts) ==
  /\ inquiry.op = "initial"
  /\ IF ~PlanIsValid(ts) THEN NotValid
     ELSE IF ~Buildable(ts) THEN Continue(NoInquiry)
     ELSE /\ tasks' = Laid(ts)
          /\ stage' = "QUEUED"
          /\ work' = [k \in TaskKeys |-> IF k \in Keys(ts) THEN "QUEUED" ELSE "ABSENT"]
          /\ inquiry' = NoInquiry
          /\ UNCHANGED <<goal, files, evidence, interventions, approved, moved>>

(* descendant_keys *)
Downstream(ts, roots) ==
  {k \in Keys(ts) :
     \A S \in SUBSET Keys(ts) :
       (\A n \in DOMAIN ts : ts[n].requires \cap (roots \cup S) # {} => ts[n].key \in S)
          => k \in S}

(* What apply_workflow_revision touches: only updated tasks count as changed, *)
(* not one that the goal's artifacts or its contract are laid on.              *)
Dropped(e, after) == Keys(tasks) \ Keys(after)
New(after) == Keys(after) \ Keys(tasks)
SentBack(e, after) ==
  (Keys(e.update) \cup Downstream(tasks, Keys(e.update) \cup Dropped(e, after)))
    \ Dropped(e, after)

IsLegal(e, after) ==
  /\ UniqueKeys(after) /\ KnownRequires(after)
  /\ \A k \in Dropped(e, after) : work[k] \notin {"PENDING_GATE", "FAILED"}
  /\ \A k \in New(after) \cup SentBack(e, after) : work[k] # "FAILED"

(* A valid delta is applied to the stored plan; one that the revision refuses   *)
(* raises, past the repairs.                                                   *)
AnswersDelta(e) ==
  LET after == Laid(AfterEdit(tasks, e))
      again == {k \in New(after) \cup SentBack(e, after) : work[k] # "PENDING_GATE"}
  IN
  /\ inquiry.op = "revise"
  /\ IF ~EditIsValid(tasks, e) THEN NotValid
     ELSE IF Nothing(e) \/ ~IsLegal(e, after) THEN Continue(NoInquiry)
     ELSE /\ tasks' = after
          /\ work' = [k \in TaskKeys |-> IF k \in Dropped(e, after) THEN "STALE"
                                         ELSE IF k \in again THEN "QUEUED" ELSE work[k]]
          /\ approved' = approved \ again
          /\ moved' = (moved \ again) \cup
                        {k \in Keys(after) \cap Keys(tasks) :
                           /\ work'[k] = "COMPLETED"
                           /\ Chosen(after, k) # Chosen(tasks, k)}
          /\ inquiry' = NoInquiry
          /\ UNCHANGED <<goal, stage, files, evidence, interventions>>

------------------------------------------------------------------------------
(* The run: _agent_for_session builds the graph of the plan, or raises *)

Runs == ~Asking /\ stage \in {"QUEUED", "RUNNING"} /\ Buildable(tasks)

IsReady(t) == work[t.key] = "QUEUED" /\ \A r \in t.requires : work[r] = "COMPLETED"

(* A task runs and leaves some files; its report goes through the verifiers:     *)
(* every artifact of its contract exists, and the judge, which reads the first   *)
(* of them that does, finds them good enough.  Without one it has nothing to read. *)
RunTask(t, left, good) ==
  /\ Runs /\ t \in Elements(tasks) /\ IsReady(t)
  /\ files' = left
  /\ LET judged == t.judged /\ t.artifacts \cap left # {}
         passed == t.artifacts \subseteq left /\ (judged => good)
     IN  /\ evidence' = [evidence EXCEPT ![t.key] =
                           [checked |-> t.artifacts \cap left, judged |-> judged]]
         /\ work' = [work EXCEPT ![t.key] = IF passed THEN "COMPLETED" ELSE "PENDING_GATE"]
         /\ stage' = IF passed THEN "RUNNING" ELSE "WAITING_GATE"
  /\ approved' = approved \ {t.key} /\ moved' = moved \ {t.key}
  /\ UNCHANGED <<goal, tasks, inquiry, interventions>>

TaskFails(t) ==
  /\ Runs /\ t \in Elements(tasks) /\ IsReady(t)
  /\ work' = [work EXCEPT ![t.key] = "FAILED"]
  /\ stage' = "FAILED"
  /\ UNCHANGED <<goal, tasks, files, evidence, inquiry, interventions, approved, moved>>

CompletePlan ==
  /\ Runs /\ stage = "RUNNING" /\ \A t \in Elements(tasks) : ~IsReady(t)
  /\ stage' = "COMPLETED"
  /\ UNCHANGED <<goal, tasks, work, files, evidence, inquiry, interventions, approved, moved>>

(* resume_goal_session builds the agent before the decision is applied *)
DecideTask(k, verdict) ==
  /\ ~Asking /\ stage = "WAITING_GATE" /\ work[k] = "PENDING_GATE" /\ Buildable(tasks)
  /\ interventions < MaxInterventions
  /\ interventions' = interventions + 1
  /\ work' = [work EXCEPT ![k] = IF verdict = "APPROVE" THEN "COMPLETED" ELSE "QUEUED"]
  /\ approved' = IF verdict = "APPROVE" THEN approved \cup {k} ELSE approved
  /\ stage' = "RUNNING"
  /\ UNCHANGED <<goal, tasks, files, evidence, inquiry, moved>>

PlannerStep ==
  \/ ProviderFails \/ NoJson \/ Malformed
  \/ \E ts \in Drafts : AnswersPlan(ts)
  \/ \E e \in Edits : AnswersDelta(e)

PlanRunStep ==
  \/ \E t \in Elements(tasks), left \in SUBSET Artifacts, good \in BOOLEAN :
       RunTask(t, left, good)
  \/ \E t \in Elements(tasks) : TaskFails(t)
  \/ CompletePlan

PlanningNext ==
  \/ StartGoal \/ AskRevision \/ PlannerStep \/ PlanRunStep
  \/ \E k \in TaskKeys, verdict \in {"APPROVE", "REVISE"} : DecideTask(k, verdict)

PlanningSpec == PlanningInit /\ [][PlanningNext]_planVars

------------------------------------------------------------------------------
(* Properties *)

(* the latest run of k was looked at, a person approved it, or it had completed *)
(* before its task came to carry this                                         *)
Excused(k) == k \in approved \cup moved

Verified ==
  /\ \A a \in goal.artifacts : \E t \in Elements(tasks) :
       a \in t.artifacts /\ (a \in evidence[t.key].checked \/ Excused(t.key))
  /\ goal.contract =>
       LET last == tasks[Len(tasks)] IN
       last.judged /\ (evidence[last.key].judged \/ Excused(last.key) \/ last.artifacts = {})

(* A session completes only with every expected artifact of the goal found by    *)
(* the latest run of a task that carries it, and with the goal's quality        *)
(* contract judged, through every repair of the planner's answer and every       *)
(* revision.  Excused are a person's approval, a revision that lays them on a     *)
(* task that had completed, and a last task that names no artifact to judge.     *)
GoalIsVerified == [][stage # "COMPLETED" /\ stage' = "COMPLETED" => Verified]_planVars

(* Whatever the model answers, each call of the planner ends, and a session that  *)
(* has a plan ends or waits for a person: no plan it stores stops the run, but one *)
(* that a delta gave a cycle, or took every task of before the first one ran       *)
(* (initial_plan, revise_plan, run_session).                                   *)
Cyclic(ts) == KnownRequires(ts) /\ ~Buildable(ts)
EmptyTooSoon == stage = "QUEUED" /\ tasks = <<>>

PlannedRunEnds ==
  /\ []<>~Asking
  /\ <>[]( \/ stage \in {"NONE", "WAITING_GATE", "COMPLETED", "FAILED"}
           \/ Cyclic(tasks) \/ EmptyTooSoon)
==============================================================================
