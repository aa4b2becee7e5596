------------------------------- MODULE MCSession -------------------------------
(* The session from five sides: the row of the store under three processes;   *)
(* the service on top of it under arbitrary callers, where each put is one     *)
(* step; what overlapping service calls report; the processes that create,     *)
(* deliver and end it; and the plan it is made of.  Only a terminal session and *)
(* recovery touch several nodes at once, so one node with several executions   *)
(* and gates shows the interplay of the calls.                                *)
EXTENDS SessionStore, SessionEvents, QueuedRun, Planning

VARIABLE side   \* the side that is explored

Processes == 1..3
MCNodes == {1}
MCRequires == [n \in MCNodes |-> {}]
OneId == {"session"}
TwoHosts == 1..2

(* Plans of up to two tasks, one artifact.  Among them: no task, a key twice, a    *)
(* requirement that is no task, a cycle, an artifact that the last task does not  *)
(* name; deltas that do nothing, add, redo, drop, drop all, close a cycle, remove *)
(* and add one key.                                                           *)
PlanKeys == 1..2
Task(k, requires, artifacts) ==
  [key |-> k, requires |-> requires, artifacts |-> artifacts, judged |-> FALSE]
First == Task(1, {}, {})
Second == Task(2, {1}, {})
MCDrafts ==
  {<<>>, <<First>>, <<First, Second>>, <<Task(1, {}, {"post"}), Second>>,
   <<First, First>>, <<Second>>, <<Task(1, {2}, {}), Second>>}
Edit(remove, update, add) == [remove |-> remove, update |-> update, add |-> add]
MCEdits ==
  {Edit(<<>>, <<>>, <<>>), Edit(<<>>, <<First>>, <<>>), Edit(<<>>, <<>>, <<Second>>),
   Edit(<<>>, <<>>, <<Task(2, {1}, {"post"})>>), Edit(<<2>>, <<>>, <<>>),
   Edit(<<1>>, <<Task(2, {}, {})>>, <<>>), Edit(<<1>>, <<>>, <<>>), Edit(<<1, 2>>, <<>>, <<>>),
   Edit(<<>>, <<Task(1, {2}, {})>>, <<>>), Edit(<<1>>, <<>>, <<First>>)}

AnyGoal == [artifacts |-> {}, contract |-> FALSE]

AnyConfig ==
  [source |-> "broker", retry |-> TRUE, traced |-> FALSE, iterations |-> 0, idle |-> 0]

SessionInit ==
  /\ side \in {"store", "service", "events", "worker", "planner"}
  /\ Init /\ EventsInit /\ QueuedRunInit /\ PlanningInit
  /\ side # "events" => ServiceInit
  /\ whole = (side = "events")
  /\ side # "worker" => config = AnyConfig
  /\ side # "planner" => goal = AnyGoal

SessionNext ==
  \/ side = "store" /\ Next /\ UNCHANGED <<side, reportVars, runVars, planVars>>
  \/ side = "service" /\ ServiceNext /\ UNCHANGED <<side, vars, eventVars, runVars, planVars>>
  \/ side = "events" /\ EventsNext /\ UNCHANGED <<side, vars, runVars, planVars>>
  \/ side = "worker" /\ QueuedRunNext /\ UNCHANGED <<side, vars, reportVars, planVars>>
  \/ side = "planner" /\ PlanningNext /\ UNCHANGED <<side, vars, reportVars, runVars>>

(* Processes go on, a supervisor restarts them, visibility ends.  A client may    *)
(* stay away and nobody has to stop or kill a process.                          *)
Poll(h) == side = "worker" /\ HostStep(h)
Revive(h) == side = "worker" /\ Restart(h)
TimePasses == side = "worker" /\ \E d \in flight : DeliveryExpires(d)
Answers == side = "planner" /\ PlannerStep
Delivers == side = "planner" /\ PlanRunStep

SessionSpec ==
  /\ SessionInit /\ [][SessionNext]_<<side, vars, reportVars, runVars, planVars>>
  /\ \A h \in TwoHosts : WF_runVars(Poll(h)) /\ WF_runVars(Revive(h))
  /\ WF_runVars(TimePasses)
  /\ WF_planVars(Answers) /\ WF_planVars(Delivers)
==============================================================================
