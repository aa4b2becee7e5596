----------------------------- MODULE MCGoalRepair -----------------------------
(* Instances of GoalRepair: a chain of three tasks and the revisions a        *)
(* planner may answer: redo the first task, drop it, drop or add the last.    *)
EXTENDS GoalRepair

CONSTANTS p1, p2

ChainKeys == 1..3
Chain == [k \in 1..2 |-> {m \in ChainKeys : m = k - 1}]

Only(k, requires) == [j \in {k} |-> requires]

RedoFirst == [NoDelta EXCEPT !.update = Only(1, {})]
DropFirst == [NoDelta EXCEPT !.update = Only(2, {}), !.remove = {1}]
AddLast == [NoDelta EXCEPT !.add = Only(3, {2})]

MCDeltas == {RedoFirst, DropFirst, AddLast}
MCGateKind == {"review", "tools"}
TwoProcesses == {p1, p2}
==============================================================================
