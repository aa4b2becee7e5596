------------------------------ MODULE WorkflowRun ------------------------------
(***************************************************************************)
(* What a run of a workflow promises, with no executions, leases, gates or  *)
(* service calls: nodes start in dependency order, each ends at most once,  *)
(* and the run completes when, and only when, all of them are done.         *)
(***************************************************************************)
CONSTANTS Nodes, Requires

VARIABLES
  phase,      \* of the session: "open", "completed", "failed", "cancelled"
  started,    \* nodes that have been started
  done,       \* nodes that completed
  failed      \* nodes that failed

vars == <<phase, started, done, failed>>

Init == phase = "open" /\ started = {} /\ done = {} /\ failed = {}

(* a cancelled run may still finish the node its worker is in *)
Unfinished == phase \in {"open", "cancelled"}

Start(n) ==
  /\ Unfinished /\ n \notin started /\ Requires[n] \subseteq done
  /\ started' = started \cup {n}
  /\ UNCHANGED <<phase, done, failed>>

Finish(n) ==
  /\ Unfinished /\ n \in started \ (done \cup failed)
  /\ done' = done \cup {n}
  /\ UNCHANGED <<phase, started, failed>>

Fail(n) ==
  /\ Unfinished /\ n \in started \ (done \cup failed)
  /\ failed' = failed \cup {n}
  /\ UNCHANGED <<phase, started, done>>

Complete == done = Nodes /\ phase' = "completed"
GiveUp == failed # {} /\ phase' = "failed"
Cancel == phase' = "cancelled"

End ==
  /\ phase = "open"
  /\ Complete \/ GiveUp \/ Cancel
  /\ UNCHANGED <<started, done, failed>>

Next == End \/ \E n \in Nodes : Start(n) \/ Finish(n) \/ Fail(n)

Spec == Init /\ [][Next]_vars
==============================================================================
