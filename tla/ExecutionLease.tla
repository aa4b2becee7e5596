---------------------------- MODULE ExecutionLease ----------------------------
(***************************************************************************)
(* The lease of a node execution in time: its ttl, the heartbeat that renews  *)
(* it beside the agent (orchestration/agent_execution.py), the clocks of the   *)
(* processes that write and judge lease_expires_at, and the version check     *)
(* through which a heartbeat may lose its put.  ControlPlane.tla knows of a    *)
(* lease only whether it is live; here it is live for somebody.               *)
(*                                                                          *)
(* Time passes in thirds of a second, as the heartbeat is due after a third   *)
(* of the ttl.  A heartbeat is a get and a later put.  Everything else, the    *)
(* opening of an execution and the report among it, is one step: their calls   *)
(* are in ControlPlane.tla.  No node waits for another one, so several         *)
(* processes work on the session at once, as they do after a second delivery. *)
(***************************************************************************)
EXTENDS Integers, Sequences

CONSTANTS
  Owners,          \* processes that run the session with an execution_owner
  LeaseNodes,      \* nodes, numbered in topological order
  Ttl,             \* lease_ttl_seconds
  Offset,          \* by how much the clock of a process is ahead
  MaxSkew,         \* by how much two clocks differ at most
  MaxExecutions    \* bound: executions per node

ASSUME ExecutionLeaseAssumption ==
  /\ LeaseNodes \subseteq Nat
  /\ Ttl \in Nat \ {0} /\ MaxSkew \in Nat /\ MaxExecutions \in Nat
  /\ Offset \in [Owners -> Int]
  /\ \A v, w \in Owners : Offset[v] - Offset[w] <= MaxSkew

VARIABLES
  over,      \* the session is COMPLETED or FAILED
  state,     \* NodeState.status
  execs,     \* the node's attempts, and what is left of their leases
  phase,     \* what each process does
  job, no,   \* the node and the number of its execution
  due,       \* until the next heartbeat
  lag,       \* since the get of the heartbeat under way
  beating,   \* no heartbeat of this execution has failed
  late,      \* a heartbeat of this execution was delayed
  fresh      \* processes whose copy of the session is the stored one

leaseVars == <<over, state, execs, phase, job, no, due, lag, beating, late, fresh>>
runOf == <<job, no, due, lag, beating, late>>

PerSecond == 3   \* ticks
LeaseTime == Ttl * PerSecond

(* resolve_lease_heartbeat_interval_seconds: max(1.0, min(ttl / 3, 60)); a host  *)
(* may ask for another interval, as none in the repository does                *)
Interval ==
  IF Ttl < PerSecond THEN PerSecond ELSE IF Ttl > 60 * PerSecond THEN 60 * PerSecond ELSE Ttl

NoNodeYet == -1

LeaseInit ==
  /\ over = FALSE
  /\ state = [n \in LeaseNodes |-> "QUEUED"]
  /\ execs = [n \in LeaseNodes |-> <<>>]
  /\ phase = [w \in Owners |-> "idle"]
  /\ job = [w \in Owners |-> NoNodeYet] /\ no = [w \in Owners |-> 0]
  /\ due = [w \in Owners |-> 0] /\ lag = [w \in Owners |-> 0]
  /\ beating = [w \in Owners |-> TRUE] /\ late = [w \in Owners |-> FALSE]
  /\ fresh = {}

(* a put: every other copy is stale *)
Put == fresh' = {}

------------------------------------------------------------------------------
(* Leases.  lease_expires_at is written by the clock of the owner and compared  *)
(* with the clock of the process that looks at it.                             *)

(* is_execution_lease_live *)
Live(e, w) == e.leased /\ e.left + Offset[e.owner] - Offset[w] > 0

Leased(e, time) ==
  [owner |-> e.owner, running |-> e.running, leased |-> TRUE, left |-> time]

(* clear_execution_lease *)
Cleared(e) == [owner |-> e.owner, running |-> e.running, leased |-> FALSE, left |-> 0]
Over(e) == [owner |-> e.owner, running |-> FALSE, leased |-> FALSE, left |-> 0]

Last(n) == execs[n][Len(execs[n])]

(* recover_expired_node_execution_leases *)
Abandoned(n, w) ==
  /\ state[n] = "RUNNING" /\ execs[n] # <<>>
  /\ Last(n).running /\ Last(n).leased /\ ~Live(Last(n), w)

(* a terminal session: clear_session_execution_leases *)
SessionEnds(after) ==
  /\ over' = TRUE
  /\ execs' = [n \in LeaseNodes |-> [i \in 1..Len(after[n]) |-> Cleared(after[n][i])]]

------------------------------------------------------------------------------
(* A process at the head of its loop *)

Recovery(w) ==
  [n \in LeaseNodes |->
     IF Abandoned(n, w) THEN [execs[n] EXCEPT ![Len(execs[n])] = Over(@)] ELSE execs[n]]

Startable(w) == {n \in LeaseNodes : state[n] = "QUEUED" \/ Abandoned(n, w)}

(* recover_expired_node_executions, ready_nodes and, when there are none,        *)
(* record_session_complete                                                     *)
Pick(w) ==
  /\ phase[w] = "idle" /\ ~over
  /\ state' = [n \in LeaseNodes |-> IF Abandoned(n, w) THEN "QUEUED" ELSE state[n]]
  /\ fresh' = IF Startable(w) = {} \/ \E n \in LeaseNodes : Abandoned(n, w)
              THEN {} ELSE fresh
  /\ \/ \E n \in Startable(w) :
          /\ \A m \in Startable(w) : n <= m
          /\ job' = [job EXCEPT ![w] = n] /\ phase' = [phase EXCEPT ![w] = "open"]
          /\ execs' = Recovery(w) /\ over' = over
     \/ Startable(w) = {} /\ SessionEnds(execs) /\ UNCHANGED <<job, phase>>
  /\ UNCHANGED <<no, due, lag, beating, late>>

(* the run ends, or goes on at the head of the loop *)
Leaves(w, where) ==
  /\ phase' = [phase EXCEPT ![w] = where]
  /\ job' = [job EXCEPT ![w] = NoNodeYet] /\ no' = [no EXCEPT ![w] = 0]
  /\ due' = [due EXCEPT ![w] = 0] /\ lag' = [lag EXCEPT ![w] = 0]
  /\ beating' = [beating EXCEPT ![w] = TRUE] /\ late' = [late EXCEPT ![w] = FALSE]

(* the call raises; the session may be delivered again *)
Raises(w) == Leaves(w, "idle") /\ UNCHANGED <<over, state, execs, fresh>>

(* open_node_execution: one more execution, whatever has become of the node *)
OpenExecution(w) ==
  /\ phase[w] = "open"
  /\ \/ over /\ Raises(w)
     \/ /\ ~over /\ Len(execs[job[w]]) < MaxExecutions
        /\ state' = [state EXCEPT ![job[w]] = IF @ = "QUEUED" THEN "RUNNING" ELSE @]
        /\ execs' = [execs EXCEPT ![job[w]] =
             Append(@, [owner |-> w, running |-> TRUE, leased |-> FALSE, left |-> 0])]
        /\ no' = [no EXCEPT ![w] = Len(execs[job[w]]) + 1]
        /\ phase' = [phase EXCEPT ![w] = "grant"]
        /\ Put /\ UNCHANGED <<over, job, due, lag, beating, late>>

Own(w) == execs[job[w]][no[w]]

(* grant_execution_lease; the agent and its heartbeat begin *)
GrantExecutionLease(w) ==
  /\ phase[w] = "grant"
  /\ \/ ~Own(w).running /\ Raises(w)
     \/ /\ Own(w).running
        /\ execs' = [execs EXCEPT ![job[w]][no[w]] = Leased(@, LeaseTime)]
        /\ phase' = [phase EXCEPT ![w] = "work"]
        /\ due' = [due EXCEPT ![w] = Interval]
        /\ Put /\ UNCHANGED <<over, state, job, no, lag, beating, late>>

------------------------------------------------------------------------------
(* invoke_with_lease_heartbeat *)

(* a put of the agent: a tool row, a turn, a message *)
AgentPuts(w) ==
  /\ phase[w] = "work" /\ Put
  /\ UNCHANGED <<over, state, execs, phase, runOf>>

(* assert_execution_lease on the session that the heartbeat has read; when it    *)
(* raises there is no further heartbeat                                        *)
HeartbeatReads(w) ==
  /\ phase[w] = "work" /\ beating[w] /\ due[w] = 0
  /\ IF Own(w).running /\ Live(Own(w), w)
     THEN /\ phase' = [phase EXCEPT ![w] = "beat"] /\ lag' = [lag EXCEPT ![w] = 0]
          /\ fresh' = fresh \cup {w} /\ UNCHANGED beating
     ELSE beating' = [beating EXCEPT ![w] = FALSE] /\ UNCHANGED <<phase, lag, fresh>>
  /\ UNCHANGED <<over, state, execs, job, no, due, late>>

(* variant: the heartbeat is noted, the expiry is not moved *)
NotRenewed(w) == Own(w).left

(* lease_expires_at = now + ttl, as of the read *)
Renewed(w) == LeaseTime - lag[w]

HeartbeatPuts(w) ==
  /\ phase[w] = "beat"
  /\ phase' = [phase EXCEPT ![w] = "work"]
  /\ IF w \in fresh
     THEN /\ execs' = [execs EXCEPT ![job[w]][no[w]] = Leased(@, Renewed(w))]
          /\ due' = [due EXCEPT ![w] = Interval]
          /\ Put /\ UNCHANGED beating
     ELSE beating' = [beating EXCEPT ![w] = FALSE] /\ UNCHANGED <<execs, due, fresh>>
  /\ lag' = [lag EXCEPT ![w] = 0]
  /\ UNCHANGED <<over, state, job, no, late>>

(* the agent is done; a heartbeat under way is waited for *)
AgentEnds(w) ==
  /\ phase[w] = "work"
  /\ phase' = [phase EXCEPT ![w] = "report"]
  /\ UNCHANGED <<over, state, execs, runOf, fresh>>

------------------------------------------------------------------------------
(* The report: open_runtime_decision *)

(* _assert_report_execution_lease *)
LeaseAccepts(w) ==
  \/ ~Last(job[w]).leased
  \/ no[w] = Len(execs[job[w]]) /\ Live(Last(job[w]), w)

Accepts(w) == ~over /\ state[job[w]] \in {"QUEUED", "RUNNING"} /\ LeaseAccepts(w)

EndLast(n) == [execs EXCEPT ![n][Len(execs[n])] = IF @.running THEN Over(@) ELSE @]

(* The exception of a heartbeat takes the place of the report.  Of an output, an *)
(* execution that does not run any more gets a new one, which ends at once and  *)
(* is left out.                                                               *)
ReportExecution(w, failed) ==
  /\ phase[w] = "report" /\ (beating[w] \/ failed)
  /\ IF ~Accepts(w) THEN Raises(w)
     ELSE /\ Leaves(w, "idle") /\ Put
          /\ IF failed
             THEN /\ state' = [state EXCEPT ![job[w]] = "FAILED"]
                  /\ SessionEnds(EndLast(job[w]))
             ELSE /\ state' = [state EXCEPT ![job[w]] = "COMPLETED"]
                  /\ execs' = IF Own(w).running THEN EndLast(job[w]) ELSE execs
                  /\ over' = over

------------------------------------------------------------------------------
(* Time and the rest of the world *)

(* past MaxSkew a lease is over for everyone *)
Elapsed(e) == IF e.leased /\ e.left > -MaxSkew THEN [e EXCEPT !.left = @ - 1] ELSE e

Busy(w) == phase[w] \in {"work", "beat", "report"}

(* A heartbeat that is due and not put within the tick is late: a tool that blocks *)
(* the event loop, a paused process, a store that does not answer.               *)
TimePasses ==
  /\ execs' = [n \in LeaseNodes |-> [i \in 1..Len(execs[n]) |-> Elapsed(execs[n][i])]]
  /\ due' = [w \in Owners |-> IF Busy(w) /\ due[w] > 0 THEN due[w] - 1 ELSE due[w]]
  /\ late' = [w \in Owners |-> late[w] \/ (Busy(w) /\ due[w] = 0)]
  /\ lag' = [w \in Owners |-> IF phase[w] = "beat" /\ lag[w] < LeaseTime + MaxSkew
                              THEN lag[w] + 1 ELSE lag[w]]
  /\ UNCHANGED <<over, state, phase, job, no, beating, fresh>>

Dies(w) ==
  /\ phase[w] # "dead"
  /\ Leaves(w, "dead")
  /\ UNCHANGED <<over, state, execs, fresh>>

(* another call on the session: an event, a message, a lease of a turn *)
OthersPut ==
  /\ fresh # {} /\ Put
  /\ UNCHANGED <<over, state, execs, phase, runOf>>

OwnerStep(w) ==
  \/ Pick(w) \/ OpenExecution(w) \/ GrantExecutionLease(w)
  \/ AgentPuts(w) \/ HeartbeatReads(w) \/ HeartbeatPuts(w) \/ AgentEnds(w)
  \/ \E failed \in BOOLEAN : ReportExecution(w, failed)
  \/ Dies(w)

LeaseNext == (\E w \in Owners : OwnerStep(w)) \/ TimePasses \/ OthersPut

LeaseSpec == LeaseInit /\ [][LeaseNext]_leaseVars

------------------------------------------------------------------------------
(* Properties *)

(* a process that lives, whose heartbeats were on time and lost no put *)
Kept(w) == Busy(w) /\ beating[w] /\ ~late[w]

(* While the session goes on, the execution of such a process still runs and     *)
(* its lease is live in the eyes of every process, so nobody recovers it and no   *)
(* report of another execution passes for its own, however many deliveries,       *)
(* expired leases and late reports there are beside it.  Clocks may differ by      *)
(* less than two thirds of the ttl, and the ttl has three seconds at least.        *)
KeptLeaseHolds ==
  Ttl >= 3 /\ MaxSkew < 2 * Ttl /\ ~over =>
    \A w \in Owners : Kept(w) =>
      Own(w).running /\ \A v \in Owners : Live(Own(w), v)
==============================================================================
