----------------------------- MODULE SessionEvents -----------------------------
(***************************************************************************)
(* What SessionService reports of the session, and what a reader of the trace *)
(* makes of it.  A service call gets the session, mutates its copy, puts it   *)
(* under its version (SessionStore.tla) and then emits its events one by one  *)
(* (control/session_observability.py), while other callers go on; complete_   *)
(* and fail_node report the end of the execution already before their put.    *)
(* What the put does to the session is the operation of SessionService.tla.   *)
(*                                                                          *)
(* An emission that raises (Emitter.emit, for a critical observer) ends the   *)
(* call where it is, with the event delivered; so does a crash, without it.   *)
(*                                                                          *)
(* The reader is trace_console.py: events are folded in the order of their    *)
(* emission into a summary.  The clock is read with the put.  No event tells  *)
(* of a workflow revision: where it moves a node, the trace stays behind.     *)
(***************************************************************************)
EXTENDS SessionService, Sequences

CONSTANTS
  Callers,         \* tasks and processes that call SessionService
  MaxServiceCalls  \* bound: calls that are explored

ASSUME ServiceCallsAssumption == IsFiniteSet(Nodes) /\ MaxServiceCalls \in Nat

VARIABLES
  version,   \* RuntimeSession.version
  begun,     \* calls begun so far
  request,      \* the call of each caller
  step,      \* where it is in its call
  copied,    \* the version of its copy
  pending,   \* the events it still has to emit at this step
  trace,     \* the summary of the events that were emitted
  alone,     \* no call has overlapped another
  whole,     \* the trace was recorded from the start, and no call was cut
  untold     \* nodes that a workflow revision moved, and no call that tells has since

eventVars == <<version, begun, request, step, copied, pending, trace, alone, whole, untold>>
reportVars == <<serviceVars, eventVars>>

None == "NONE"
NoServiceCall == [op |-> None]

------------------------------------------------------------------------------
(* The calls *)

ServiceCalls ==
  [op : {"session"}, to : SessionStatus]
  \cup [op : {"move"}, node : Nodes, to : {"RUNNING", "PENDING_GATE", "APPROVED", "NEEDS_REVISION"}]
  \cup [op : {"complete", "fail", "requeue", "start", "record"}, node : Nodes]
  \cup [op : {"report", "grant", "heartbeat", "release"}, node : Nodes, no : AttemptNos]
  \cup [op : {"decide"}, node : Nodes, gate : GateNos, action : DecisionAction]
  \cup [op : {"revise"}, removed : SUBSET Nodes, requeued : SUBSET Nodes]
  \cup [op : {"recover", "metadata"}]

(* heartbeat_execution_lease: only a live lease is prolonged *)
CanHeartbeat(n, i) == attempt[n][i] = "RUNNING" /\ lease[n][i] = "live"

Legal(c) ==
  \/ c.op = "session" /\ CanMarkSession(c.to)
  \/ c.op = "move" /\ CanMoveNode(c.node, c.to)
  \/ c.op = "complete" /\ CanMoveNode(c.node, "COMPLETED")
  \/ c.op = "fail" /\ CanMoveNode(c.node, "FAILED")
  \/ c.op = "requeue" /\ CanRequeueNode(c.node)
  \/ c.op = "start" /\ CanAppendAttempt(c.node)
  \/ c.op = "record" /\ CanRecordGate(c.node)
  \/ /\ c.op = "report" /\ c.no <= count[c.node]
     /\ attempt[c.node][c.no] = "RUNNING" \/ CanAppendAttempt(c.node)
  \/ c.op = "grant" /\ CanGrantLease(c.node, c.no)
  \/ c.op = "heartbeat" /\ CanHeartbeat(c.node, c.no)
  \/ c.op = "release" /\ CanReleaseLease(c.node, c.no)
  \/ /\ c.op = "decide" /\ c.gate <= gates[c.node]
     /\ CanMoveNode(c.node, DecisionTarget(c.action))
  \/ c.op = "recover" /\ \E n \in Nodes : Recoverable(n)
  \/ c.op = "revise" /\ CanRevise(c.removed, c.requeued)
  \/ c.op = "metadata"

Mutate(c) ==
  \/ c.op = "session" /\ MarkSession(c.to)
  \/ c.op = "move" /\ MoveNode(c.node, c.to)
  \/ c.op = "complete" /\ CompleteNode(c.node)
  \/ c.op = "fail" /\ FailNode(c.node)
  \/ c.op = "requeue" /\ RequeueNode(c.node)
  \/ c.op = "start" /\ StartAttempt(c.node)
  \/ c.op = "record" /\ RecordGate(c.node)
  \/ c.op = "report" /\ ConsumeAgentReport(c.node, c.no)
  \/ c.op = "grant" /\ GrantLease(c.node, c.no)
  \/ c.op = "release" /\ ReleaseLease(c.node, c.no)
  \/ c.op = "decide" /\ ApplyGateDecision(c.node, c.gate, c.action)
  \/ c.op = "recover" /\ RecoverExpired
  \/ c.op = "revise" /\ ApplyWorkflowRevision(c.removed, c.requeued)
  \/ c.op \in {"heartbeat", "metadata"} /\ UNCHANGED serviceVars

------------------------------------------------------------------------------
(* SessionEventReporter: the events of a request, as what they tell *)

SessionEvent(to) == [tells |-> "session", to |-> to]
NodeEvent(n, to) == [tells |-> "node", node |-> n, to |-> to]
ExecutionEvent(n, i, to) == [tells |-> "execution", node |-> n, no |-> i, to |-> to]
LeaseEvent(n, i, to) == [tells |-> "lease", node |-> n, no |-> i, to |-> to]
GateEvent(n) == [tells |-> "gate", node |-> n]
DecisionEvent(n, to) == [tells |-> "decision", node |-> n, to |-> to]

(* the end of the running execution, if there is one *)
EndEvents(n, to) == IF LatestRuns(n) THEN <<ExecutionEvent(n, count[n], to)>> ELSE <<>>

(* variant: the transition of a session is reported before it is stored *)
BeforeThePut(c) == IF c.op = "session" THEN <<SessionEvent(c.to)>> ELSE <<>>

(* what complete_node and fail_node emit before their put *)
EventsBefore(c) ==
  CASE c.op = "complete" -> EndEvents(c.node, "SUCCEEDED")
    [] c.op = "fail" -> EndEvents(c.node, "FAILED")
    [] OTHER -> <<>>

(* two events for each recovered node, in the order of the nodes               *)
RecoveryEvents ==
  LET found == {n \in Nodes : Recoverable(n)}
      nodes == CHOOSE f \in [1..Cardinality(found) -> found] :
                 \A j, k \in DOMAIN f : j < k => f[j] < f[k]
  IN  [k \in 1..(2 * Cardinality(found)) |->
        LET n == nodes[(k + 1) \div 2] IN
        IF k % 2 = 1 THEN ExecutionEvent(n, count[n], "ABORTED") ELSE NodeEvent(n, "QUEUED")]

(* start_attempt and start_node_execution each report the execution *)
StartEvents(n) ==
  LET started == ExecutionEvent(n, count[n] + 1, "RUNNING") IN <<started, started>>

(* what a call emits after its put; reports, revisions and metadata are silent,  *)
(* and a heartbeat tells nothing new                                          *)
EventsAfter(c) ==
  CASE c.op = "session" -> <<SessionEvent(c.to)>>
    [] c.op = "move" -> <<NodeEvent(c.node, c.to)>>
    [] c.op = "complete" -> <<NodeEvent(c.node, "COMPLETED")>>
    [] c.op = "fail" -> <<NodeEvent(c.node, "FAILED")>>
    [] c.op = "requeue" -> EndEvents(c.node, "ABORTED") \o <<NodeEvent(c.node, "QUEUED")>>
    [] c.op = "recover" -> RecoveryEvents
    [] c.op = "start" -> StartEvents(c.node)
    [] c.op \in {"grant", "heartbeat"} -> <<LeaseEvent(c.node, c.no, "live")>>
    [] c.op = "release" -> <<LeaseEvent(c.node, c.no, "none")>>
    [] c.op = "record" -> <<GateEvent(c.node)>>
    [] c.op = "decide" -> <<DecisionEvent(c.node, DecisionTarget(c.action))>>
    [] OTHER -> <<>>

(* the nodes whose status these events tell *)
NodesToTell(c) ==
  CASE c.op \in {"move", "complete", "fail", "requeue", "decide"} -> {c.node}
    [] c.op = "recover" -> {n \in Nodes : Recoverable(n)}
    [] OTHER -> {}

(* and those that are not told of then *)
LeftUntold(c) ==
  IF c.op = "revise" THEN untold \cup {n \in Nodes : node'[n] # node[n]}
  ELSE untold \ NodesToTell(c)

------------------------------------------------------------------------------
(* The reader: summarize_session and the timeline, event by event *)

ReadEvent(e) ==
  CASE e.tells = "session" ->
         [trace EXCEPT !.session = e.to,
                       !.terminal = IF e.to \in TerminalSession THEN e.to ELSE @,
                       !.leased = IF e.to \in TerminalSession THEN {} ELSE @]
    [] e.tells \in {"node", "decision"} -> [trace EXCEPT !.node[e.node] = e.to]
    [] e.tells = "execution" ->
         [trace EXCEPT !.execution[e.node][e.no] = e.to,
                       !.leased = @ \ {<<e.node, e.no>>}]
    [] e.tells = "lease" ->
         [trace EXCEPT !.leased = IF e.to = "live" THEN @ \cup {<<e.node, e.no>>}
                                                   ELSE @ \ {<<e.node, e.no>>}]
    [] e.tells = "gate" -> [trace EXCEPT !.gates[e.node] = @ + 1]

------------------------------------------------------------------------------
(* The steps of a call *)

(* a session on the way: every node and its one execution and lease stand alike, *)
(* and its first gates are undecided                                          *)
OnTheWay(s, n, a, l, g) ==
  /\ g <= MaxGates
  /\ session = s
  /\ node = [m \in Nodes |-> n]
  /\ count = [m \in Nodes |-> 1]
  /\ attempt = [m \in Nodes |-> [i \in AttemptNos |-> IF i = 1 THEN a ELSE None]]
  /\ lease = [m \in Nodes |-> [i \in AttemptNos |-> IF i = 1 THEN l ELSE "none"]]
  /\ gates = [m \in Nodes |-> g]
  /\ decision = [m \in Nodes |-> [i \in GateNos |-> IF i <= g THEN "UNDECIDED" ELSE None]]
  /\ noted = FALSE
  /\ redone = [m \in Nodes |-> {}]
  /\ revoked = [m \in Nodes |-> {}]

(* and what the trace then tells *)
Told ==
  [session |-> session, terminal |-> None, gates |-> gates, node |-> node,
   execution |-> attempt, leased |-> {p \in Nodes \X AttemptNos : lease[p[1]][p[2]] # "none"}]

EventsInit ==
  /\ \/ ServiceInit
     \/ OnTheWay("RUNNING", "RUNNING", "RUNNING", "live", 0)
     \/ OnTheWay("RUNNING", "RUNNING", "RUNNING", "expired", 0)
     \/ OnTheWay("RUNNING", "COMPLETED", "SUCCEEDED", "none", 0)
     \/ OnTheWay("WAITING_GATE", "PENDING_GATE", "RUNNING", "none", 1)
  /\ trace = Told
  /\ version = 1 /\ begun = 0
  /\ request = [w \in Callers |-> NoServiceCall]
  /\ step = [w \in Callers |-> "idle"]
  /\ copied = [w \in Callers |-> 0]
  /\ pending = [w \in Callers |-> <<>>]
  /\ alone = TRUE /\ whole \in BOOLEAN /\ untold = {}

AllReturned == \A w \in Callers : step[w] = "idle"

Return(w) ==
  /\ step' = [step EXCEPT ![w] = "idle"]
  /\ request' = [request EXCEPT ![w] = NoServiceCall]
  /\ copied' = [copied EXCEPT ![w] = 0]
  /\ pending' = [pending EXCEPT ![w] = <<>>]

(* get_session; a call that is not legal raises here *)
GetSession(w, c) ==
  /\ step[w] = "idle" /\ begun < MaxServiceCalls /\ Legal(c)
  /\ begun' = begun + 1
  /\ step' = [step EXCEPT ![w] = "got"]
  /\ request' = [request EXCEPT ![w] = c]
  /\ copied' = [copied EXCEPT ![w] = version]
  /\ pending' = [pending EXCEPT ![w] = EventsBefore(c)]
  /\ alone' = (alone /\ AllReturned)
  /\ UNCHANGED <<serviceVars, version, trace, whole, untold>>

EmitEvent(w) ==
  /\ pending[w] # <<>>
  /\ trace' = ReadEvent(Head(pending[w]))
  /\ pending' = [pending EXCEPT ![w] = Tail(@)]
  /\ UNCHANGED <<serviceVars, version, begun, request, step, copied, alone, whole, untold>>

PutSession(w) ==
  /\ step[w] = "got" /\ pending[w] = <<>> /\ version = copied[w]
  /\ Mutate(request[w])
  /\ version' = version + 1
  /\ step' = [step EXCEPT ![w] = "put"]
  /\ copied' = [copied EXCEPT ![w] = version + 1]
  /\ pending' = [pending EXCEPT ![w] = EventsAfter(request[w])]
  /\ untold' = LeftUntold(request[w])
  /\ UNCHANGED <<begun, request, trace, alone, whole>>

(* complete_session with a summary and fail_session put once more *)
MayNote(c) == c.op = "session" /\ c.to \in {"COMPLETED", "FAILED"}
MustNote(c) == c.op = "session" /\ c.to = "FAILED"

PutNote(w) ==
  /\ step[w] = "put" /\ pending[w] = <<>> /\ MayNote(request[w]) /\ version = copied[w]
  /\ NoteOutcome
  /\ version' = version + 1
  /\ Return(w)
  /\ UNCHANGED <<begun, trace, alone, whole, untold>>

Finish(w) ==
  /\ step[w] = "put" /\ pending[w] = <<>> /\ ~MustNote(request[w])
  /\ Return(w)
  /\ UNCHANGED <<serviceVars, version, begun, trace, alone, whole, untold>>

(* SessionStoreConflictError at either put, or a transition that the clock has  *)
(* made illegal                                                               *)
RaiseError(w) ==
  /\ pending[w] = <<>>
  /\ \/ step[w] = "got" /\ (version # copied[w] \/ ~Legal(request[w]))
     \/ step[w] = "put" /\ MayNote(request[w]) /\ version # copied[w]
  /\ Return(w)
  /\ UNCHANGED <<serviceVars, version, begun, trace, alone, whole, untold>>

(* CriticalObserverError: the event has reached the other observers           *)
ObserverFails(w) ==
  /\ pending[w] # <<>>
  /\ trace' = ReadEvent(Head(pending[w]))
  /\ whole' = FALSE
  /\ Return(w)
  /\ UNCHANGED <<serviceVars, version, begun, alone, untold>>

CallIsCut(w) ==
  /\ step[w] # "idle"
  /\ whole' = FALSE
  /\ Return(w)
  /\ UNCHANGED <<serviceVars, version, begun, trace, alone, untold>>

ClockTicks ==
  /\ \E n \in Nodes, i \in AttemptNos : ExpireLease(n, i)
  /\ UNCHANGED eventVars

EventsNext ==
  \/ \E w \in Callers : \E c \in ServiceCalls : GetSession(w, c)
  \/ \E w \in Callers :
       EmitEvent(w) \/ PutSession(w) \/ PutNote(w) \/ Finish(w) \/ RaiseError(w)
       \/ ObserverFails(w) \/ CallIsCut(w)
  \/ ClockTicks

EventsSpec == EventsInit /\ [][EventsNext]_reportVars

------------------------------------------------------------------------------
(* Properties *)

(* The trace is evidence of the session.  Whatever overlaps and is cut, it never *)
(* tells an end that the session does not have, nor two of them; once every call *)
(* has returned it tells the end of a session that has ended.  Of calls that did *)
(* not overlap and were not cut it tells the status of the session, of every     *)
(* node that no workflow revision has moved since its last call, the gates, the  *)
(* status of every execution that it knows, and which of them are leased.       *)
TraceTellsTheSession ==
  /\ trace.terminal # None => session = trace.terminal
  /\ AllReturned /\ whole /\ session \in TerminalSession => trace.terminal = session
  /\ AllReturned /\ whole /\ alone =>
       /\ trace.session = session
       /\ \A n \in Nodes :
            /\ trace.node[n] = node[n] \/ n \in untold
            /\ trace.gates[n] = gates[n]
            /\ \A i \in AttemptNos :
                 /\ trace.execution[n][i] \in {None, attempt[n][i]}
                 /\ <<n, i>> \in trace.leased <=> lease[n][i] # "none"
==============================================================================
