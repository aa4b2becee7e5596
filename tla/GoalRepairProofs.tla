--------------------------- MODULE GoalRepairProofs ---------------------------
(* For any plans, any answers of the planner, any number of processes and     *)
(* any number of crashes: auto-repair stays within its budget, and the plan   *)
(* and the nodes of the session agree.                                        *)
EXTENDS GoalRepair, FiniteSetTheorems, TLAPS

USE GoalAssumption

Steps == {"idle", "agent", "top", "complete", "open", "run", "repair", "plan",
          "revise", "decide", "apply"}

HandType ==
  [task : Keys \cup {NoKey}, kind : GateKind \cup {"review"},
   decision : Action \cup {"none"}, repairing : BOOLEAN, auto : BOOLEAN,
   approve : BOOLEAN, delta : Deltas \cup {NoDelta}, base : Plans \cup {NoPlan},
   inputs : [Keys -> Nat]]

(* A process in the loop has an agent; a revision applies to the plan that it *)
(* was made for.                                                              *)
Equipped(p) ==
  /\ pc[p] \in {"top", "complete", "open", "run", "decide", "apply"} => agent[p] \in Plans
  /\ pc[p] = "revise" => /\ hand[p].base \in Plans /\ hand[p].delta \in Deltas
                         /\ Applies(hand[p].base, hand[p].delta)

LocalTypes ==
  /\ pc \in [Processes -> Steps]
  /\ agent \in [Processes -> Plans \cup {NoPlan}]
  /\ hand \in [Processes -> HandType]
  /\ \A p \in Processes : Equipped(p)

GhostTypes == version \in [Keys -> Nat] /\ repairs \in Nat /\ lost \in BOOLEAN

Types == TypeOK /\ LocalTypes /\ GhostTypes

(* the processes that hold a reserved attempt                                 *)
Holders == {p \in Processes : hand[p].auto}

(* Every applied repair and every attempt in hand was reserved.               *)
AttemptsReserved == repairs + Cardinality(Holders) <= used

------------------------------------------------------------------------------
(* Types *)

LEMMA HandIsTyped == Hand \in HandType
  BY DEF Hand, HandType, NoInputs

(* a revised plan is a plan, and its nodes that are sent back are tasks of it *)
LEMMA RevisedIsPlan ==
  ASSUME NEW p \in Plans, NEW d \in Deltas, Applies(p, d)
  PROVE  /\ Revised(p, d) \in Plans
         /\ Requeued(p, Revised(p, d), DOMAIN d.update) \subseteq
              DOMAIN p \cap DOMAIN Revised(p, d)
<1> DEFINE K == (DOMAIN p \ d.remove) \cup DOMAIN d.add
           requires(k) == IF k \in DOMAIN d.add THEN d.add[k]
                          ELSE IF k \in DOMAIN d.update THEN d.update[k] ELSE p[k]
<1>1. /\ d.add \in Plans /\ d.update \in Plans /\ d.remove \subseteq Keys
      /\ DOMAIN d.update \subseteq DOMAIN p \ d.remove
  BY DEF Applies
<1>2. /\ DOMAIN p \subseteq Keys /\ \A k \in DOMAIN p : p[k] \subseteq Keys
      /\ DOMAIN d.add \subseteq Keys /\ \A k \in DOMAIN d.add : d.add[k] \subseteq Keys
      /\ \A k \in DOMAIN d.update : d.update[k] \subseteq Keys
  BY <1>1 DEF Plans
<1>3. K \in SUBSET Keys /\ \A k \in K : requires(k) \in SUBSET Keys
  BY <1>2
<1>4. [k \in K |-> requires(k)] \in [K -> SUBSET Keys]
  BY <1>3
<1>5. Revised(p, d) = [k \in K |-> requires(k)]
  BY DEF Revised
<1>6. Revised(p, d) \in Plans /\ DOMAIN Revised(p, d) = K
  BY <1>3, <1>4, <1>5 DEF Plans
<1>7. DOMAIN d.update \cup Descendants(p, DOMAIN d.update \cup Removed(p, Revised(p, d)))
        \subseteq DOMAIN p
  BY <1>1 DEF Descendants
<1>8. QED
  BY <1>6, <1>7 DEF Requeued, Removed

LEMMA InitTypes == Init => Types
<1> SUFFICES ASSUME Init PROVE Types
  OBVIOUS
<1>1. TypeOK
  BY DEF Init, TypeOK, NodeStatus
<1>2. LocalTypes
  BY HandIsTyped DEF Init, LocalTypes, Steps, Equipped
<1>3. GhostTypes
  BY DEF Init, GhostTypes, NoInputs
<1>4. QED
  BY <1>1, <1>2, <1>3 DEF Types

(* a process that moves to another step, and may change what it holds         *)
LEMMA MoveTypes ==
  ASSUME LocalTypes, NEW p \in Processes, NEW step \in Steps, Goto(p, step),
         NEW g \in Plans \cup {NoPlan}, agent' = [agent EXCEPT ![p] = g],
         NEW h \in HandType, hand' = [hand EXCEPT ![p] = h],
         step \in {"top", "complete", "open", "run", "decide", "apply"} => g \in Plans,
         step = "revise" =>
           h.base \in Plans /\ h.delta \in Deltas /\ Applies(h.base, h.delta)
  PROVE  LocalTypes'
<1>1. /\ pc' \in [Processes -> Steps]
      /\ agent' \in [Processes -> Plans \cup {NoPlan}]
      /\ hand' \in [Processes -> HandType]
  BY DEF LocalTypes, Goto
<1>2. pc'[p] = step /\ agent'[p] = g /\ hand'[p] = h
  BY DEF LocalTypes, Goto
<1>3. \A q \in Processes \ {p} :
        pc'[q] = pc[q] /\ agent'[q] = agent[q] /\ hand'[q] = hand[q]
  BY DEF LocalTypes, Goto
<1>4. Equipped(p)'
  BY <1>2 DEF Equipped, Applies
<1>5. ASSUME NEW q \in Processes \ {p} PROVE Equipped(q)'
  BY <1>3, <1>5 DEF LocalTypes, Equipped, Applies
<1>6. QED
  BY <1>1, <1>4, <1>5 DEF LocalTypes

(* a call returns, or goes on with the next node *)
LEMMA LeaveTypes ==
  ASSUME LocalTypes, NEW p \in Processes,
         Return(p) \/ (GoOn(p) /\ agent[p] \in Plans)
  PROVE  LocalTypes'
<1>1. agent' = [agent EXCEPT ![p] = agent[p]]
  BY DEF LocalTypes, Return, GoOn
<1>2. agent[p] \in Plans \cup {NoPlan}
  BY DEF LocalTypes
<1>3. CASE Return(p)
  BY <1>1, <1>2, <1>3, HandIsTyped, MoveTypes, "idle" \in Steps DEF Return, Steps
<1>4. CASE GoOn(p) /\ agent[p] \in Plans
  <2> DEFINE h == [Hand EXCEPT !.repairing = hand[p].repairing]
  <2>1. h \in HandType
    BY HandIsTyped DEF LocalTypes, HandType
  <2>2. hand' = [hand EXCEPT ![p] = h] /\ Goto(p, "top") /\ "top" \in Steps
    BY <1>4 DEF GoOn, Steps
  <2>3. QED
    BY <1>1, <1>2, <1>4, <2>1, <2>2, MoveTypes
<1>5. QED
  BY <1>3, <1>4

LEMMA StartTypes ==
  ASSUME Types, NEW p \in Processes,
         Begin(p) \/ Restart(p) \/ AgentForSession(p) \/ Stop(p) \/ ReviseGoalSession(p) \/ Crash(p)
  PROVE  Types'
<1>0. /\ pc[p] \in Steps /\ hand[p] \in HandType
      /\ agent[p] \in Plans \cup {NoPlan}
      /\ pc[p] \in {"top", "complete", "open", "run", "decide", "apply"} => agent[p] \in Plans
      /\ LocalTypes
  BY DEF Types, LocalTypes, Equipped
<1>a. agent = [agent EXCEPT ![p] = agent[p]] /\ hand = [hand EXCEPT ![p] = hand[p]]
  BY DEF Types, LocalTypes
<1> HIDE GoalAssumption
<1>1. CASE Begin(p)
  <2> DEFINE h == [hand[p] EXCEPT !.repairing = TRUE]
  <2>1. h \in HandType
    BY <1>0 DEF HandType
  <2>2. hand' = [hand EXCEPT ![p] = h]
    BY <1>1 DEF Begin, Types, LocalTypes
  <2>3. /\ Goto(p, "agent") /\ "agent" \in Steps
        /\ agent' = [agent EXCEPT ![p] = agent[p]]
    BY <1>1, <1>a DEF Begin, Steps
  <2> HIDE DEF h
  <2>4. LocalTypes'
    BY <1>0, <2>1, <2>2, <2>3, MoveTypes
  <2>5. QED
    BY <1>1, <2>4 DEF Begin, Types, TypeOK, GhostTypes, durable, ghosts
<1>2. CASE Restart(p)
  <2>1. Goto(p, "idle")
    BY <1>2 DEF Restart, At, Goto, Types, LocalTypes
  <2>2. LocalTypes'
    BY <1>0, <1>a, <1>2, <2>1, MoveTypes, "idle" \in Steps DEF Restart, Types, Steps
  <2>3. QED
    BY <1>2, <2>2 DEF Restart, Types, TypeOK, GhostTypes, durable, ghosts
<1>3. CASE AgentForSession(p)
  <2> DEFINE g == IF agent[p] = NoPlan THEN plan ELSE agent[p]
  <2>1. g \in Plans /\ agent' = [agent EXCEPT ![p] = g]
    BY <1>0, <1>3 DEF AgentForSession, Types, TypeOK, LocalTypes
  <2>2. LocalTypes'
    BY <1>0, <1>a, <1>3, <2>1, MoveTypes, "top" \in Steps, "decide" \in Steps
       DEF AgentForSession, Types, Steps
  <2>3. QED
    BY <1>3, <2>2 DEF AgentForSession, Types, TypeOK, GhostTypes, durable, ghosts
<1>4. CASE Stop(p)
  <2>1. LocalTypes'
    BY <1>0, <1>4, LeaveTypes DEF Stop
  <2>2. QED
    BY <1>4, <2>1 DEF Stop, Types, TypeOK, GhostTypes, durable, ghosts
<1>5. CASE ReviseGoalSession(p)
  <2>1. LocalTypes'
    BY <1>0, <1>a, <1>5, MoveTypes, "plan" \in Steps DEF ReviseGoalSession, Types, Steps
  <2>2. QED
    BY <1>5, <2>1 DEF ReviseGoalSession, Types, TypeOK, GhostTypes, durable, ghosts
<1>6. CASE Crash(p)
  <2>1. LocalTypes'
    BY <1>0, <1>a, <1>6, HandIsTyped, MoveTypes, "idle" \in Steps DEF Crash, Types, Steps
  <2>2. QED
    BY <1>6, <2>1 DEF Crash, Types, TypeOK, GhostTypes, durable, ghosts
<1>7. QED
  BY <1>1, <1>2, <1>3, <1>4, <1>5, <1>6

LEMMA RunTypes ==
  ASSUME Types, NEW p \in Processes,
         \/ Top(p) \/ Complete(p) \/ Open(p) \/ ReportComplete(p) \/ ReportFail(p)
         \/ \E kind \in GateKind : ReportPause(p, kind)
  PROVE  Types'
<1>0. /\ pc[p] \in Steps /\ hand[p] \in HandType
      /\ agent[p] \in Plans \cup {NoPlan}
      /\ pc[p] \in {"top", "complete", "open", "run", "decide", "apply"} => agent[p] \in Plans
      /\ LocalTypes
  BY DEF Types, LocalTypes, Equipped
<1>a. agent = [agent EXCEPT ![p] = agent[p]] /\ hand = [hand EXCEPT ![p] = hand[p]]
  BY DEF Types, LocalTypes
<1> HIDE GoalAssumption
<1>1. CASE Top(p)
  <2>1. TypeOK'
    BY <1>1 DEF Top, Types, TypeOK, NodeStatus
  <2>2. LocalTypes'
    <3>1. CASE Goto(p, "complete") /\ UNCHANGED hand
      BY <1>0, <1>a, <1>1, <3>1, MoveTypes, "complete" \in Steps DEF Top, At, Types, Steps
    <3>2. ASSUME NEW k \in Ready(agent[p], node'),
                 hand' = [hand EXCEPT ![p].task = k, ![p].inputs =
                   [r \in Keys |-> IF r \in agent[p][k] THEN version[r] ELSE 0]],
                 Goto(p, "open")
          PROVE  LocalTypes'
      <4> DEFINE h == [hand[p] EXCEPT !.task = k, !.inputs =
                   [r \in Keys |-> IF r \in agent[p][k] THEN version[r] ELSE 0]]
      <4>1. k \in Keys /\ agent[p] \in Plans
        BY <1>0, <1>1 DEF Top, At, Ready, Plans
      <4>2. [r \in Keys |-> IF r \in agent[p][k] THEN version[r] ELSE 0] \in [Keys -> Nat]
        BY DEF Types, GhostTypes
      <4>3. h \in HandType
        BY <1>0, <4>1, <4>2 DEF HandType
      <4>4. hand' = [hand EXCEPT ![p] = h]
        BY <3>2 DEF Types, LocalTypes
      <4>5. QED
        BY <1>0, <1>a, <1>1, <3>2, <4>1, <4>3, <4>4, MoveTypes, "open" \in Steps DEF Top, Types, Steps
    <3>3. QED
      BY <1>1, <3>1, <3>2 DEF Top
  <2>3. QED
    BY <1>1, <2>1, <2>2 DEF Top, Types, GhostTypes, ghosts
<1>2. CASE Complete(p)
  <2>1. LocalTypes'
    BY <1>0, <1>2, LeaveTypes DEF Complete
  <2>2. QED
    BY <1>2, <2>1 DEF Complete, Types, TypeOK, GhostTypes, Terminal, ghosts
<1>3. CASE Open(p)
  <2>1. TypeOK'
    BY <1>3 DEF Open, Types, TypeOK, Started, NodeStatus
  <2>2. LocalTypes'
    BY <1>0, <1>a, <1>3, MoveTypes, "run" \in Steps DEF Open, At, Types, Steps
  <2>3. QED
    BY <1>3, <2>1, <2>2 DEF Open, Types, GhostTypes, ghosts
<1>4. CASE ReportComplete(p)
  <2>1. TypeOK' /\ GhostTypes'
    <3>1. version' \in [Keys -> Nat]
      <4> DEFINE k == hand[p].task
      <4>1. version' = [version EXCEPT ![k] = version[k] + 1]
        BY <1>4 DEF ReportComplete
      <4>2. version \in [Keys -> Nat]
        BY DEF Types, GhostTypes
      <4> HIDE DEF k
      <4>3. k \in Keys => version[k] + 1 \in Nat
        BY <4>2
      <4>4. QED
        BY <4>1, <4>2, <4>3
    <3>2. TypeOK'
      BY <1>4 DEF ReportComplete, Types, TypeOK, NodeStatus
    <3>3. QED
      BY <1>4, <3>1, <3>2 DEF ReportComplete, Types, GhostTypes
  <2>2. LocalTypes'
    <3>1. GoOn(p) /\ agent[p] \in Plans
      BY <1>0, <1>4 DEF ReportComplete, At
    <3>2. QED
      BY <1>0, <3>1, LeaveTypes
  <2>3. QED
    BY <2>1, <2>2 DEF Types
<1>5. CASE ReportFail(p)
  <2>1. TypeOK' /\ GhostTypes'
    BY <1>5 DEF ReportFail, Types, TypeOK, GhostTypes, NodeStatus, Terminal, ghosts
  <2>2. LocalTypes'
    BY <1>0, <1>5, LeaveTypes DEF ReportFail
  <2>3. QED
    BY <2>1, <2>2 DEF Types
<1>6. ASSUME NEW kind \in GateKind, ReportPause(p, kind)
      PROVE  Types'
  <2>1. TypeOK' /\ GhostTypes'
    BY <1>6 DEF ReportPause, Types, TypeOK, GhostTypes, NodeStatus
  <2>2. LocalTypes'
    <3>1. CASE Return(p)
      BY <1>0, <3>1, LeaveTypes
    <3>2. CASE /\ hand' = [hand EXCEPT ![p].kind = kind]
               /\ Goto(p, "repair") /\ UNCHANGED agent
      <4> DEFINE h == [hand[p] EXCEPT !.kind = kind]
      <4>1. h \in HandType
        BY <1>0 DEF HandType
      <4>2. hand' = [hand EXCEPT ![p] = h]
        BY <3>2 DEF Types, LocalTypes
      <4>3. /\ Goto(p, "repair") /\ "repair" \in Steps
            /\ agent' = [agent EXCEPT ![p] = agent[p]]
        BY <1>a, <3>2 DEF Steps
      <4> HIDE DEF h
      <4>4. QED
        BY <1>0, <4>1, <4>2, <4>3, MoveTypes
    <3>3. QED
      BY <1>6, <3>1, <3>2 DEF ReportPause
  <2>3. QED
    BY <2>1, <2>2 DEF Types
<1>7. QED
  BY <1>1, <1>2, <1>3, <1>4, <1>5, <1>6

LEMMA RepairTypes ==
  ASSUME Types, NEW p \in Processes,
         Reserve(p) \/ DeclineRepair(p) \/ PlanChange(p) \/ PlanNoChange(p) \/ Revise(p)
  PROVE  Types'
<1>0. /\ pc[p] \in Steps /\ hand[p] \in HandType
      /\ agent[p] \in Plans \cup {NoPlan}
      /\ pc[p] \in {"top", "complete", "open", "run", "decide", "apply"} => agent[p] \in Plans
      /\ LocalTypes
  BY DEF Types, LocalTypes, Equipped
<1>a. agent = [agent EXCEPT ![p] = agent[p]] /\ hand = [hand EXCEPT ![p] = hand[p]]
  BY DEF Types, LocalTypes
<1> HIDE GoalAssumption
<1>1. CASE Reserve(p)
  <2> DEFINE h == [hand[p] EXCEPT !.auto = TRUE, !.approve = TRUE]
  <2>1. h \in HandType /\ hand' = [hand EXCEPT ![p] = h]
    BY <1>0, <1>1 DEF Reserve, HandType, LocalTypes
  <2>2. /\ Goto(p, "plan") /\ "plan" \in Steps
        /\ agent' = [agent EXCEPT ![p] = agent[p]]
    BY <1>1, <1>a DEF Reserve, Steps
  <2> HIDE DEF h
  <2>3. LocalTypes'
    BY <1>0, <2>1, <2>2, MoveTypes
  <2>4. QED
    BY <1>1, <2>3, GoalAssumption DEF Reserve, Types, TypeOK, GhostTypes, ghosts
<1>2. CASE DeclineRepair(p)
  <2>1. LocalTypes'
    BY <1>0, <1>2, LeaveTypes DEF DeclineRepair
  <2>2. QED
    BY <1>2, <2>1 DEF DeclineRepair, Types, TypeOK, GhostTypes, durable, ghosts
<1>3. CASE PlanChange(p)
  <2>1. ASSUME NEW d \in Deltas, Applies(plan, d), Goto(p, "revise"), UNCHANGED agent,
               hand' = [hand EXCEPT ![p].delta = d, ![p].base = plan]
        PROVE  LocalTypes'
    <3> DEFINE h == [hand[p] EXCEPT !.delta = d, !.base = plan]
    <3>1. plan \in Plans
      BY DEF Types, TypeOK
    <3>2. h \in HandType /\ hand' = [hand EXCEPT ![p] = h]
      BY <1>0, <2>1, <3>1 DEF HandType, LocalTypes
    <3>3. h.base = plan /\ h.delta = d
      BY <1>0 DEF HandType
    <3>4. /\ Goto(p, "revise") /\ "revise" \in Steps
          /\ agent' = [agent EXCEPT ![p] = agent[p]]
      BY <1>a, <2>1 DEF Steps
    <3>5. h.base \in Plans /\ h.delta \in Deltas /\ Applies(h.base, h.delta)
      BY <2>1, <3>1, <3>3
    <3> HIDE DEF h
    <3>6. QED
      BY <1>0, <3>2, <3>4, <3>5, MoveTypes
  <2>2. LocalTypes'
    BY <1>0, <1>3, <2>1, LeaveTypes DEF PlanChange
  <2>3. QED
    BY <1>3, <2>2 DEF PlanChange, Types, TypeOK, GhostTypes, durable, ghosts
<1>4. CASE PlanNoChange(p)
  <2>1. ASSUME Goto(p, "agent"), agent' = agent, hand' = hand
        PROVE  LocalTypes'
    <3> DEFINE g == agent[p]
               h == hand[p]
    <3>1. /\ "agent" \in Steps /\ Goto(p, "agent")
          /\ agent' = [agent EXCEPT ![p] = g] /\ hand' = [hand EXCEPT ![p] = h]
          /\ g \in Plans \cup {NoPlan} /\ h \in HandType
      BY <1>0, <1>a, <2>1 DEF Steps
    <3> HIDE DEF g, h
    <3>2. QED
      BY <1>0, <3>1, MoveTypes
  <2>2. Return(p) => LocalTypes'
    BY <1>0, LeaveTypes
  <2>3. LocalTypes'
    BY <1>4, <2>1, <2>2 DEF PlanNoChange
  <2>4. QED
    BY <1>4, <2>3 DEF PlanNoChange, Types, TypeOK, GhostTypes, durable, ghosts
<1>5. CASE Revise(p)
  <2> DEFINE h == hand[p]
             q == Revised(h.base, h.delta)
  <2>1. CASE ~Legal(h.base, q, DOMAIN h.delta.update) /\ Return(p)
                /\ UNCHANGED <<durable, repairs, lost>>
    <3>1. LocalTypes'
      BY <1>0, <2>1, LeaveTypes
    <3>2. QED
      BY <1>5, <2>1, <3>1 DEF Revise, Types, TypeOK, GhostTypes, durable
  <2>2. CASE ApplyWorkflowRevision(h.base, q, DOMAIN h.delta.update)
               /\ agent' = [agent EXCEPT ![p] = NoPlan]
               /\ repairs' = (IF h.auto THEN repairs + 1 ELSE repairs)
               /\ lost' = (lost \/ h.base # plan)
    <3>1. h.base \in Plans /\ h.delta \in Deltas /\ Applies(h.base, h.delta)
      BY <1>5 DEF Revise, At, Types, LocalTypes, Equipped
    <3>2. plan' \in Plans
      BY <2>2, <3>1, RevisedIsPlan DEF ApplyWorkflowRevision
    <3>3. node' \in [Keys -> NodeStatus]
      BY <2>2 DEF ApplyWorkflowRevision, AfterRemoval, AfterRequeue, Types, TypeOK, NodeStatus
    <3>4. TypeOK' /\ GhostTypes'
      BY <1>5, <2>2, <3>2, <3>3 DEF Revise, ApplyWorkflowRevision, Types, TypeOK, GhostTypes
    <3>5. ASSUME NEW g \in HandType, hand' = [hand EXCEPT ![p] = g],
                 NEW step \in {"agent", "idle"}, Goto(p, step)
          PROVE  LocalTypes'
      <4>1. step \in Steps /\ NoPlan \in Plans \cup {NoPlan}
        BY DEF Steps
      <4>2. QED
        BY <1>0, <2>2, <3>5, <4>1, MoveTypes
    <3>6. CASE h.auto \/ h.decision = "REPLAN"
      <4> DEFINE g == [h EXCEPT !.auto = FALSE, !.delta = NoDelta, !.base = NoPlan,
                         !.decision = IF ApproveCurrent(h) THEN "APPROVE" ELSE "REPLAN"]
      <4>1. g \in HandType
        BY <1>0 DEF HandType, Action
      <4>2. hand' = [hand EXCEPT ![p] = g] /\ Goto(p, "agent")
        BY <1>5, <2>2, <3>6 DEF Revise, LocalTypes, Legal, ApplyWorkflowRevision
      <4> HIDE DEF g
      <4>3. QED
        BY <3>4, <3>5, <4>1, <4>2 DEF Types
    <3>7. CASE ~(h.auto \/ h.decision = "REPLAN")
      <4>1. hand' = [hand EXCEPT ![p] = Hand] /\ Goto(p, "idle")
        BY <1>5, <2>2, <3>7 DEF Revise, ApplyWorkflowRevision
      <4>2. QED
        BY <3>4, <3>5, <4>1, HandIsTyped DEF Types
    <3>8. QED
      BY <3>6, <3>7
  <2>3. QED
    BY <1>5, <2>1, <2>2 DEF Revise
<1>6. QED
  BY <1>1, <1>2, <1>3, <1>4, <1>5

LEMMA DecideTypes ==
  ASSUME Types, NEW p \in Processes,
         \/ Decide(p) \/ ApplyRequeue(p) \/ ApplyComplete(p) \/ ApplyFail(p)
         \/ \E k \in Keys, a \in Action, approved \in BOOLEAN : Resume(p, k, a, approved)
  PROVE  Types'
<1>0. /\ pc[p] \in Steps /\ hand[p] \in HandType
      /\ agent[p] \in Plans \cup {NoPlan}
      /\ pc[p] \in {"top", "complete", "open", "run", "decide", "apply"} => agent[p] \in Plans
      /\ LocalTypes
  BY DEF Types, LocalTypes, Equipped
<1>a. agent = [agent EXCEPT ![p] = agent[p]] /\ hand = [hand EXCEPT ![p] = hand[p]]
  BY DEF Types, LocalTypes
<1> HIDE GoalAssumption
<1>1. CASE Decide(p)
  <2>1. TypeOK'
    BY <1>1 DEF Decide, Types, TypeOK, NodeStatus
  <2>2. "apply" \in Steps
    BY DEF Steps
  <2>3. LocalTypes'
    BY <1>0, <1>a, <1>1, <2>2, MoveTypes DEF Decide, At
  <2>4. QED
    BY <1>1, <2>1, <2>3 DEF Decide, Types, GhostTypes, ghosts
<1>2. CASE ApplyRequeue(p)
  <2>1. TypeOK'
    BY <1>2 DEF ApplyRequeue, Resumed, Types, TypeOK, NodeStatus
  <2>2. LocalTypes'
    BY <1>0, <1>2, LeaveTypes DEF ApplyRequeue, At
  <2>3. QED
    BY <1>2, <2>1, <2>2 DEF ApplyRequeue, Types, GhostTypes, ghosts
<1>3. CASE ApplyComplete(p)
  <2> DEFINE k == hand[p].task
  <2>1. TypeOK'
    BY <1>3 DEF ApplyComplete, Resumed, Types, TypeOK, NodeStatus
  <2>2. LocalTypes'
    BY <1>0, <1>3, LeaveTypes DEF ApplyComplete, At
  <2>3. version' = [version EXCEPT ![k] = version[k] + 1] /\ UNCHANGED <<repairs, lost>>
    BY <1>3 DEF ApplyComplete
  <2>4. GhostTypes
    BY DEF Types
  <2> HIDE DEF k
  <2>5. k \in Keys => version[k] + 1 \in Nat
    BY <2>4 DEF GhostTypes
  <2>6. GhostTypes'
    BY <2>3, <2>4, <2>5 DEF GhostTypes
  <2>7. QED
    BY <2>1, <2>2, <2>6 DEF Types
<1>4. CASE ApplyFail(p)
  <2>1. LocalTypes'
    BY <1>0, <1>4, LeaveTypes DEF ApplyFail
  <2>2. QED
    BY <1>4, <2>1 DEF ApplyFail, Types, TypeOK, GhostTypes, Terminal, ghosts
<1>5. ASSUME NEW k \in Keys, NEW a \in Action, NEW approved \in BOOLEAN,
             Resume(p, k, a, approved)
      PROVE  Types'
  <2> DEFINE h == [hand[p] EXCEPT !.task = k, !.kind = gate[k], !.decision = a,
                                  !.approve = approved]
             step == IF a = "REPLAN" THEN "plan" ELSE "agent"
  <2>1. gate[k] \in GateKind \cup {"review"}
    BY DEF Types, TypeOK
  <2>2. h \in HandType
    BY <1>0, <2>1 DEF HandType
  <2>3. hand' = [hand EXCEPT ![p] = h]
    BY <1>5 DEF Resume, LocalTypes, Types
  <2>4. /\ step \in Steps /\ step \in {"plan", "agent"} /\ Goto(p, step)
        /\ agent' = [agent EXCEPT ![p] = agent[p]]
    BY <1>5, <1>a DEF Resume, Steps
  <2> HIDE DEF h, step
  <2>5. LocalTypes'
    BY <1>0, <2>2, <2>3, <2>4, MoveTypes
  <2>6. QED
    BY <1>5, <2>5 DEF Resume, Types, TypeOK, GhostTypes, durable, ghosts
<1>6. QED
  BY <1>1, <1>2, <1>3, <1>4, <1>5

LEMMA StepTypes == Types /\ [Next]_vars => Types'
<1> SUFFICES ASSUME Types, [Next]_vars PROVE Types'
  OBVIOUS
<1>1. CASE UNCHANGED vars
  BY <1>1 DEF Types, TypeOK, LocalTypes, GhostTypes, Equipped, vars, durable, local, ghosts
<1>2. CASE Next
  BY <1>2, StartTypes, RunTypes, RepairTypes, DecideTypes DEF Next, Step, RunStep, RepairStep
<1>3. QED
  BY <1>1, <1>2
------------------------------------------------------------------------------
(* The plan and the nodes *)

Present(k) == node[k] \notin {"ABSENT", "STALE"}

(* A step that leaves the plan alone, and changes only the status of nodes    *)
(* that have one of an active task, to another such.                          *)
LEMMA PresenceKept ==
  ASSUME PlanAndNodesAgree, UNCHANGED plan, lost' = lost,
         \A k \in Keys : node'[k] = node[k] \/ (Present(k) /\ Present(k)')
  PROVE  PlanAndNodesAgree'
  BY DEF PlanAndNodesAgree, Present

LEMMA RunAgrees ==
  ASSUME Types, PlanAndNodesAgree, NEW p \in Processes,
         \/ Top(p) \/ Complete(p) \/ Open(p) \/ ReportComplete(p) \/ ReportFail(p)
         \/ \E kind \in GateKind : ReportPause(p, kind)
  PROVE  PlanAndNodesAgree'
<1>1. UNCHANGED plan /\ lost' = lost
  BY DEF Top, Complete, Open, ReportComplete, ReportFail, ReportPause, ghosts
<1>2. node \in [Keys -> NodeStatus]
  BY DEF Types, TypeOK
<1>3. CASE Top(p)
  BY <1>1, <1>2, <1>3, PresenceKept DEF Top, Orphans, Present
<1>4. CASE Complete(p)
  BY <1>1, <1>4, PresenceKept DEF Complete
<1>5. CASE Open(p)
  BY <1>1, <1>2, <1>5, PresenceKept DEF Open, Started, Present
<1>6. CASE ReportComplete(p)
  BY <1>1, <1>2, <1>6, PresenceKept DEF ReportComplete, Started, Present
<1>7. CASE ReportFail(p)
  BY <1>1, <1>2, <1>7, PresenceKept DEF ReportFail, Started, Present
<1>8. CASE \E kind \in GateKind : ReportPause(p, kind)
  BY <1>1, <1>2, <1>8, PresenceKept DEF ReportPause, Started, Present
<1>9. QED
  BY <1>3, <1>4, <1>5, <1>6, <1>7, <1>8

LEMMA DecideAgrees ==
  ASSUME Types, PlanAndNodesAgree, NEW p \in Processes,
         Decide(p) \/ ApplyRequeue(p) \/ ApplyComplete(p) \/ ApplyFail(p)
  PROVE  PlanAndNodesAgree'
<1>1. UNCHANGED plan /\ lost' = lost
  BY DEF Decide, ApplyRequeue, ApplyComplete, ApplyFail, ghosts
<1>2. node \in [Keys -> NodeStatus]
  BY DEF Types, TypeOK
<1>3. CASE Decide(p)
  <2> DEFINE to == CASE hand[p].decision = "APPROVE" -> "APPROVED"
                     [] hand[p].decision = "REJECT" -> "FAILED"
                     [] OTHER -> "NEEDS_REVISION"
             t == hand[p].task
  <2>1. to \notin {"ABSENT", "STALE"}
    OBVIOUS
  <2>2. node' = [node EXCEPT ![t] = to] /\ node[t] \notin {"ABSENT", "STALE"}
    BY <1>3 DEF Decide, CanDecide
  <2> HIDE DEF to, t
  <2>3. QED
    BY <1>1, <1>2, <2>1, <2>2, PresenceKept DEF Present
<1>4. CASE ApplyRequeue(p) \/ ApplyComplete(p) \/ ApplyFail(p)
  BY <1>1, <1>2, <1>4, PresenceKept DEF ApplyRequeue, ApplyComplete, ApplyFail, Present
<1>5. QED
  BY <1>3, <1>4

(* A revision of the plan that is the session's: removed tasks go STALE,      *)
(* added and changed ones have a node, the others keep theirs.                *)
LEMMA RevisionAgrees ==
  ASSUME Types, PlanAndNodesAgree, NEW d \in Deltas, Applies(plan, d), ~lost,
         ApplyWorkflowRevision(plan, Revised(plan, d), DOMAIN d.update)
  PROVE  PlanAndNodesAgree'
<1> DEFINE q == Revised(plan, d)
           changed == DOMAIN d.update
<1>1. plan \in Plans /\ plan' = q
  BY DEF Types, TypeOK, ApplyWorkflowRevision
<1>2. Requeued(plan, q, changed) \subseteq DOMAIN plan \cap DOMAIN q
  BY <1>1, RevisedIsPlan
<1>3. ASSUME NEW k \in Keys
      PROVE  IF k \in DOMAIN q THEN Present(k)' ELSE ~Present(k)'
  <2>1. node'[k] = IF k \in Removed(plan, q) THEN AfterRemoval(k)
          ELSE IF k \in Added(plan, q) /\ node[k] = "ABSENT" THEN "QUEUED"
          ELSE IF k \in Added(plan, q) \cup Requeued(plan, q, changed) THEN AfterRequeue(k)
          ELSE node[k]
    BY DEF ApplyWorkflowRevision
  <2>2. IF k \in DOMAIN plan THEN Present(k) ELSE ~Present(k)
    BY DEF PlanAndNodesAgree, Present
  <2> HIDE DEF q, changed
  <2>3. CASE k \in Removed(plan, q)
    BY <2>1, <2>3 DEF Removed, AfterRemoval, Present
  <2>4. CASE k \in Added(plan, q)
    BY <2>1, <2>2, <2>4 DEF Removed, Added, AfterRequeue, Present
  <2>5. CASE k \in Requeued(plan, q, changed)
    BY <1>2, <2>1, <2>2, <2>5 DEF Removed, Added, AfterRequeue, Present
  <2>6. CASE k \notin Removed(plan, q) \cup Added(plan, q) \cup Requeued(plan, q, changed)
    BY <2>1, <2>2, <2>6 DEF Removed, Added, Present
  <2>7. QED
    BY <2>3, <2>4, <2>5, <2>6
<1>4. QED
  BY <1>1, <1>3 DEF PlanAndNodesAgree, Present

LEMMA ReviseAgrees ==
  ASSUME Types, PlanAndNodesAgree, NEW p \in Processes, Revise(p)
  PROVE  PlanAndNodesAgree'
<1> DEFINE h == hand[p]
<1>1. h.delta \in Deltas /\ Applies(h.base, h.delta)
  BY DEF Revise, At, Types, LocalTypes, Equipped
<1>2. CASE UNCHANGED <<durable, repairs, lost>>
  BY <1>2 DEF PlanAndNodesAgree, durable
<1>3. CASE /\ ApplyWorkflowRevision(h.base, Revised(h.base, h.delta), DOMAIN h.delta.update)
           /\ lost' = (lost \/ h.base # plan)
  <2>1. CASE lost \/ h.base # plan
    BY <1>3, <2>1 DEF PlanAndNodesAgree
  <2>2. CASE ~lost /\ h.base = plan
    BY <1>1, <1>3, <2>2, RevisionAgrees
  <2>3. QED
    BY <2>1, <2>2
<1>4. QED
  BY <1>2, <1>3 DEF Revise

LEMMA StepAgrees == Types /\ PlanAndNodesAgree /\ [Next]_vars => PlanAndNodesAgree'
<1> SUFFICES ASSUME Types, PlanAndNodesAgree, [Next]_vars PROVE PlanAndNodesAgree'
  OBVIOUS
<1>1. CASE UNCHANGED <<durable, lost>>
  BY <1>1 DEF PlanAndNodesAgree, durable
<1>2. CASE UNCHANGED vars
  BY <1>1, <1>2 DEF vars, ghosts
<1>3. ASSUME NEW p \in Processes,
             \/ Begin(p) \/ Restart(p) \/ AgentForSession(p) \/ Stop(p)
             \/ ReviseGoalSession(p) \/ Crash(p) \/ DeclineRepair(p)
             \/ PlanChange(p) \/ PlanNoChange(p)
             \/ \E k \in Keys, a \in Action, approved \in BOOLEAN : Resume(p, k, a, approved)
      PROVE  PlanAndNodesAgree'
  <2>1. UNCHANGED <<durable, lost>>
    BY <1>3 DEF Begin, Restart, AgentForSession, Stop, ReviseGoalSession, Crash,
                DeclineRepair, PlanChange, PlanNoChange, Resume, ghosts
  <2>2. QED
    BY <1>1, <2>1
<1>4. ASSUME NEW p \in Processes, Reserve(p) PROVE PlanAndNodesAgree'
  BY <1>4 DEF Reserve, PlanAndNodesAgree, ghosts
<1>5. CASE Next
  BY <1>3, <1>4, <1>5, RunAgrees, DecideAgrees, ReviseAgrees
     DEF Next, Step, RunStep, RepairStep
<1>6. QED
  BY <1>2, <1>5
------------------------------------------------------------------------------
(* The freshness of results *)

(* The strengthening of ResultsAreFresh: what such a result rests on is still *)
(* COMPLETED, so no requirement of it completes once more.                    *)
RestsOnLatest(k) ==
  node[k] = "COMPLETED" /\ ~result[k].outdated =>
    \A r \in plan[k] : node[r] = "COMPLETED" /\ result[k].inputs[r] = version[r]

Fresh ==
  /\ result \in [Keys -> [inputs : [Keys -> Nat], outdated : BOOLEAN]]
  /\ ~lost => \A k \in DOMAIN plan : RestsOnLatest(k)

LEMMA RestsIsTyped ==
  ASSUME NEW k, NEW inputs \in [Keys -> Nat]
  PROVE  Rests(k, inputs) \in [inputs : [Keys -> Nat], outdated : BOOLEAN]
<1>1. Outdated(k, inputs) \in BOOLEAN
  BY DEF Outdated
<1>2. QED
  BY <1>1 DEF Rests

(* A step that leaves plan and COMPLETED nodes alone, and completes none.     *)
LEMMA FreshKept ==
  ASSUME Types, Fresh, UNCHANGED <<plan, lost, version>>,
         result' \in [Keys -> [inputs : [Keys -> Nat], outdated : BOOLEAN]],
         \A k \in Keys : (node[k] = "COMPLETED") = (node'[k] = "COMPLETED"),
         \A k \in Keys : node[k] = "COMPLETED" => result'[k] = result[k]
  PROVE  Fresh'
<1>1. DOMAIN plan \subseteq Keys /\ \A k \in DOMAIN plan : plan[k] \subseteq Keys
  BY DEF Types, TypeOK, Plans
<1>2. ASSUME ~lost, NEW k \in DOMAIN plan PROVE RestsOnLatest(k)'
  <2>1. RestsOnLatest(k) /\ k \in Keys
    BY <1>1, <1>2 DEF Fresh
  <2>2. CASE node[k] = "COMPLETED"
    <3>1. ASSUME ~result[k].outdated, NEW r \in plan[k]
          PROVE  node'[r] = "COMPLETED" /\ result[k].inputs[r] = version[r]
      <4>1. r \in Keys /\ node[r] = "COMPLETED" /\ result[k].inputs[r] = version[r]
        BY <1>1, <2>1, <2>2, <3>1 DEF RestsOnLatest
      <4>2. QED
        BY <4>1
    <3>2. QED
      BY <2>1, <2>2, <3>1 DEF RestsOnLatest
  <2>3. CASE node[k] # "COMPLETED"
    BY <2>1, <2>3 DEF RestsOnLatest
  <2>4. QED
    BY <2>2, <2>3
<1>3. QED
  BY <1>2 DEF Fresh

(* a node completes: nobody's result rests on it, and its own is judged       *)
LEMMA FreshCompletion ==
  ASSUME Types, Fresh, NEW t, NEW inputs \in [Keys -> Nat],
         UNCHANGED <<plan, lost>>, node[t] # "COMPLETED",
         node' = [node EXCEPT ![t] = "COMPLETED"],
         version' = [version EXCEPT ![t] = version[t] + 1],
         result' = [result EXCEPT ![t] = Rests(t, inputs)]
  PROVE  Fresh'
<1>1. DOMAIN plan \subseteq Keys /\ \A k \in DOMAIN plan : plan[k] \subseteq Keys
  BY DEF Types, TypeOK, Plans
<1>2. /\ node \in [Keys -> NodeStatus] /\ version \in [Keys -> Nat]
      /\ result \in [Keys -> [inputs : [Keys -> Nat], outdated : BOOLEAN]]
  BY DEF Types, TypeOK, GhostTypes, Fresh
<1>3. result' \in [Keys -> [inputs : [Keys -> Nat], outdated : BOOLEAN]]
  BY <1>2, RestsIsTyped
<1>4. ASSUME ~lost, NEW k \in DOMAIN plan PROVE RestsOnLatest(k)'
  <2>1. RestsOnLatest(k)
    BY <1>4 DEF Fresh
  <2>2. CASE k = t
    <3>1. result'[k].inputs = inputs /\ result'[k].outdated = Outdated(k, inputs)
      BY <1>1, <1>2, <2>2 DEF Rests
    <3>2. ASSUME ~Outdated(k, inputs), NEW r \in plan[k]
          PROVE  r # t /\ node[r] = "COMPLETED" /\ inputs[r] = version[r]
      BY <3>2 DEF Outdated
    <3>3. QED
      BY <1>1, <1>2, <3>1, <3>2 DEF RestsOnLatest
  <2>3. CASE k # t
    <3>1. result'[k] = result[k] /\ node'[k] = node[k]
      BY <1>1, <1>2, <2>3
    <3>2. ASSUME node[k] = "COMPLETED", ~result[k].outdated, NEW r \in plan[k]
          PROVE  node'[r] = "COMPLETED" /\ result[k].inputs[r] = version'[r]
      <4>1. r \in Keys /\ r # t /\ node[r] = "COMPLETED" /\ result[k].inputs[r] = version[r]
        BY <1>1, <2>1, <3>2 DEF RestsOnLatest
      <4>2. QED
        BY <1>2, <4>1
    <3>3. QED
      BY <3>1, <3>2 DEF RestsOnLatest
  <2>4. QED
    BY <2>2, <2>3
<1>5. QED
  BY <1>3, <1>4 DEF Fresh

(* What requires a root, or a descendant, is a descendant.                    *)
LEMMA DescendantsClosed ==
  ASSUME NEW p, NEW roots, NEW c \in DOMAIN p,
         p[c] \cap (roots \cup Descendants(p, roots)) # {}
  PROVE  c \in Descendants(p, roots)
<1> SUFFICES ASSUME NEW S \in SUBSET DOMAIN p,
                    \A k \in DOMAIN p : p[k] \cap (roots \cup S) # {} => k \in S
             PROVE  c \in S
  BY DEF Descendants
<1>1. Descendants(p, roots) \subseteq S
  BY DEF Descendants
<1>2. QED
  BY <1>1

(* a revision of the session's own plan sends back all that it outdates       *)
LEMMA FreshRevision ==
  ASSUME Types, PlanAndNodesAgree, Fresh, ~lost,
         NEW d \in Deltas, Applies(plan, d), UNCHANGED <<version, result>>,
         ApplyWorkflowRevision(plan, Revised(plan, d), DOMAIN d.update)
  PROVE  Fresh'
<1> DEFINE q == Revised(plan, d)
           changed == DOMAIN d.update
           roots == changed \cup Removed(plan, q)
<1>1. /\ plan \in Plans /\ plan' = q /\ DOMAIN plan \subseteq Keys
      /\ \A k \in DOMAIN plan : plan[k] \subseteq Keys
  BY DEF Types, TypeOK, ApplyWorkflowRevision, Plans
<1>2. DOMAIN q = (DOMAIN plan \ d.remove) \cup DOMAIN d.add /\ DOMAIN q \subseteq Keys
  <2>1. q \in Plans
    BY <1>1, RevisedIsPlan
  <2>2. QED
    BY <2>1 DEF Revised, Plans
<1>3. ASSUME NEW k \in Keys
      PROVE  node'[k] = IF k \in Removed(plan, q) THEN AfterRemoval(k)
               ELSE IF k \in Added(plan, q) /\ node[k] = "ABSENT" THEN "QUEUED"
               ELSE IF k \in Added(plan, q) \cup Requeued(plan, q, changed) THEN AfterRequeue(k)
               ELSE node[k]
  BY DEF ApplyWorkflowRevision
<1>4. ASSUME NEW k \in DOMAIN q, node'[k] = "COMPLETED"
      PROVE  /\ k \in DOMAIN plan /\ k \notin roots \cup Descendants(plan, roots)
             /\ node[k] = "COMPLETED" /\ q[k] = plan[k]
  <2>1. k \in Keys
    BY <1>2
  <2>2. k \notin Added(plan, q) \cup Requeued(plan, q, changed) \cup Removed(plan, q)
    BY <1>3, <1>4, <2>1 DEF AfterRequeue, AfterRemoval, Removed
  <2>3. k \in DOMAIN plan
    BY <2>2 DEF Added
  <2>4. k \notin roots \cup Descendants(plan, roots)
    BY <2>2 DEF Requeued
  <2>5. node[k] = "COMPLETED"
    BY <1>3, <1>4, <2>1, <2>2
  <2>6. k \notin DOMAIN d.update /\ k \notin DOMAIN d.add /\ k \notin d.remove
    BY <1>2, <2>3, <2>4 DEF Applies
  <2>7. q[k] = plan[k]
    BY <2>3, <2>6 DEF Revised
  <2>8. QED
    BY <2>3, <2>4, <2>5, <2>7
<1>5. ASSUME NEW k \in DOMAIN q PROVE RestsOnLatest(k)'
  <2>1. SUFFICES ASSUME node'[k] = "COMPLETED", ~result[k].outdated, NEW r \in q[k]
                 PROVE  node'[r] = "COMPLETED" /\ result[k].inputs[r] = version[r]
    BY <1>1 DEF RestsOnLatest
  <2>2. k \in DOMAIN plan /\ r \in plan[k] /\ k \notin Descendants(plan, roots)
        /\ node[k] = "COMPLETED"
    BY <1>4, <2>1
  <2>3. node[r] = "COMPLETED" /\ result[k].inputs[r] = version[r] /\ r \in Keys
    BY <1>1, <2>1, <2>2 DEF Fresh, RestsOnLatest
  <2>4. r \in DOMAIN plan
    BY <2>3 DEF PlanAndNodesAgree
  <2>5. r \notin roots \cup Descendants(plan, roots)
    BY <2>2, DescendantsClosed
  <2>6. r \notin Removed(plan, q) \cup Added(plan, q) \cup Requeued(plan, q, changed)
    BY <2>4, <2>5 DEF Added, Requeued
  <2>7. QED
    BY <1>3, <2>3, <2>6
<1>6. QED
  BY <1>1, <1>5 DEF Fresh

LEMMA RunIsFresh ==
  ASSUME Types, Fresh, NEW p \in Processes,
         \/ Top(p) \/ Complete(p) \/ Open(p) \/ ReportComplete(p) \/ ReportFail(p)
         \/ \E kind \in GateKind : ReportPause(p, kind)
  PROVE  Fresh'
<1> DEFINE t == hand[p].task
<1>0. /\ node \in [Keys -> NodeStatus] /\ hand[p].inputs \in [Keys -> Nat]
      /\ result \in [Keys -> [inputs : [Keys -> Nat], outdated : BOOLEAN]]
  BY DEF Types, TypeOK, LocalTypes, HandType, Fresh
<1>1. CASE Top(p)
  BY <1>0, <1>1, FreshKept DEF Top, Orphans, ghosts
<1>2. CASE Complete(p)
  BY <1>0, <1>2, FreshKept DEF Complete, ghosts
<1>3. CASE Open(p)
  BY <1>0, <1>3, FreshKept DEF Open, Started, ghosts
<1>4. CASE ReportComplete(p)
  <2>1. node[t] # "COMPLETED"
    BY <1>4 DEF ReportComplete, Started
  <2>2. QED
    BY <1>0, <1>4, <2>1, FreshCompletion DEF ReportComplete
<1>5. CASE ReportFail(p)
  BY <1>0, <1>5, FreshKept DEF ReportFail, Started, ghosts
<1>6. ASSUME NEW kind \in GateKind, ReportPause(p, kind) PROVE Fresh'
  <2>1. CASE UNCHANGED <<node, result>>
    BY <1>0, <1>6, <2>1, FreshKept DEF ReportPause
  <2>2. CASE /\ Started(t) = "RUNNING" /\ node' = [node EXCEPT ![t] = "PENDING_GATE"]
             /\ result' = [result EXCEPT ![t] = Rests(t, hand[p].inputs)]
    <3>1. node[t] # "COMPLETED"
      BY <2>2 DEF Started
    <3>2. result' \in [Keys -> [inputs : [Keys -> Nat], outdated : BOOLEAN]]
      BY <1>0, <2>2, RestsIsTyped
    <3>3. UNCHANGED <<plan, lost, version>>
      BY <1>6 DEF ReportPause
    <3> HIDE DEF t
    <3>4. ASSUME NEW k \in Keys
          PROVE  /\ node[k] = "COMPLETED" <=> node'[k] = "COMPLETED"
                 /\ node[k] = "COMPLETED" => result'[k] = result[k]
      BY <1>0, <2>2, <3>1
    <3>5. QED
      BY <3>2, <3>3, <3>4, FreshKept
  <2>3. QED
    BY <1>6, <2>1, <2>2 DEF ReportPause
<1>7. QED
  BY <1>1, <1>2, <1>3, <1>4, <1>5, <1>6

LEMMA DecideIsFresh ==
  ASSUME Types, Fresh, NEW p \in Processes,
         Decide(p) \/ ApplyRequeue(p) \/ ApplyComplete(p) \/ ApplyFail(p)
  PROVE  Fresh'
<1> DEFINE t == hand[p].task
<1>0. /\ node \in [Keys -> NodeStatus]
      /\ result \in [Keys -> [inputs : [Keys -> Nat], outdated : BOOLEAN]]
  BY DEF Types, TypeOK, Fresh
<1>1. CASE Decide(p)
  <2> DEFINE to == CASE hand[p].decision = "APPROVE" -> "APPROVED"
                     [] hand[p].decision = "REJECT" -> "FAILED"
                     [] OTHER -> "NEEDS_REVISION"
  <2>1. to # "COMPLETED"
    OBVIOUS
  <2>2. /\ node' = [node EXCEPT ![t] = to] /\ node[t] # "COMPLETED"
        /\ UNCHANGED <<plan, lost, version, result>>
    BY <1>1 DEF Decide, CanDecide, ghosts
  <2> HIDE DEF to, t
  <2>3. QED
    BY <1>0, <2>1, <2>2, FreshKept
<1>2. CASE ApplyRequeue(p)
  BY <1>0, <1>2, FreshKept DEF ApplyRequeue, ghosts
<1>3. CASE ApplyComplete(p)
  <2>1. CASE t \in Keys
    <3>1. result[t].inputs \in [Keys -> Nat] /\ node[t] # "COMPLETED"
      BY <1>0, <1>3, <2>1 DEF ApplyComplete
    <3>2. result' = [result EXCEPT ![t] = Rests(t, result[t].inputs)]
      BY <1>0, <1>3 DEF ApplyComplete
    <3>3. QED
      BY <1>3, <3>1, <3>2, FreshCompletion DEF ApplyComplete
  <2>2. CASE t \notin Keys
    <3>1. UNCHANGED <<plan, lost, node, version, result>>
      BY <1>0, <1>3, <2>2 DEF ApplyComplete, Types, GhostTypes
    <3>2. QED
      BY <3>1 DEF Fresh, RestsOnLatest
  <2>3. QED
    BY <2>1, <2>2
<1>4. CASE ApplyFail(p)
  BY <1>0, <1>4, FreshKept DEF ApplyFail, ghosts
<1>5. QED
  BY <1>1, <1>2, <1>3, <1>4

LEMMA ReviseIsFresh ==
  ASSUME Types, PlanAndNodesAgree, Fresh, NEW p \in Processes, Revise(p)
  PROVE  Fresh'
<1> DEFINE h == hand[p]
<1>1. h.delta \in Deltas /\ Applies(h.base, h.delta) /\ UNCHANGED <<version, result>>
  BY DEF Revise, At, Types, LocalTypes, Equipped
<1>2. CASE UNCHANGED <<durable, repairs, lost>>
  BY <1>1, <1>2 DEF Fresh, RestsOnLatest, durable
<1>3. CASE /\ ApplyWorkflowRevision(h.base, Revised(h.base, h.delta), DOMAIN h.delta.update)
           /\ lost' = (lost \/ h.base # plan)
  <2>1. CASE lost \/ h.base # plan
    BY <1>1, <1>3, <2>1 DEF Fresh
  <2>2. CASE ~lost /\ h.base = plan
    BY <1>1, <1>3, <2>2, FreshRevision
  <2>3. QED
    BY <2>1, <2>2
<1>4. QED
  BY <1>2, <1>3 DEF Revise

LEMMA StepIsFresh ==
  Types /\ PlanAndNodesAgree /\ Fresh /\ [Next]_vars => Fresh'
<1> SUFFICES ASSUME Types, PlanAndNodesAgree, Fresh, [Next]_vars PROVE Fresh'
  OBVIOUS
<1>1. CASE UNCHANGED <<plan, node, version, result, lost>>
  BY <1>1 DEF Fresh, RestsOnLatest
<1>2. CASE UNCHANGED vars
  BY <1>1, <1>2 DEF vars, durable, ghosts
<1>3. ASSUME NEW p \in Processes,
             \/ Begin(p) \/ Restart(p) \/ AgentForSession(p) \/ Stop(p)
             \/ ReviseGoalSession(p) \/ Crash(p) \/ Reserve(p) \/ DeclineRepair(p)
             \/ PlanChange(p) \/ PlanNoChange(p)
             \/ \E k \in Keys, a \in Action, approved \in BOOLEAN : Resume(p, k, a, approved)
      PROVE  Fresh'
  <2>1. UNCHANGED <<plan, node, version, result, lost>>
    BY <1>3 DEF Begin, Restart, AgentForSession, Stop, ReviseGoalSession, Crash, Reserve,
                DeclineRepair, PlanChange, PlanNoChange, Resume, durable, ghosts
  <2>2. QED
    BY <1>1, <2>1
<1>4. CASE Next
  BY <1>3, <1>4, RunIsFresh, DecideIsFresh, ReviseIsFresh
     DEF Next, Step, RunStep, RepairStep
<1>5. QED
  BY <1>2, <1>4

------------------------------------------------------------------------------
(* The budget of repairs *)

LEMMA HoldersAreCounted ==
  ASSUME NEW S \in SUBSET Processes
  PROVE  IsFiniteSet(S) /\ Cardinality(S) \in Nat
  BY FS_Subset, FS_CardinalityType, GoalAssumption

(* A step after which no process holds an attempt it did not hold before.     *)
LEMMA AttemptsKept ==
  ASSUME Types, AttemptsReserved, used' = used, repairs' = repairs,
         \A p \in Processes : hand'[p].auto => hand[p].auto
  PROVE  AttemptsReserved'
<1>1. Holders' \in SUBSET Holders /\ Holders \in SUBSET Processes
  BY DEF Holders
<1>2. /\ IsFiniteSet(Holders) /\ Cardinality(Holders) \in Nat
      /\ Cardinality(Holders') \in Nat
  BY <1>1, HoldersAreCounted
<1>3. Cardinality(Holders') <= Cardinality(Holders)
  BY <1>1, <1>2, FS_Subset
<1>4. QED
  BY <1>2, <1>3 DEF AttemptsReserved, Types, TypeOK, GhostTypes

(* what a process leaves or takes over of what it holds                       *)
LEMMA HoldsNoMore ==
  ASSUME Types, NEW p \in Processes,
         Return(p) \/ GoOn(p) \/ UNCHANGED hand
  PROVE  \A q \in Processes : hand'[q].auto => hand[q].auto
<1>1. hand \in [Processes -> HandType] /\ Hand.auto = FALSE
  BY DEF Types, LocalTypes, Hand
<1>2. CASE Return(p)
  BY <1>1, <1>2 DEF Return
<1>3. CASE GoOn(p)
  <2> DEFINE h == [Hand EXCEPT !.repairing = hand[p].repairing]
  <2>1. h.auto = FALSE
    BY DEF Hand
  <2>2. hand' = [hand EXCEPT ![p] = h]
    BY <1>3 DEF GoOn
  <2> HIDE DEF h
  <2>3. QED
    BY <1>1, <2>1, <2>2
<1>4. QED
  BY <1>2, <1>3

LEMMA LoopReserves ==
  ASSUME Types, AttemptsReserved, NEW p \in Processes,
         \/ RunStep(p) \/ DeclineRepair(p) \/ PlanChange(p) \/ PlanNoChange(p)
         \/ Decide(p) \/ ApplyRequeue(p) \/ ApplyComplete(p) \/ ApplyFail(p)
         \/ Begin(p) \/ Restart(p) \/ ReviseGoalSession(p) \/ Crash(p)
         \/ \E k \in Keys, a \in Action, approved \in BOOLEAN : Resume(p, k, a, approved)
  PROVE  AttemptsReserved'
<1>1. used' = used /\ repairs' = repairs
  BY DEF RunStep, AgentForSession, Top, Complete, Open, ReportComplete, ReportFail,
         ReportPause, Stop, DeclineRepair, PlanChange, PlanNoChange, Decide, ApplyRequeue,
         ApplyComplete, ApplyFail, Begin, Restart, ReviseGoalSession, Crash, Resume,
         durable, ghosts
<1>2. hand \in [Processes -> HandType]
  BY DEF Types, LocalTypes
<1>3. \A q \in Processes : hand'[q].auto => hand[q].auto
  <2>1. CASE Return(p) \/ GoOn(p) \/ UNCHANGED hand
    BY <2>1, HoldsNoMore
  <2> HIDE GoalAssumption
  <2>2. ASSUME NEW h, h.auto = hand[p].auto, hand' = [hand EXCEPT ![p] = h]
        PROVE  \A q \in Processes : hand'[q].auto => hand[q].auto
    BY <1>2, <2>2
  <2>3. CASE Begin(p)
    <3> DEFINE h == [hand[p] EXCEPT !.repairing = TRUE]
    <3>1. h.auto = hand[p].auto
      BY <1>2 DEF HandType
    <3>2. hand' = [hand EXCEPT ![p] = h]
      BY <1>2, <2>3 DEF Begin
    <3> HIDE DEF h
    <3>3. QED
      BY <2>2, <3>1, <3>2
  <2>4. CASE Top(p)
    <3>1. ASSUME NEW k, NEW inputs, hand' = [hand EXCEPT ![p].task = k, ![p].inputs = inputs]
          PROVE  \A q \in Processes : hand'[q].auto => hand[q].auto
      <4> DEFINE h == [hand[p] EXCEPT !.task = k, !.inputs = inputs]
      <4>1. h.auto = hand[p].auto
        BY <1>2 DEF HandType
      <4>2. hand' = [hand EXCEPT ![p] = h]
        BY <1>2, <3>1
      <4> HIDE DEF h
      <4>3. QED
        BY <2>2, <4>1, <4>2
    <3>2. QED
      BY <2>1, <2>4, <3>1 DEF Top
  <2>5. CASE \E kind \in GateKind : ReportPause(p, kind)
    <3>1. ASSUME NEW kind, hand' = [hand EXCEPT ![p].kind = kind]
          PROVE  \A q \in Processes : hand'[q].auto => hand[q].auto
      <4> DEFINE h == [hand[p] EXCEPT !.kind = kind]
      <4>1. h.auto = hand[p].auto
        BY <1>2 DEF HandType
      <4>2. hand' = [hand EXCEPT ![p] = h]
        BY <1>2, <3>1
      <4> HIDE DEF h
      <4>3. QED
        BY <2>2, <4>1, <4>2
    <3>2. QED
      BY <2>1, <2>5, <3>1 DEF ReportPause
  <2>6. CASE PlanChange(p)
    <3>1. ASSUME NEW d, hand' = [hand EXCEPT ![p].delta = d, ![p].base = plan]
          PROVE  \A q \in Processes : hand'[q].auto => hand[q].auto
      <4> DEFINE h == [hand[p] EXCEPT !.delta = d, !.base = plan]
      <4>1. h.auto = hand[p].auto
        BY <1>2 DEF HandType
      <4>2. hand' = [hand EXCEPT ![p] = h]
        BY <1>2, <3>1
      <4> HIDE DEF h
      <4>3. QED
        BY <2>2, <4>1, <4>2
    <3>2. QED
      BY <2>1, <2>6, <3>1 DEF PlanChange
  <2>7. CASE Crash(p)
    BY <1>2, <2>7 DEF Crash, Hand
  <2>8. CASE \E k \in Keys, a \in Action, approved \in BOOLEAN : Resume(p, k, a, approved)
    <3> PICK k \in Keys, a \in Action, approved \in BOOLEAN : Resume(p, k, a, approved)
      BY <2>8
    <3> DEFINE h == [hand[p] EXCEPT !.task = k, !.kind = gate[k], !.decision = a,
                                    !.approve = approved]
    <3>1. h.auto = hand[p].auto
      BY <1>2 DEF HandType
    <3>2. hand' = [hand EXCEPT ![p] = h]
      BY <1>2 DEF Resume
    <3> HIDE DEF h
    <3>3. QED
      BY <2>2, <3>1, <3>2
  <2>9. QED
    BY <2>1, <2>3, <2>4, <2>5, <2>6, <2>7, <2>8
       DEF RunStep, AgentForSession, Complete, Open, ReportComplete, ReportFail, Stop,
           DeclineRepair, PlanNoChange, Decide, ApplyRequeue, ApplyComplete, ApplyFail,
           Restart, ReviseGoalSession
<1>4. QED
  BY <1>1, <1>3, AttemptsKept

LEMMA ReserveReserves ==
  ASSUME Types, AttemptsReserved, NEW p \in Processes, Reserve(p)
  PROVE  AttemptsReserved'
<1>1. hand \in [Processes -> HandType] /\ used' = used + 1 /\ repairs' = repairs
  BY DEF Types, LocalTypes, Reserve, ghosts
<1>2. \A q \in Processes \ {p} : hand'[q] = hand[q]
  BY <1>1 DEF Reserve
<1>3. Holders' \in SUBSET (Holders \cup {p}) /\ Holders \in SUBSET Processes
  BY <1>2 DEF Holders
<1>4. /\ IsFiniteSet(Holders) /\ Cardinality(Holders) \in Nat
      /\ Holders' \in SUBSET Processes /\ Cardinality(Holders') \in Nat
  BY <1>3, HoldersAreCounted DEF Holders
<1>5. /\ IsFiniteSet(Holders \cup {p})
      /\ Cardinality(Holders \cup {p}) <= Cardinality(Holders) + 1
      /\ Cardinality(Holders \cup {p}) \in Nat
  <2>1. Cardinality(Holders \cup {p}) =
          IF p \in Holders THEN Cardinality(Holders) ELSE Cardinality(Holders) + 1
    BY <1>4, FS_AddElement
  <2>2. IsFiniteSet(Holders \cup {p})
    BY <1>4, FS_AddElement
  <2>3. QED
    BY <1>4, <2>1, <2>2
<1>6. Cardinality(Holders') <= Cardinality(Holders \cup {p})
  BY <1>3, <1>5, FS_Subset
<1>7. QED
  BY <1>1, <1>4, <1>5, <1>6 DEF AttemptsReserved, Types, TypeOK, GhostTypes

LEMMA ReviseReserves ==
  ASSUME Types, AttemptsReserved, NEW p \in Processes, Revise(p)
  PROVE  AttemptsReserved'
<1> DEFINE h == hand[p]
<1>1. hand \in [Processes -> HandType] /\ used' = used /\ repairs \in Nat /\ used \in Nat
  BY DEF Types, TypeOK, LocalTypes, GhostTypes, Revise, ApplyWorkflowRevision, durable
<1>2. CASE Return(p) /\ repairs' = repairs
  BY <1>1, <1>2, HoldsNoMore, AttemptsKept
<1>3. CASE /\ repairs' = (IF h.auto THEN repairs + 1 ELSE repairs)
           /\ ~hand'[p].auto /\ \A q \in Processes \ {p} : hand'[q] = hand[q]
  <2>1. Holders' = Holders \ {p} /\ Holders \in SUBSET Processes
    BY <1>3 DEF Holders
  <2>2. IsFiniteSet(Holders) /\ Cardinality(Holders) \in Nat
    BY <2>1, HoldersAreCounted
  <2>3. Cardinality(Holders') =
          IF p \in Holders THEN Cardinality(Holders) - 1 ELSE Cardinality(Holders)
    BY <2>1, <2>2, FS_RemoveElement
  <2>4. p \in Holders <=> h.auto
    BY <1>1 DEF Holders, HandType
  <2>5. QED
    BY <1>1, <1>3, <2>2, <2>3, <2>4 DEF AttemptsReserved
<1>4. ASSUME ApplyWorkflowRevision(h.base, Revised(h.base, h.delta), DOMAIN h.delta.update)
             /\ repairs' = (IF h.auto THEN repairs + 1 ELSE repairs)
             /\ IF h.auto \/ h.decision = "REPLAN"
                THEN hand' = [hand EXCEPT ![p].auto = FALSE, ![p].delta = NoDelta,
                      ![p].base = NoPlan, ![p].decision =
                      IF ApproveCurrent(h) THEN "APPROVE" ELSE "REPLAN"]
                ELSE hand' = [hand EXCEPT ![p] = Hand]
      PROVE  ~hand'[p].auto /\ \A q \in Processes \ {p} : hand'[q] = hand[q]
  <2>1. CASE h.auto \/ h.decision = "REPLAN"
    BY <1>1, <1>4, <2>1 DEF HandType
  <2>2. CASE ~(h.auto \/ h.decision = "REPLAN")
    BY <1>1, <1>4, <2>2 DEF Hand
  <2>3. QED
    BY <2>1, <2>2
<1>5. QED
  BY <1>2, <1>3, <1>4 DEF Revise

LEMMA StepReserves == Types /\ AttemptsReserved /\ [Next]_vars => AttemptsReserved'
<1> SUFFICES ASSUME Types, AttemptsReserved, [Next]_vars PROVE AttemptsReserved'
  OBVIOUS
<1>1. CASE UNCHANGED vars
  BY <1>1 DEF AttemptsReserved, Holders, vars, durable, local, ghosts
<1>2. CASE Next
  BY <1>2, LoopReserves, ReserveReserves, ReviseReserves DEF Next, Step, RepairStep
<1>3. QED
  BY <1>1, <1>2
------------------------------------------------------------------------------
Inv == Types /\ PlanAndNodesAgree /\ Fresh /\ AttemptsReserved

LEMMA InitInv == Init => Inv
<1> SUFFICES ASSUME Init PROVE Inv
  OBVIOUS
<1>1. Types
  BY InitTypes
<1>2. PlanAndNodesAgree
  BY DEF Init, PlanAndNodesAgree
<1>3. Fresh
  <2>1. DOMAIN plan \subseteq Keys /\ NoInputs \in [Keys -> Nat]
    BY <1>1 DEF Types, TypeOK, Plans, NoInputs
  <2>2. result \in [Keys -> [inputs : [Keys -> Nat], outdated : BOOLEAN]]
    BY <2>1 DEF Init
  <2>3. \A k \in DOMAIN plan : node[k] # "COMPLETED"
    BY <2>1 DEF Init
  <2>4. QED
    BY <2>2, <2>3 DEF Fresh, RestsOnLatest
<1>4. Holders = {}
  BY DEF Init, Holders, Hand
<1>5. AttemptsReserved
  BY <1>4, FS_EmptySet DEF Init, AttemptsReserved
<1>6. QED
  BY <1>1, <1>2, <1>3, <1>5 DEF Inv

LEMMA RepairInvariant == Spec => []Inv
<1>1. Inv /\ [Next]_vars => Inv'
  BY StepTypes, StepAgrees, StepIsFresh, StepReserves DEF Inv
<1>2. QED
  BY InitInv, <1>1, PTL DEF Spec

(* Whatever the planner answers and however the processes' revisions, runs,   *)
(* stale picks, late reports, decisions and crashes interleave: a task of the *)
(* plan has a node, and the node of a removed task stays STALE, unless two    *)
(* revisions crossed.                                                         *)
THEOREM PlanStaysInStep == Spec => []PlanAndNodesAgree
  BY RepairInvariant, PTL DEF Inv

(* A revision sends back everything downstream of what it changes: a result   *)
(* that rested on the latest ones of its requirements rests on them for as    *)
(* long as its node is COMPLETED.                                             *)
THEOREM ResultsStayFresh == Spec => []ResultsAreFresh
<1>1. Inv => ResultsAreFresh
  BY DEF Inv, Fresh, RestsOnLatest, ResultsAreFresh
<1>2. QED
  BY RepairInvariant, <1>1, PTL

(* Auto-repair stays within the attempts that were reserved and these within  *)
(* max_repair_attempts, for any number of processes.                          *)
THEOREM RepairsAreBounded == Spec => []RepairBudget
<1>1. Inv => RepairBudget
  <2> SUFFICES ASSUME Inv PROVE RepairBudget
    OBVIOUS
  <2>1. Cardinality(Holders) \in Nat
    BY HoldersAreCounted DEF Holders
  <2>2. QED
    BY <2>1, GoalAssumption
       DEF Inv, AttemptsReserved, RepairBudget, Types, TypeOK, GhostTypes
<1>2. QED
  BY RepairInvariant, <1>1, PTL

(* Type correctness.                                                          *)
THEOREM GoalTypes == Spec => []TypeOK
<1>1. Inv => TypeOK
  BY DEF Inv, Types
<1>2. QED
  BY RepairInvariant, <1>1, PTL
==============================================================================
