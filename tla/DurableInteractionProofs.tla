----------------------- MODULE DurableInteractionProofs -----------------------
(* For any protocols, any number of attempts, cuts and leases: what is        *)
(* recorded stays, the effects of the turns' tools are not repeated, the      *)
(* turns are taken in the order of the protocol, none is run again that was   *)
(* recorded, the conversation that is stored is coherent, and every member is *)
(* heard before the interaction is completed.                                 *)
EXTENDS DurableInteraction, FiniteSetTheorems, TLAPS

USE InteractionAssumption

Steps == {"idle", "find", "start", "mark", "next", "tool", "effect", "ledger", "turn",
          "message", "complete", "done", "failing", "failed"}

(* a turn as the variables hold it, whoever its agent is                      *)
IsTurn(t) ==
  /\ t = [status |-> t.status, agent |-> t.agent, lease |-> t.lease]
  /\ t.status \in TurnStatus /\ t.lease \in Lease

Types ==
  /\ turn = [i \in Indices |-> turn[i]] /\ \A i \in Indices : IsTurn(turn[i])
  /\ status \in {"ABSENT", "RUNNING", "COMPLETED", "FAILED"}
  /\ message \in [Indices -> Nat]
  /\ pc \in [Attempts -> Steps]
  /\ seed = [a \in Attempts |-> seed[a]] /\ hand = [a \in Attempts |-> hand[a]]
  /\ runs \in [Indices -> Nat] /\ wasted \in [Indices -> Nat]
  /\ effects \in [Effects -> Nat] /\ spoiled \in [Effects -> Nat]
  /\ reads = [i \in Indices |-> reads[i]]
  /\ overlapped \in BOOLEAN /\ reran \in BOOLEAN
  /\ \A a \in Attempts : hand[a].message \in Nat

------------------------------------------------------------------------------
(* Types *)

LEMMA InitTypes == Init => Types
<1> SUFFICES ASSUME Init PROVE Types
  OBVIOUS
<1>1. /\ turn = [i \in Indices |-> turn[i]] /\ \A i \in Indices : IsTurn(turn[i])
      /\ message \in [Indices -> Nat] /\ reads = [i \in Indices |-> reads[i]]
      /\ runs \in [Indices -> Nat] /\ wasted \in [Indices -> Nat]
  BY DEF Init, IsTurn, NoTurn, TurnStatus, Lease
<1>2. /\ effects \in [Effects -> Nat] /\ spoiled \in [Effects -> Nat]
      /\ status = "ABSENT" /\ overlapped \in BOOLEAN /\ reran \in BOOLEAN
  BY DEF Init
<1>3. /\ pc \in [Attempts -> Steps]
      /\ seed = [a \in Attempts |-> seed[a]] /\ hand = [a \in Attempts |-> hand[a]]
      /\ \A a \in Attempts : hand[a].message \in Nat
  BY DEF Init, Steps, NoHand
<1>4. QED
  BY <1>1, <1>2, <1>3 DEF Types

(* what a step of one attempt does to where the attempts are                  *)
Moves(a) ==
  /\ pc' \in [Attempts -> Steps]
  /\ \A b \in Attempts : b # a => pc'[b] = pc[b] /\ seed'[b] = seed[b] /\ hand'[b] = hand[b]
  /\ seed' = [b \in Attempts |-> seed'[b]] /\ hand' = [b \in Attempts |-> hand'[b]]
  /\ hand'[a].message \in Nat

LEMMA InvokeMoves ==
  ASSUME Types, NEW a \in Attempts, Begin(a) \/ Invoke(a) \/ Fault(a) \/ Crash(a)
  PROVE  Moves(a)
<1> USE DEF Types, Goto, Steps
<1>1. CASE Begin(a)
  BY <1>1 DEF Begin, Moves
<1>2. CASE Find(a)
  BY <1>2 DEF Find, Moves
<1>3. CASE Start(a)
  BY <1>3 DEF Start, Moves
<1>4. CASE Mark(a)
  BY <1>4 DEF Mark, Moves
<1>5. CASE RunTurn(a)
  <2> DEFINE agent == NextAgent(protocol, seed[a])
             i == NextIndex(seed[a])
             h == [index |-> i, agent |-> agent, message |-> runs[i] + 1,
                   reads |-> VisibleTurns(protocol, agent, seed[a])]
  <2>1. i \in Indices /\ hand' = [hand EXCEPT ![a] = h] /\ UNCHANGED seed
    BY <1>5 DEF RunTurn
  <2>2. pc' \in [Attempts -> Steps] /\ \A b \in Attempts : b # a => pc'[b] = pc[b]
    BY <1>5 DEF RunTurn
  <2>3. h.message \in Nat
    BY <2>1
  <2> HIDE DEF h
  <2>4. QED
    BY <2>1, <2>2, <2>3 DEF Moves
<1>6. CASE LookUpEffect(a)
  BY <1>6 DEF LookUpEffect, Moves
<1>7. CASE RunTool(a)
  BY <1>7 DEF RunTool, Moves
<1>8. CASE RecordEffect(a)
  BY <1>8 DEF RecordEffect, Moves
<1>9. CASE RecordTurn(a)
  BY <1>9 DEF RecordTurn, Moves
<1>10. CASE RecordMessage(a)
  BY <1>10 DEF RecordMessage, WithTurn, Moves, NoHand
<1>11. CASE Aggregate(a)
  BY <1>11 DEF Aggregate, Moves
<1>12. CASE CompleteInteraction(a)
  BY <1>12 DEF CompleteInteraction, Moves
<1>13. CASE FailInteraction(a)
  BY <1>13 DEF FailInteraction, Moves
<1>14. CASE Report(a)
  BY <1>14 DEF Report, Leave, Moves, NoHand
<1>15. CASE Fault(a)
  BY <1>15 DEF Fault, Moves
<1>16. CASE Crash(a)
  BY <1>16 DEF Crash, Leave, Moves, NoHand
<1>17. QED
  BY <1>1, <1>2, <1>3, <1>4, <1>5, <1>6, <1>7, <1>8, <1>9, <1>10, <1>11, <1>12, <1>13,
     <1>14, <1>15, <1>16 DEF Invoke, InteractionCall

LEMMA TurnRecord ==
  ASSUME NEW s \in TurnStatus, NEW agent, NEW l \in Lease
  PROVE  IsTurn([status |-> s, agent |-> agent, lease |-> l])
BY DEF IsTurn

Records ==
  /\ turn = [i \in Indices |-> turn[i]] /\ \A i \in Indices : IsTurn(turn[i])
  /\ status \in {"ABSENT", "RUNNING", "COMPLETED", "FAILED"}
  /\ message \in [Indices -> Nat]
  /\ reads = [i \in Indices |-> reads[i]]

Counts ==
  /\ runs \in [Indices -> Nat] /\ wasted \in [Indices -> Nat]
  /\ effects \in [Effects -> Nat] /\ spoiled \in [Effects -> Nat]
  /\ overlapped \in BOOLEAN /\ reran \in BOOLEAN

LEMMA AttemptRecords ==
  ASSUME Types, NEW a \in Attempts, Begin(a) \/ Invoke(a) \/ Fault(a) \/ Crash(a)
  PROVE  Records'
<1> USE DEF Types, Records, interaction, ghosts
<1>1. CASE Begin(a) \/ Fault(a) \/ Crash(a)
  BY <1>1 DEF Begin, Fault, Crash
<1>2. CASE Find(a) \/ RunTurn(a) \/ LookUpEffect(a) \/ RunTool(a) \/ RecordEffect(a) \/ Report(a)
  BY <1>2 DEF Find, RunTurn, LookUpEffect, RunTool, RecordEffect, Report
<1>3. CASE Start(a) \/ Mark(a)
  BY <1>3 DEF Start, Mark, StartInteraction, MarkResumed
<1>4. CASE RecordTurn(a)
  <2>1. UNCHANGED <<status, message, reads>>
    BY <1>4 DEF RecordTurn, RecordDurableTurn
  <2>2. PICK i, agent :
          turn' = [turn EXCEPT ![i] =
            IF @.status = "ABSENT" THEN [NoTurn EXCEPT !.status = "COMPLETED", !.agent = agent]
            ELSE [@ EXCEPT !.status = "COMPLETED"]]
    BY <1>4 DEF RecordTurn, RecordDurableTurn
  <2>3. \A j \in Indices :
          \/ turn'[j] = turn[j]
          \/ turn'[j] = [status |-> "COMPLETED", agent |-> agent, lease |-> "none"]
          \/ turn'[j] = [status |-> "COMPLETED", agent |-> turn[j].agent, lease |-> turn[j].lease]
    <3> TAKE j \in Indices
    <3>1. turn[j] = [status |-> turn[j].status, agent |-> turn[j].agent, lease |-> turn[j].lease]
      BY DEF IsTurn
    <3>2. CASE j # i
      BY <2>2, <3>2
    <3>3. CASE j = i /\ turn[j].status = "ABSENT"
      BY <2>2, <3>3 DEF NoTurn
    <3>4. CASE j = i /\ turn[j].status # "ABSENT"
      <4>1. turn'[j] = [turn[j] EXCEPT !.status = "COMPLETED"]
        BY <2>2, <3>4
      <4>2. QED
        BY <3>1, <4>1
    <3>5. QED
      BY <3>2, <3>3, <3>4
  <2>4. \A j \in Indices : IsTurn(turn'[j])
    <3> TAKE j \in Indices
    <3>1. turn[j].lease \in Lease /\ "COMPLETED" \in TurnStatus /\ "none" \in Lease
      BY DEF IsTurn, TurnStatus, Lease
    <3>2. IsTurn(turn[j])
      OBVIOUS
    <3>3. /\ IsTurn([status |-> "COMPLETED", agent |-> agent, lease |-> "none"])
          /\ IsTurn([status |-> "COMPLETED", agent |-> turn[j].agent, lease |-> turn[j].lease])
      BY <3>1, TurnRecord
    <3>4. QED
      BY <2>3, <3>2, <3>3
  <2>5. turn' = [j \in Indices |-> turn'[j]]
    BY <2>2
  <2>6. QED
    BY <2>1, <2>4, <2>5
<1>5. CASE RecordMessage(a)
  BY <1>5 DEF RecordMessage, WithTurn, RecordDurableMessage
<1>6. CASE Aggregate(a)
  BY <1>6 DEF Aggregate, RecordDurableOutcome
<1>7. CASE CompleteInteraction(a) \/ FailInteraction(a)
  BY <1>7 DEF CompleteInteraction, FailInteraction, EndInteraction
<1>8. QED
  BY <1>1, <1>2, <1>3, <1>4, <1>5, <1>6, <1>7 DEF Invoke, InteractionCall

LEMMA AttemptCounts ==
  ASSUME Types, NEW a \in Attempts, Begin(a) \/ Invoke(a) \/ Fault(a) \/ Crash(a)
  PROVE  Counts'
<1> USE DEF Types, Counts, interaction, ghosts
<1>1. CASE Begin(a)
  BY <1>1 DEF Begin
<1>2. CASE Fault(a) \/ Crash(a)
  BY <1>2 DEF Fault, Crash, Waste
<1>3. CASE Find(a) \/ LookUpEffect(a) \/ RecordEffect(a) \/ Report(a)
  BY <1>3 DEF Find, LookUpEffect, RecordEffect, Report
<1>4. CASE RunTurn(a) \/ RunTool(a)
  BY <1>4 DEF RunTurn, RunTool
<1>5. CASE Start(a) \/ Mark(a) \/ RecordTurn(a) \/ RecordMessage(a)
  BY <1>5 DEF Start, Mark, RecordTurn, RecordMessage, WithTurn
<1>6. CASE Aggregate(a) \/ CompleteInteraction(a) \/ FailInteraction(a)
  BY <1>6 DEF Aggregate, CompleteInteraction, FailInteraction
<1>7. QED
  BY <1>1, <1>2, <1>3, <1>4, <1>5, <1>6 DEF Invoke, InteractionCall

(* what the lease operations and the node do to the records                   *)
Aside ==
  \/ Expire \/ Requeue \/ GrantTurnLease \/ RecoverTurnLeases
  \/ \E i \in Indices : ExpireTurnLease(i)
  \/ \E i \in Indices, completed \in BOOLEAN : ReleaseTurnLease(i, completed)

LEMMA AsideUnchanged ==
  ASSUME Aside
  PROVE  UNCHANGED <<status, message, outcome, local, ghosts>>
BY DEF Aside, Expire, Requeue, GrantTurnLease, GrantDurableTurnLease, RecoverTurnLeases, RecoverDurableTurnLeases, ExpireTurnLease,
       ReleaseTurnLease, ReleaseDurableTurnLease, LeaseIsHeld, SetLease, Elsewhere, interaction

LEMMA AsideTurns ==
  ASSUME Types, Aside
  PROVE  /\ turn' = [i \in Indices |-> turn'[i]]
         /\ \A i \in Indices :
              /\ IsTurn(turn'[i])
              /\ turn[i].status = "COMPLETED" =>
                   turn'[i].status = "COMPLETED" /\ turn'[i].agent = turn[i].agent
<1> USE DEF Types
<1>0. \A i \in Indices : IsTurn(turn[i]) /\ turn[i].lease \in Lease /\ turn[i].status \in TurnStatus
  BY DEF IsTurn
<1> DEFINE Fine(i) ==
      /\ IsTurn(turn'[i])
      /\ turn[i].status = "COMPLETED" =>
           turn'[i].status = "COMPLETED" /\ turn'[i].agent = turn[i].agent
<1> {"PENDING", "COMPLETED"} \subseteq TurnStatus /\ {"none", "live", "expired"} \subseteq Lease
  BY DEF TurnStatus, Lease
<1>1. CASE Expire \/ Requeue
  BY <1>1 DEF Expire, Requeue, interaction
<1>2. CASE GrantTurnLease
  <2>1. PICK i, agent :
          /\ i \in Indices
          /\ turn[i].status # "COMPLETED"
          /\ turn' = [turn EXCEPT ![i] =
               [status |-> "PENDING", agent |-> IF @.status = "ABSENT" THEN agent ELSE @.agent,
                lease |-> "live"]]
    BY <1>2 DEF GrantTurnLease, GrantDurableTurnLease
  <2> DEFINE g == IF turn[i].status = "ABSENT" THEN agent ELSE turn[i].agent
  <2>2. turn'[i] = [status |-> "PENDING", agent |-> g, lease |-> "live"]
    BY <2>1
  <2> HIDE DEF g
  <2>3. Fine(i)
    BY <2>1, <2>2, TurnRecord
  <2>4. \A j \in Indices : j # i => turn'[j] = turn[j]
    BY <2>1
  <2>5. \A j \in Indices : Fine(j)
    BY <2>3, <2>4, <1>0
  <2>6. QED
    BY <2>1, <2>5
<1>3. CASE RecoverTurnLeases
  <2>1. turn' = [i \in Indices |->
          IF i \in Expired THEN [turn[i] EXCEPT !.status = "PENDING", !.lease = "none"]
          ELSE turn[i]]
    BY <1>3 DEF RecoverTurnLeases, RecoverDurableTurnLeases
  <2>2. ASSUME NEW i \in Indices PROVE Fine(i)
    <3>1. CASE i \in Expired
      <4>1. turn'[i] = [turn[i] EXCEPT !.status = "PENDING", !.lease = "none"]
        BY <2>1, <3>1
      <4>2. turn[i] = [status |-> turn[i].status, agent |-> turn[i].agent, lease |-> turn[i].lease]
        BY DEF IsTurn
      <4>3. turn'[i] = [status |-> "PENDING", agent |-> turn[i].agent, lease |-> "none"]
        BY <4>1, <4>2
      <4>4. turn[i].status # "COMPLETED"
        BY <3>1 DEF Expired
      <4>5. QED
        BY <4>3, <4>4, TurnRecord
    <3>2. CASE i \notin Expired
      BY <2>1, <3>2, <1>0
    <3>3. QED
      BY <3>1, <3>2
  <2>3. QED
    BY <2>1, <2>2
<1>4. CASE \E i \in Indices : ExpireTurnLease(i)
  <2>1. PICK i \in Indices : turn' = [turn EXCEPT ![i].lease = "expired"]
    BY <1>4 DEF ExpireTurnLease, SetLease
  <2>2. turn[i] = [status |-> turn[i].status, agent |-> turn[i].agent, lease |-> turn[i].lease]
    BY DEF IsTurn
  <2>3. turn'[i] = [status |-> turn[i].status, agent |-> turn[i].agent, lease |-> "expired"]
    BY <2>1, <2>2
  <2>4. Fine(i)
    BY <2>3, <1>0, TurnRecord
  <2>5. \A j \in Indices : Fine(j)
    BY <2>1, <2>4, <1>0
  <2>6. QED
    BY <2>1, <2>5
<1>5. CASE \E i \in Indices, completed \in BOOLEAN : ReleaseTurnLease(i, completed)
  <2>1. PICK i \in Indices, completed \in BOOLEAN :
          turn' = [turn EXCEPT ![i].lease = "none",
                               ![i].status = IF completed THEN "COMPLETED" ELSE @]
    BY <1>5 DEF ReleaseTurnLease, ReleaseDurableTurnLease, LeaseIsHeld
  <2> DEFINE st == IF completed THEN "COMPLETED" ELSE turn[i].status
  <2>2. turn[i] = [status |-> turn[i].status, agent |-> turn[i].agent, lease |-> turn[i].lease]
    BY DEF IsTurn
  <2>3. turn'[i] = [status |-> st, agent |-> turn[i].agent, lease |-> "none"]
    BY <2>1, <2>2
  <2>4. st \in TurnStatus /\ (turn[i].status = "COMPLETED" => st = "COMPLETED")
    BY <1>0
  <2> HIDE DEF st
  <2>5. Fine(i)
    BY <2>3, <2>4, TurnRecord
  <2>6. \A j \in Indices : Fine(j)
    BY <2>1, <2>5, <1>0
  <2>7. QED
    BY <2>1, <2>6
<1>6. QED
  BY <1>1, <1>2, <1>3, <1>4, <1>5 DEF Aside

LEMMA NextSplits ==
  ASSUME Next
  PROVE  \/ \E a \in Attempts : Begin(a) \/ Invoke(a) \/ Fault(a) \/ Crash(a)
         \/ Aside
BY DEF Next, TurnLeaseCall, Aside

LEMMA StepTypes ==
  ASSUME Types, [Next]_vars
  PROVE  Types'
<1>1. ASSUME NEW a \in Attempts, Begin(a) \/ Invoke(a) \/ Fault(a) \/ Crash(a)
      PROVE  Types'
  <2>1. Records' /\ Counts' /\ Moves(a)
    BY <1>1, AttemptRecords, AttemptCounts, InvokeMoves
  <2>2. \A b \in Attempts : hand'[b].message \in Nat
    BY <2>1 DEF Moves, Types
  <2>3. QED
    BY <2>1, <2>2 DEF Records, Counts, Moves, Types
<1>2. ASSUME Aside PROVE Types'
  BY <1>2, AsideUnchanged, AsideTurns DEF Types, IsTurn, local, ghosts
<1>3. CASE UNCHANGED vars
  BY <1>3 DEF vars, interaction, local, ghosts, Types, IsTurn
<1>4. QED
  BY <1>1, <1>2, <1>3, NextSplits

------------------------------------------------------------------------------
(* What is recorded stays *)

Kept ==
  /\ \A i \in Indices :
       /\ turn[i].status = "COMPLETED" =>
            turn'[i].status = "COMPLETED" /\ turn'[i].agent = turn[i].agent
       /\ message[i] # NoMessage => message'[i] = message[i]
  /\ outcome # NoOutcome => outcome' = outcome
  /\ status \in {"COMPLETED", "FAILED"} => status' \in {"COMPLETED", "FAILED"}

LEMMA StepKeeps ==
  ASSUME Types, Next
  PROVE  Kept
<1>1. ASSUME NEW a \in Attempts, Begin(a) \/ Fault(a) \/ Crash(a)
      PROVE  Kept
  BY <1>1 DEF Begin, Fault, Crash, interaction, Kept
<1>2. ASSUME NEW a \in Attempts, Invoke(a)
      PROVE  Kept
  <2> USE DEF interaction, Kept
  <2>1. CASE Find(a) \/ RunTurn(a) \/ LookUpEffect(a) \/ RunTool(a) \/ RecordEffect(a) \/ Report(a)
    BY <2>1 DEF Find, RunTurn, LookUpEffect, RunTool, RecordEffect, Report
  <2>2. CASE Start(a) \/ Mark(a)
    BY <2>2 DEF Start, Mark, StartInteraction, MarkResumed
  <2>3. CASE RecordTurn(a)
    <3>1. UNCHANGED <<status, message, outcome>>
      BY <2>3 DEF RecordTurn, RecordDurableTurn
    <3>2. PICK i, agent :
            turn' = [turn EXCEPT ![i] =
              IF @.status = "ABSENT" THEN [NoTurn EXCEPT !.status = "COMPLETED", !.agent = agent]
              ELSE [@ EXCEPT !.status = "COMPLETED"]]
      BY <2>3 DEF RecordTurn, RecordDurableTurn
    <3>3. \A j \in Indices : turn[j].status = "COMPLETED" =>
            turn'[j].status = "COMPLETED" /\ turn'[j].agent = turn[j].agent
      BY <3>2 DEF Types, IsTurn
    <3>4. QED
      BY <3>1, <3>3
  <2>4. CASE RecordMessage(a)
    BY <2>4 DEF RecordMessage, WithTurn, RecordDurableMessage, Types
  <2>5. CASE Aggregate(a)
    BY <2>5 DEF Aggregate, RecordDurableOutcome
  <2>6. CASE CompleteInteraction(a) \/ FailInteraction(a)
    BY <2>6 DEF CompleteInteraction, FailInteraction, EndInteraction
  <2>7. QED
    BY <1>2, <2>1, <2>2, <2>3, <2>4, <2>5, <2>6 DEF Invoke, InteractionCall
<1>3. ASSUME Aside PROVE Kept
  BY <1>3, AsideUnchanged, AsideTurns DEF Kept
<1>4. QED
  BY <1>1, <1>2, <1>3, NextSplits

(* The durable interaction is append-only, for any number of attempts and any *)
(* interleaving of them with recovered leases (session_durable_interactions). *)
THEOREM HistoryStays == Spec => HistoryIsKept
<1>1. Types /\ [Next]_vars => Kept \/ UNCHANGED vars
  BY StepKeeps
<1>2. Spec => []Types
  BY InitTypes, StepTypes, PTL DEF Spec
<1>3. Kept \/ UNCHANGED vars =>
        [/\ \A i \in Indices :
              /\ turn[i].status = "COMPLETED" =>
                   turn'[i].status = "COMPLETED" /\ turn'[i].agent = turn[i].agent
              /\ message[i] # NoMessage => message'[i] = message[i]
         /\ outcome # NoOutcome => outcome' = outcome
         /\ status \in {"COMPLETED", "FAILED"} => status' \in {"COMPLETED", "FAILED"}]_vars
  BY DEF Kept
<1>4. QED
  BY <1>1, <1>2, <1>3, PTL DEF Spec, HistoryIsKept

------------------------------------------------------------------------------
(* Tool effects are not repeated *)

Call(a) == Calls[hand[a].index]

OneActive ==
  ~overlapped => \A a, b \in Attempts : pc[a] # "idle" /\ pc[b] # "idle" => a = b

Called == \A a \in Attempts : pc[a] \in {"tool", "effect", "ledger"} => Call(a) \in Effects

(* an effect that took place is in the ledger, about to be, or spoiled        *)
Accounted ==
  /\ \A a \in Attempts : pc[a] = "effect" => Call(a) \notin ledger
  /\ \A f \in Effects : effects[f] <= 1 + spoiled[f]
  /\ \A f \in Effects :
       f \notin ledger /\ (\A a \in Attempts : pc[a] = "ledger" => Call(a) # f)
         => effects[f] <= spoiled[f]

EffectInv == Types /\ OneActive /\ Called /\ (~overlapped => Accounted)

LEMMA InitEffects == Init => EffectInv
BY InitTypes DEF Init, EffectInv, OneActive, Called, Accounted

(* a step that neither calls nor records *)
Silent(a) ==
  /\ UNCHANGED <<ledger, effects, spoiled, overlapped>>
  /\ pc[a] \notin {"idle", "ledger"}
  /\ pc'[a] \notin {"effect", "ledger"}
  /\ pc'[a] = "tool" => Call(a)' \in Effects

LEMMA SilentStep ==
  ASSUME EffectInv, NEW a \in Attempts, Moves(a), Silent(a)
  PROVE  (OneActive /\ Called /\ (~overlapped => Accounted))'
<1> USE DEF EffectInv
<1>1. \A b \in Attempts : b # a => pc'[b] = pc[b] /\ Call(b)' = Call(b)
  BY DEF Moves, Call
<1>2. OneActive'
  BY <1>1 DEF OneActive, Silent
<1>3. Called'
  BY <1>1 DEF Called, Silent
<1>4. ASSUME ~overlapped' PROVE Accounted'
  <2>1. Accounted /\ UNCHANGED <<ledger, effects, spoiled>>
    BY <1>4 DEF Silent
  <2>2. \A b \in Attempts : pc'[b] = "effect" => pc[b] = "effect" /\ Call(b)' = Call(b)
    BY <1>1 DEF Silent
  <2>3. \A b \in Attempts : pc[b] = "ledger" => pc'[b] = "ledger" /\ Call(b)' = Call(b)
    BY <1>1 DEF Silent
  <2>4. QED
    BY <2>1, <2>2, <2>3 DEF Accounted
<1>5. QED
  BY <1>2, <1>3, <1>4

LEMMA AttemptEffects ==
  ASSUME EffectInv, NEW a \in Attempts, Begin(a) \/ Invoke(a) \/ Fault(a) \/ Crash(a)
  PROVE  (OneActive /\ Called /\ (~overlapped => Accounted))'
<1> DEFINE Goal == (OneActive /\ Called /\ (~overlapped => Accounted))'
<1> USE DEF EffectInv
<1>0. Moves(a) /\ pc \in [Attempts -> Steps]
  BY InvokeMoves DEF Types
<1>a. \A b \in Attempts : b # a => pc'[b] = pc[b] /\ Call(b)' = Call(b)
  BY <1>0 DEF Moves, Call
<1>1. CASE Begin(a)
  <2>1. pc'[a] = "find" /\ UNCHANGED <<ledger, effects, spoiled>>
        /\ (~overlapped' => ~overlapped /\ \A b \in Attempts : pc[b] = "idle")
    BY <1>1, <1>0 DEF Begin, Goto, Active
  <2>2. QED
    BY <2>1, <1>a DEF OneActive, Called, Accounted
<1>2. CASE Find(a) \/ Start(a) \/ Mark(a) \/ RecordTurn(a) \/ RecordMessage(a)
  <2>1. Silent(a)
    BY <1>2, <1>0 DEF Find, Start, Mark, RecordTurn, RecordMessage, WithTurn, Silent, At, Goto, ghosts, local
  <2>2. QED
    BY <2>1, <1>0, SilentStep
<1>3. CASE Aggregate(a) \/ CompleteInteraction(a) \/ FailInteraction(a) \/ Report(a)
  <2>1. Silent(a)
    BY <1>3, <1>0 DEF Aggregate, CompleteInteraction, FailInteraction, Report, Leave, Silent, At, Goto, ghosts
  <2>2. QED
    BY <2>1, <1>0, SilentStep
<1>4. CASE RunTurn(a)
  <2> DEFINE i == NextIndex(seed[a])
             agent == NextAgent(protocol, seed[a])
             rest == VisibleTurns(protocol, agent, seed[a])
  <2>1. /\ i \in Indices /\ pc[a] = "next" /\ UNCHANGED <<ledger, effects, spoiled, overlapped>>
        /\ pc'[a] = IF Calls[i] = NoEffect THEN "turn" ELSE "tool"
        /\ hand' = [hand EXCEPT ![a] = [index |-> i, agent |-> agent, message |-> runs[i] + 1,
                                        reads |-> rest]]
    BY <1>4, <1>0 DEF RunTurn, At, Goto
  <2> HIDE DEF i, agent, rest
  <2>2. hand'[a].index = i
    BY <2>1 DEF Types
  <2>3. pc'[a] = "tool" => Call(a)' \in Effects
    BY <2>1, <2>2 DEF Call
  <2>4. Silent(a)
    BY <2>1, <2>3 DEF Silent
  <2>5. QED
    BY <2>4, <1>0, SilentStep
<1>5. CASE LookUpEffect(a)
  <2>1. /\ pc[a] = "tool" /\ UNCHANGED <<hand, ledger, effects, spoiled, overlapped>>
        /\ pc'[a] = IF Call(a) \in ledger THEN "turn" ELSE "effect"
    BY <1>5, <1>0 DEF LookUpEffect, KnownEffect, Call, At, Goto, ghosts
  <2>2. Call(a)' = Call(a)
    BY <2>1 DEF Call
  <2>3. QED
    BY <2>1, <2>2, <1>a DEF OneActive, Called, Accounted
<1>6. CASE RunTool(a)
  <2>0. CASE UNCHANGED effects /\ pc'[a] = "turn"
    <3>1. Silent(a)
      BY <1>6, <2>0, <1>0 DEF RunTool, Silent, At, Goto
    <3>2. QED
      BY <3>1, <1>0, SilentStep
  <2>1. CASE effects' = [effects EXCEPT ![Call(a)] = @ + 1] /\ pc'[a] = "ledger"
    <3>1. pc[a] = "effect" /\ Call(a) \in Effects /\ Call(a)' = Call(a)
          /\ UNCHANGED <<ledger, spoiled, overlapped>>
      BY <1>6 DEF RunTool, At, Call, Called
    <3>2. OneActive' /\ Called'
      BY <2>1, <3>1, <1>a DEF OneActive, Called
    <3>3. ASSUME ~overlapped PROVE Accounted'
      <4>1. Accounted /\ \A b \in Attempts : b # a => pc[b] = "idle"
        BY <3>1, <3>3 DEF OneActive
      <4>2. effects[Call(a)] <= spoiled[Call(a)]
        BY <3>1, <4>1 DEF Accounted
      <4>3. effects[Call(a)] \in Nat /\ spoiled[Call(a)] \in Nat
            /\ effects'[Call(a)] = effects[Call(a)] + 1
        BY <2>1, <3>1 DEF Types
      <4>4. effects'[Call(a)] <= 1 + spoiled'[Call(a)]
        BY <4>2, <4>3, <3>1
      <4>5. \A f \in Effects : f # Call(a) => effects'[f] = effects[f] /\ spoiled'[f] = spoiled[f]
        BY <2>1, <3>1 DEF Types
      <4>6. \A f \in Effects : effects'[f] <= 1 + spoiled'[f]
        BY <4>1, <4>4, <4>5 DEF Accounted
      <4>7. \A b \in Attempts : pc'[b] # "effect" /\ (pc[b] = "ledger" => FALSE)
        BY <4>1, <1>a, <2>1, <3>1
      <4>8. ASSUME NEW f \in Effects, f \notin ledger',
                   \A b \in Attempts : pc'[b] = "ledger" => Call(b)' # f
            PROVE  effects'[f] <= spoiled'[f]
        <5>1. f # Call(a)
          BY <4>8, <2>1, <3>1
        <5>2. effects[f] <= spoiled[f]
          BY <4>1, <4>7, <4>8, <3>1 DEF Accounted
        <5>3. QED
          BY <5>1, <5>2, <4>5
      <4>9. QED
        BY <4>6, <4>7, <4>8 DEF Accounted
    <3>4. QED
      BY <3>1, <3>2, <3>3
  <2>2. QED
    BY <1>6, <1>0, <2>0, <2>1 DEF RunTool, Goto, Call
<1>7. CASE RecordEffect(a)
  <2>1. /\ pc[a] = "ledger" /\ pc'[a] = "turn" /\ Call(a)' = Call(a)
        /\ ledger' = ledger \cup {Call(a)} /\ UNCHANGED <<effects, spoiled, overlapped>>
    BY <1>7, <1>0 DEF RecordEffect, At, Goto, Call, ghosts
  <2>2. OneActive' /\ Called'
    BY <2>1, <1>a DEF OneActive, Called
  <2>3. ASSUME ~overlapped PROVE Accounted'
    <3>1. Accounted /\ \A b \in Attempts : b # a => pc[b] = "idle"
      BY <2>1, <2>3 DEF OneActive
    <3>2. QED
      BY <3>1, <2>1, <1>a DEF Accounted
  <2>4. QED
    BY <2>1, <2>2, <2>3
<1>8. CASE Fault(a) \/ Crash(a)
  <2>1. /\ pc[a] # "idle" /\ pc'[a] \in {"failing", "failed", "idle"}
        /\ UNCHANGED <<ledger, effects, overlapped>>
        /\ Waste(a)
    BY <1>8, <1>0 DEF Fault, Crash, Leave, At, Goto
  <2>2. OneActive' /\ Called'
    BY <2>1, <1>a DEF OneActive, Called
  <2>3. CASE pc[a] # "ledger"
    <3>1. Silent(a)
      BY <2>1, <2>3 DEF Silent, Waste, At
    <3>2. QED
      BY <3>1, <1>0, SilentStep
  <2>4. CASE pc[a] = "ledger"
    <3>1. Call(a) \in Effects /\ spoiled' = [spoiled EXCEPT ![Call(a)] = @ + 1]
      BY <2>1, <2>4 DEF Waste, At, Called, Call
    <3>2. ASSUME ~overlapped PROVE Accounted'
      <4>1. Accounted
        BY <3>2
      <4>2. spoiled'[Call(a)] = spoiled[Call(a)] + 1 /\ spoiled[Call(a)] \in Nat
            /\ effects[Call(a)] \in Nat
        BY <3>1 DEF Types
      <4>3. \A f \in Effects : f # Call(a) => spoiled'[f] = spoiled[f]
        BY <3>1 DEF Types
      <4>4. effects'[Call(a)] <= spoiled'[Call(a)]
        BY <4>1, <4>2, <3>1, <2>1 DEF Accounted
      <4>5. effects'[Call(a)] <= 1 + spoiled'[Call(a)]
        BY <4>4, <4>2, <2>1
      <4>6. ASSUME NEW f \in Effects, f # Call(a), f \notin ledger',
                   \A b \in Attempts : pc'[b] = "ledger" => Call(b)' # f
            PROVE  effects'[f] <= spoiled'[f]
        <5>1. \A b \in Attempts : pc[b] = "ledger" => Call(b) # f
          BY <4>6, <1>a
        <5>2. effects[f] <= spoiled[f]
          BY <4>1, <4>6, <5>1, <2>1 DEF Accounted
        <5>3. QED
          BY <5>2, <4>3, <4>6, <2>1
      <4>7. \A b \in Attempts : pc'[b] = "effect" => Call(b)' \notin ledger'
        BY <4>1, <1>a, <2>1 DEF Accounted
      <4>8. \A f \in Effects : effects'[f] <= 1 + spoiled'[f]
        BY <4>1, <4>3, <4>5, <2>1 DEF Accounted
      <4>9. QED
        BY <4>4, <4>6, <4>7, <4>8 DEF Accounted
    <3>3. QED
      BY <3>2, <2>1, <2>2
  <2>5. QED
    BY <2>3, <2>4
<1>9. QED
  BY <1>1, <1>2, <1>3, <1>4, <1>5, <1>6, <1>7, <1>8 DEF Invoke, InteractionCall

LEMMA StepEffects ==
  ASSUME EffectInv, [Next]_vars
  PROVE  EffectInv'
<1>1. Types'
  BY StepTypes DEF EffectInv
<1>2. ASSUME NEW a \in Attempts, Begin(a) \/ Invoke(a) \/ Fault(a) \/ Crash(a)
      PROVE  EffectInv'
  BY <1>1, <1>2, AttemptEffects DEF EffectInv
<1>3. ASSUME UNCHANGED <<ledger, local, ghosts>>
      PROVE  EffectInv'
  BY <1>1, <1>3 DEF local, ghosts, EffectInv, OneActive, Called, Accounted, Call
<1>4. ASSUME Aside PROVE UNCHANGED ledger
  BY <1>4 DEF Aside, Expire, Requeue, GrantTurnLease, GrantDurableTurnLease, RecoverTurnLeases, RecoverDurableTurnLeases, ExpireTurnLease,
              ReleaseTurnLease, ReleaseDurableTurnLease, LeaseIsHeld, Elsewhere
<1>5. QED
  BY <1>2, <1>3, <1>4, NextSplits, AsideUnchanged DEF vars

(* The ledger of tool effects does what it is for, for any number of attempts *)
(* and calls, any crashes and any requeues (agent_tools.execute_tool_round):  *)
(* as long as no two attempts overlap, an effect takes place again only when  *)
(* a call was cut between the effect and its record.                          *)
THEOREM EffectsAreNotRepeated == Spec => []EffectsHappenOnce
<1>1. EffectInv => EffectsHappenOnce
  BY DEF EffectInv, Accounted, EffectsHappenOnce
<1>2. QED
  BY InitEffects, StepEffects, <1>1, PTL DEF Spec

------------------------------------------------------------------------------
(* The turns in order *)

Prefix(i) == [j \in 0..i - 1 |-> [agent |-> turn[j].agent, message |-> message[j]]]

Taken == Cardinality(Completed)

(* A turn is known only when those before it are completed, and its agent is  *)
(* the one the protocol names after them.                                     *)
OrderedTurns ==
  /\ Taken \in 0..MaxTurns /\ Completed = 0..Taken - 1
  /\ \A i \in Indices :
       turn[i].status # "ABSENT" =>
         i <= Taken /\ turn[i].agent # NoAgent /\ turn[i].agent = NextAgent(protocol, Prefix(i))
  /\ \A i \in Indices : turn[i].lease # "none" => turn[i].status # "ABSENT"
  /\ recovered # NoMark => recovered \in 0..Taken

Running == {"tool", "effect", "ledger", "turn", "message"}

(* An attempt knows a beginning of the completed turns, perhaps an old one,   *)
(* and the turn it runs is the one the protocol names after those.            *)
Following(a) ==
  /\ NextIndex(seed[a]) \in 0..Taken /\ DOMAIN seed[a] = 0..NextIndex(seed[a]) - 1
  /\ \A i \in DOMAIN seed[a] : seed[a][i].agent = turn[i].agent
  /\ pc[a] \in Running =>
       /\ hand[a].index = NextIndex(seed[a]) /\ hand[a].index \in Indices
       /\ hand[a].agent = NextAgent(protocol, seed[a]) /\ hand[a].agent # NoAgent
  /\ pc[a] = "message" => hand[a].index \in Completed

TurnInv == Types /\ OrderedTurns /\ \A a \in Attempts : Following(a)

(* The scheduler looks at the agents of the turns taken, not at what they     *)
(* said.                                                                      *)
LEMMA SameAgents ==
  ASSUME NEW p, NEW s, NEW t, DOMAIN s = DOMAIN t, \A i \in DOMAIN s : s[i].agent = t[i].agent
  PROVE  NextAgent(p, s) = NextAgent(p, t) /\ NextIndex(s) = NextIndex(t)
<1>1. Acted(s) = Acted(t)
  BY DEF Acted
<1>2. QED
  BY <1>1 DEF NextAgent, NextSpeaker, NextUnacted, NextIndex

LEMMA CountBelow ==
  ASSUME NEW n \in Nat
  PROVE  Cardinality(0..n - 1) = n
  BY FS_Interval

(* What a step may do to the turns: complete the next one, or make it known   *)
(* under the agent the protocol names.                                        *)
TurnsMove ==
  /\ UNCHANGED protocol
  /\ \A i \in Indices :
       /\ turn[i].status = "COMPLETED" => turn'[i].status = "COMPLETED"
       /\ turn'[i].status = "COMPLETED" => turn[i].status = "COMPLETED" \/ i = Taken
       /\ turn[i].status # "ABSENT" => turn'[i].agent = turn[i].agent
       /\ turn[i].status = "ABSENT" /\ turn'[i].status # "ABSENT" =>
            i = Taken /\ turn'[i].agent # NoAgent /\ turn'[i].agent = NextAgent(protocol, Prefix(i))
       /\ turn'[i].lease # "none" => turn'[i].status # "ABSENT"
  /\ recovered' # NoMark => recovered' \in 0..Taken

LEMMA TurnsMoved ==
  ASSUME OrderedTurns, TurnsMove
  PROVE  OrderedTurns' /\ Taken' \in {Taken, Taken + 1} /\ Completed \subseteq Completed'
<1> DEFINE n == Taken
<1>1. n \in 0..MaxTurns /\ Completed = 0..n - 1 /\ n \in Nat
  BY DEF OrderedTurns
<1>2. Completed \subseteq Completed' /\ Completed' \subseteq Completed \cup {n}
  BY DEF Completed, TurnsMove
<1>3. Completed' \subseteq Indices
  BY DEF Completed
<1> HIDE DEF n
<1>4. /\ Completed' = 0..Taken' - 1 /\ Taken' \in 0..MaxTurns
      /\ Taken' \in {n, n + 1}
  <2>1. CASE n \in Completed'
    <3>1. n \in Indices
      BY <1>3, <2>1
    <3>2. 0..n = 0..n - 1 \cup {n} /\ (n + 1) - 1 = n
      BY <1>1
    <3>3. Completed' = 0..n
      BY <1>1, <1>2, <2>1, <3>2
    <3>4. Cardinality(0..(n + 1) - 1) = n + 1
      BY <1>1, CountBelow
    <3>5. Taken' = n + 1
      BY <3>2, <3>3, <3>4 DEF Taken
    <3>6. QED
      BY <1>1, <3>1, <3>2, <3>3, <3>5 DEF Indices
  <2>2. CASE n \notin Completed'
    <3>1. Completed' = 0..n - 1
      BY <1>1, <1>2, <2>2
    <3>2. QED
      BY <1>1, <3>1, CountBelow DEF Taken
  <2>3. QED
    BY <2>1, <2>2
<1>5. ASSUME NEW i \in Indices, i <= n PROVE NextAgent(protocol, Prefix(i)') = NextAgent(protocol, Prefix(i))
  <2>1. DOMAIN Prefix(i) = 0..i - 1 /\ DOMAIN Prefix(i)' = 0..i - 1
    BY DEF Prefix
  <2>2. ASSUME NEW j \in 0..i - 1 PROVE Prefix(i)'[j].agent = Prefix(i)[j].agent
    <3>1. j \in Completed
      BY <1>1, <1>5 DEF Indices
    <3>2. turn'[j].agent = turn[j].agent
      BY <3>1 DEF Completed, TurnsMove
    <3>3. QED
      BY <3>2 DEF Prefix
  <2>3. QED
    BY <2>1, <2>2, SameAgents
<1>6. ASSUME NEW i \in Indices, turn'[i].status # "ABSENT"
      PROVE  i <= Taken' /\ turn'[i].agent # NoAgent /\ turn'[i].agent = NextAgent(protocol', Prefix(i)')
  <2>1. /\ i <= n /\ turn'[i].agent # NoAgent
        /\ turn'[i].agent = NextAgent(protocol, Prefix(i))
    <3>1. CASE turn[i].status = "ABSENT"
      BY <1>1, <1>6, <3>1 DEF TurnsMove, n
    <3>2. CASE turn[i].status # "ABSENT"
      BY <3>2 DEF TurnsMove, OrderedTurns, n
    <3>3. QED
      BY <3>1, <3>2
  <2>2. i <= Taken'
    BY <1>1, <1>4, <2>1 DEF Indices
  <2>3. QED
    BY <1>5, <2>1, <2>2 DEF TurnsMove
<1>7. \A i \in Indices : turn'[i].lease # "none" => turn'[i].status # "ABSENT"
  BY DEF TurnsMove
<1>8. recovered' # NoMark => recovered' \in 0..Taken'
  BY <1>1, <1>4 DEF TurnsMove, n
<1>9. QED
  BY <1>2, <1>4, <1>6, <1>7, <1>8 DEF OrderedTurns, n

LEMMA UnchangedTurnsMove ==
  ASSUME OrderedTurns, UNCHANGED <<protocol, turn, recovered>>
  PROVE  TurnsMove
  BY DEF OrderedTurns, TurnsMove

(* The turn an attempt runs is the next one, or one that is completed.        *)
LEMMA HandIsNext ==
  ASSUME TurnInv, NEW a \in Attempts, pc[a] \in Running
  PROVE  /\ hand[a].index \in Indices /\ hand[a].index \in 0..Taken
         /\ hand[a].agent # NoAgent
         /\ hand[a].agent = NextAgent(protocol, Prefix(hand[a].index))
         /\ turn[hand[a].index].status # "ABSENT" => turn[hand[a].index].agent = hand[a].agent
<1> DEFINE k == NextIndex(seed[a])
<1>1. /\ hand[a].index = k /\ k \in Indices /\ k \in 0..Taken /\ Taken \in Nat
      /\ hand[a].agent = NextAgent(protocol, seed[a]) /\ hand[a].agent # NoAgent
      /\ DOMAIN seed[a] = 0..k - 1 /\ \A i \in 0..k - 1 : seed[a][i].agent = turn[i].agent
  BY DEF TurnInv, Following, OrderedTurns
<1> HIDE DEF k
<1>2. DOMAIN Prefix(k) = 0..k - 1 /\ \A i \in 0..k - 1 : Prefix(k)[i].agent = turn[i].agent
  BY DEF Prefix
<1>3. NextAgent(protocol, seed[a]) = NextAgent(protocol, Prefix(k))
  BY <1>1, <1>2, SameAgents
<1>4. turn[k].status # "ABSENT" => turn[k].agent = NextAgent(protocol, Prefix(k))
  BY <1>1 DEF TurnInv, OrderedTurns
<1>5. QED
  BY <1>1, <1>3, <1>4

LEMMA RecordTurnMoves ==
  ASSUME TurnInv, NEW a \in Attempts, RecordTurn(a)
  PROVE  /\ TurnsMove /\ turn'[hand[a].index].status = "COMPLETED"
<1> DEFINE k == hand[a].index
<1>1. pc[a] = "turn" /\ UNCHANGED <<protocol, recovered>>
  BY DEF RecordTurn, At, RecordDurableTurn
<1>2. /\ k \in Indices /\ k \in 0..Taken /\ hand[a].agent # NoAgent
      /\ hand[a].agent = NextAgent(protocol, Prefix(k))
  BY <1>1, HandIsNext DEF Running
<1>3. turn' = [turn EXCEPT ![k] =
        IF @.status = "ABSENT" THEN [NoTurn EXCEPT !.status = "COMPLETED", !.agent = hand[a].agent]
        ELSE [@ EXCEPT !.status = "COMPLETED"]]
  BY DEF RecordTurn, RecordDurableTurn
<1>4. turn = [i \in Indices |-> turn[i]] /\ \A i \in Indices : IsTurn(turn[i])
  BY DEF TurnInv, Types
<1>5. turn[k].status # "COMPLETED" => k = Taken
  BY <1>2 DEF TurnInv, OrderedTurns, Completed
<1>6. \A i \in Indices : i # k => turn'[i] = turn[i]
  BY <1>3, <1>4
<1> HIDE DEF k
<1>7. CASE turn[k].status = "ABSENT"
  <2>1. turn'[k] = [status |-> "COMPLETED", agent |-> hand[a].agent, lease |-> "none"]
    BY <1>2, <1>3, <1>4, <1>7 DEF NoTurn
  <2>2. QED
    BY <1>1, <1>2, <1>5, <1>6, <1>7, <2>1 DEF TurnInv, OrderedTurns, TurnsMove, k
<1>8. CASE turn[k].status # "ABSENT"
  <2>1. turn'[k] = [turn[k] EXCEPT !.status = "COMPLETED"]
    BY <1>2, <1>3, <1>4, <1>8
  <2>2. turn[k] = [status |-> turn[k].status, agent |-> turn[k].agent, lease |-> turn[k].lease]
    BY <1>2, <1>4 DEF IsTurn
  <2>3. turn'[k] = [status |-> "COMPLETED", agent |-> turn[k].agent, lease |-> turn[k].lease]
    BY <2>1, <2>2
  <2>4. QED
    BY <1>1, <1>2, <1>5, <1>6, <1>8, <2>3 DEF TurnInv, OrderedTurns, TurnsMove, k
<1>9. QED
  BY <1>7, <1>8

LEMMA GrantMoves ==
  ASSUME TurnInv, GrantTurnLease
  PROVE  TurnsMove
<1> DEFINE agent == NextAgent(protocol, Durable)
           k == NextIndex(Durable)
<1>1. /\ agent # NoAgent /\ k \in Indices /\ turn[k].status # "COMPLETED"
      /\ UNCHANGED <<protocol, recovered>>
      /\ turn' = [turn EXCEPT ![k] =
           [status |-> "PENDING", agent |-> IF @.status = "ABSENT" THEN agent ELSE @.agent,
            lease |-> "live"]]
  BY DEF GrantTurnLease, GrantDurableTurnLease, Elsewhere
<1>2. Taken \in Nat /\ Completed = 0..Taken - 1
  BY DEF TurnInv, OrderedTurns
<1>3. k = Taken /\ agent = NextAgent(protocol, Prefix(k))
  <2>1. DOMAIN Durable = Completed
    BY DEF Durable
  <2>2. k = Taken
    BY <2>1 DEF NextIndex, Taken
  <2>3. DOMAIN Prefix(Taken) = 0..Taken - 1
        /\ \A i \in 0..Taken - 1 : Durable[i].agent = Prefix(Taken)[i].agent
    BY <1>2 DEF Durable, Prefix
  <2>4. QED
    BY <1>2, <2>1, <2>2, <2>3, SameAgents
<1>4. turn = [i \in Indices |-> turn[i]]
  BY DEF TurnInv, Types
<1> DEFINE g == IF turn[k].status = "ABSENT" THEN agent ELSE turn[k].agent
<1>5. turn'[k] = [status |-> "PENDING", agent |-> g, lease |-> "live"]
  BY <1>1, <1>4
<1>6. \A i \in Indices : i # k => turn'[i] = turn[i]
  BY <1>1, <1>4
<1>7. turn[k].status # "ABSENT" => g = turn[k].agent
  OBVIOUS
<1>8. turn[k].status = "ABSENT" => g = agent
  OBVIOUS
<1> HIDE DEF g, k, agent
<1>9. QED
  BY <1>1, <1>3, <1>5, <1>6, <1>7, <1>8 DEF TurnInv, OrderedTurns, TurnsMove

LEMMA RecoverMoves ==
  ASSUME TurnInv, RecoverTurnLeases
  PROVE  TurnsMove
<1>1. /\ UNCHANGED protocol /\ recovered' = LowestIncomplete
      /\ turn' = [i \in Indices |->
           IF i \in Expired THEN [turn[i] EXCEPT !.status = "PENDING", !.lease = "none"]
           ELSE turn[i]]
  BY DEF RecoverTurnLeases, RecoverDurableTurnLeases, Elsewhere
<1>2. Taken \in 0..MaxTurns /\ Completed = 0..Taken - 1
  BY DEF TurnInv, OrderedTurns
<1>3. LowestIncomplete = Taken
  <2>1. Taken \in 0..MaxTurns /\ Taken \notin Completed
        /\ \A j \in 0..MaxTurns : j \notin Completed => Taken <= j
    BY <1>2
  <2>2. \A i \in 0..MaxTurns :
          i \notin Completed /\ (\A j \in 0..MaxTurns : j \notin Completed => i <= j) => i = Taken
    BY <2>1
  <2>3. QED
    BY <2>1, <2>2 DEF LowestIncomplete
<1>4. ASSUME NEW i \in Indices, i \in Expired
      PROVE  /\ turn'[i].status = "PENDING" /\ turn'[i].agent = turn[i].agent
             /\ turn'[i].lease = "none" /\ turn[i].status \notin {"ABSENT", "COMPLETED"}
  <2>1. IsTurn(turn[i]) /\ turn'[i] = [turn[i] EXCEPT !.status = "PENDING", !.lease = "none"]
    BY <1>1, <1>4 DEF TurnInv, Types
  <2>2. turn[i] = [status |-> turn[i].status, agent |-> turn[i].agent, lease |-> turn[i].lease]
    BY <2>1 DEF IsTurn
  <2>3. turn'[i] = [status |-> "PENDING", agent |-> turn[i].agent, lease |-> "none"]
    BY <2>1, <2>2
  <2>4. turn[i].status \notin {"ABSENT", "COMPLETED"}
    BY <1>4 DEF Expired, TurnInv, OrderedTurns
  <2>5. QED
    BY <2>3, <2>4
<1>5. \A i \in Indices : i \notin Expired => turn'[i] = turn[i]
  BY <1>1
<1>6. ASSUME NEW i \in Indices
      PROVE  /\ turn[i].status = "COMPLETED" <=> turn'[i].status = "COMPLETED"
             /\ turn[i].status = "ABSENT" <=> turn'[i].status = "ABSENT"
             /\ turn'[i].agent = turn[i].agent
             /\ turn'[i].lease # "none" => turn[i].lease # "none"
  BY <1>4, <1>5
<1>7. \A i \in Indices : turn[i].lease # "none" => turn[i].status # "ABSENT"
  BY DEF TurnInv, OrderedTurns
<1>8. recovered' \in 0..Taken
  <2>1. recovered' = LowestIncomplete
    BY <1>1
  <2>2. Taken \in 0..Taken
    BY <1>2
  <2>3. QED
    BY <1>3, <2>1, <2>2
<1>9. QED
  BY <1>1, <1>6, <1>7, <1>8 DEF TurnsMove

LEMMA LeaseMoves ==
  ASSUME TurnInv, NEW i \in Indices, NEW completed \in BOOLEAN,
         ExpireTurnLease(i) \/ ReleaseTurnLease(i, completed)
  PROVE  TurnsMove
<1>1. /\ turn = [j \in Indices |-> turn[j]]
      /\ turn[i] = [status |-> turn[i].status, agent |-> turn[i].agent, lease |-> turn[i].lease]
  BY DEF TurnInv, Types, IsTurn
<1>2. /\ UNCHANGED <<protocol, recovered>> /\ turn[i].lease # "none"
      /\ \A j \in Indices : j # i => turn'[j] = turn[j]
  BY <1>1 DEF ExpireTurnLease, SetLease, ReleaseTurnLease, ReleaseDurableTurnLease, LeaseIsHeld, Elsewhere
<1>3. turn[i].status # "ABSENT" /\ (turn[i].status # "COMPLETED" => i = Taken)
  <2>1. turn[i].status # "ABSENT" /\ i <= Taken /\ Taken \in Nat /\ Completed = 0..Taken - 1
    BY <1>2 DEF TurnInv, OrderedTurns
  <2>2. QED
    BY <2>1 DEF Completed, Indices
<1>4. /\ turn'[i].agent = turn[i].agent
      /\ turn'[i].status \in {turn[i].status, "COMPLETED"}
      /\ turn[i].status = "COMPLETED" => turn'[i].status = "COMPLETED"
  <2>1. CASE ExpireTurnLease(i)
    <3>1. turn'[i] = [status |-> turn[i].status, agent |-> turn[i].agent, lease |-> "expired"]
      BY <1>1, <2>1 DEF ExpireTurnLease, SetLease
    <3>2. QED
      BY <3>1
  <2>2. CASE ReleaseTurnLease(i, completed)
    <3> DEFINE st == IF completed THEN "COMPLETED" ELSE turn[i].status
    <3>1. turn'[i] = [status |-> st, agent |-> turn[i].agent, lease |-> "none"]
      BY <1>1, <2>2 DEF ReleaseTurnLease, ReleaseDurableTurnLease, LeaseIsHeld
    <3>2. QED
      BY <3>1
  <2>3. QED
    BY <2>1, <2>2
<1>5. QED
  BY <1>2, <1>3, <1>4 DEF TurnInv, OrderedTurns, TurnsMove

LEMMA AsideMoves ==
  ASSUME TurnInv, Aside
  PROVE  TurnsMove
<1>1. Expire \/ Requeue => UNCHANGED <<protocol, turn, recovered>>
  BY DEF Expire, Requeue, interaction
<1>2. QED
  BY <1>1, UnchangedTurnsMove, GrantMoves, RecoverMoves, LeaseMoves DEF Aside, TurnInv

(* The turns an attempt moves.                                                *)
LEMMA AttemptMoves ==
  ASSUME TurnInv, NEW a \in Attempts, Begin(a) \/ Invoke(a) \/ Fault(a) \/ Crash(a)
  PROVE  TurnsMove
<1>1. CASE Begin(a) \/ Fault(a) \/ Crash(a)
  BY <1>1, UnchangedTurnsMove DEF Begin, Fault, Crash, interaction, TurnInv
<1>2. CASE Mark(a)
  <2>1. UNCHANGED <<protocol, turn>> /\ recovered' \in 0..Taken
    BY <1>2 DEF Mark, MarkResumed, TurnInv, Following
  <2>2. QED
    BY <2>1 DEF TurnInv, OrderedTurns, TurnsMove
<1>3. CASE RecordTurn(a)
  BY <1>3, RecordTurnMoves
<1>4. CASE Invoke(a) /\ ~Mark(a) /\ ~RecordTurn(a)
  <2>1. CASE Find(a) \/ RunTurn(a) \/ LookUpEffect(a) \/ RunTool(a) \/ RecordEffect(a) \/ Report(a)
    BY <2>1, UnchangedTurnsMove DEF Find, RunTurn, LookUpEffect, RunTool, RecordEffect, Report,
                                    interaction, TurnInv
  <2>2. CASE Start(a) \/ RecordMessage(a)
    BY <2>2, UnchangedTurnsMove DEF Start, StartInteraction, RecordMessage, WithTurn, RecordDurableMessage,
                                    TurnInv
  <2>3. CASE Aggregate(a)
    BY <2>3, UnchangedTurnsMove DEF Aggregate, RecordDurableOutcome, interaction, TurnInv
  <2>4. CASE CompleteInteraction(a) \/ FailInteraction(a)
    BY <2>4, UnchangedTurnsMove DEF CompleteInteraction, FailInteraction, EndInteraction, TurnInv
  <2>5. QED
    BY <1>4, <2>1, <2>2, <2>3, <2>4 DEF Invoke, InteractionCall
<1>5. QED
  BY <1>1, <1>2, <1>3, <1>4

(* What an attempt follows stays: the agents of completed turns do not change.*)
LEMMA FollowingKept ==
  ASSUME TurnInv, TurnsMove, NEW a \in Attempts, UNCHANGED <<seed[a], hand[a]>>,
         pc'[a] \in Running => pc[a] \in Running,
         pc'[a] = "message" => hand[a].index \in Completed'
  PROVE  Following(a)'
<1>1. OrderedTurns' /\ Taken' \in {Taken, Taken + 1} /\ Taken \in Nat
  BY TurnsMoved DEF TurnInv, OrderedTurns
<1>2. /\ NextIndex(seed[a]) \in 0..Taken /\ DOMAIN seed[a] = 0..NextIndex(seed[a]) - 1
      /\ Completed = 0..Taken - 1
  BY DEF TurnInv, Following, OrderedTurns
<1>3. ASSUME NEW i \in DOMAIN seed[a] PROVE seed[a][i].agent = turn'[i].agent
  <2>1. i \in Completed
    BY <1>1, <1>2
  <2>2. seed[a][i].agent = turn[i].agent
    BY DEF TurnInv, Following
  <2>3. QED
    BY <2>1, <2>2 DEF Completed, TurnsMove
<1>4. NextIndex(seed[a]) \in 0..Taken'
  BY <1>1, <1>2
<1>5. pc'[a] \in Running =>
        /\ hand[a].index = NextIndex(seed[a]) /\ hand[a].index \in Indices
        /\ hand[a].agent = NextAgent(protocol', seed[a]) /\ hand[a].agent # NoAgent
  BY DEF TurnInv, Following, TurnsMove
<1>6. NextIndex(seed[a])' = NextIndex(seed[a]) /\ NextAgent(protocol, seed[a])' = NextAgent(protocol', seed[a])
  BY DEF NextIndex, NextAgent, NextSpeaker, NextUnacted, Acted
<1>7. QED
  BY <1>2, <1>3, <1>4, <1>5, <1>6 DEF Following

LEMMA EmptyTranscript ==
  DOMAIN NoTranscript = 0..NextIndex(NoTranscript) - 1 /\ NextIndex(NoTranscript) = 0
<1>1. DOMAIN NoTranscript = {} /\ 0..0 - 1 = {}
  BY DEF NoTranscript
<1>2. Cardinality({}) = 0
  BY FS_EmptySet
<1>3. QED
  BY <1>1, <1>2 DEF NextIndex

LEMMA LeftFollows ==
  ASSUME TurnInv, TurnsMove, NEW a \in Attempts, seed'[a] = NoTranscript, pc'[a] \notin Running
  PROVE  Following(a)'
<1>1. Taken' \in Nat
  BY TurnsMoved DEF TurnInv, OrderedTurns
<1>2. /\ DOMAIN seed'[a] = 0..NextIndex(seed'[a]) - 1 /\ NextIndex(seed'[a]) = 0
      /\ DOMAIN NoTranscript = {}
  BY EmptyTranscript DEF NoTranscript
<1>3. NextIndex(seed[a])' = NextIndex(seed'[a]) /\ 0 \in 0..Taken' /\ "message" \in Running
  BY <1>1 DEF NextIndex, Running
<1>4. QED
  BY <1>2, <1>3 DEF Following

(* Reading back the durable turns, running the next one, adding it.           *)
LEMMA FindFollows ==
  ASSUME TurnInv, NEW a \in Attempts, Find(a)
  PROVE  Following(a)'
<1>1. /\ seed'[a] = IF Resumable THEN Durable ELSE NoTranscript
      /\ pc'[a] = "start" /\ UNCHANGED <<protocol, turn, recovered, hand>>
  BY DEF Find, Goto, SeedFromDurable, TurnInv, Types, interaction
<1>2. TurnsMove
  BY <1>1, UnchangedTurnsMove DEF TurnInv
<1>3. CASE ~Resumable
  BY <1>1, <1>2, <1>3, LeftFollows DEF Running
<1>4. CASE Resumable
  <2>1. Taken \in Nat /\ Completed = 0..Taken - 1 /\ Taken' = Taken
    BY <1>1 DEF TurnInv, OrderedTurns, Taken, Completed
  <2>2. seed'[a] = Durable /\ DOMAIN Durable = 0..Taken - 1
    BY <1>1, <1>4, <2>1 DEF Durable
  <2>3. NextIndex(seed[a])' = Taken
    BY <2>1, <2>2, CountBelow DEF NextIndex
  <2>4. \A i \in 0..Taken - 1 : Durable[i].agent = turn[i].agent
    BY <2>1 DEF Durable
  <2>5. QED
    BY <1>1, <2>1, <2>2, <2>3, <2>4 DEF Following, Running
<1>5. QED
  BY <1>3, <1>4

LEMMA RunTurnFollows ==
  ASSUME TurnInv, NEW a \in Attempts, RunTurn(a)
  PROVE  Following(a)'
<1> DEFINE agent == NextAgent(protocol, seed[a])
           k == NextIndex(seed[a])
           h == [index |-> k, agent |-> agent, message |-> runs[k] + 1,
                 reads |-> VisibleTurns(protocol, agent, seed[a])]
<1>1. /\ agent # NoAgent /\ k \in Indices /\ hand'[a] = h
      /\ pc'[a] \in {"tool", "turn"} /\ UNCHANGED <<protocol, turn, recovered, seed>>
  BY DEF RunTurn, Goto, TurnInv, Types, interaction
<1>2. hand'[a].index = k /\ hand'[a].agent = agent
  BY <1>1
<1>3. Taken' = Taken /\ k' = k /\ NextAgent(protocol, seed[a])' = agent
  BY <1>1 DEF Taken, Completed, NextIndex, NextAgent, NextSpeaker, NextUnacted, Acted
<1> HIDE DEF h
<1>4. QED
  BY <1>1, <1>2, <1>3 DEF TurnInv, Following

LEMMA RecordMessageFollows ==
  ASSUME TurnInv, NEW a \in Attempts, RecordMessage(a)
  PROVE  Following(a)'
<1> DEFINE k == hand[a].index
           m == [agent |-> hand[a].agent, message |-> hand[a].message]
<1>1. /\ pc[a] = "message" /\ pc'[a] = "next"
      /\ seed'[a] = [i \in DOMAIN seed[a] \cup {k} |-> IF i = k THEN m ELSE seed[a][i]]
      /\ UNCHANGED <<protocol, turn>>
  BY DEF RecordMessage, WithTurn, At, Goto, RecordDurableMessage, TurnInv, Types
<1>2. /\ k \in Completed /\ k \in Nat /\ k = NextIndex(seed[a])
      /\ turn[k].agent = hand[a].agent
  BY <1>1, HandIsNext DEF TurnInv, Following, Running, Completed, Indices
<1>3. /\ DOMAIN seed[a] = 0..k - 1 /\ k + 1 \in 0..Taken
      /\ \A i \in 0..k - 1 : seed[a][i].agent = turn[i].agent
  BY <1>2 DEF TurnInv, Following, OrderedTurns
<1>4. m.agent = turn[k].agent
  BY <1>2
<1> HIDE DEF k, m
<1>5. DOMAIN seed'[a] = 0..k /\ 0..k = 0..(k + 1) - 1
  BY <1>1, <1>2, <1>3
<1>6. NextIndex(seed[a])' = k + 1
  BY <1>2, <1>5, CountBelow DEF NextIndex
<1>7. ASSUME NEW i \in DOMAIN seed'[a] PROVE seed'[a][i].agent = turn[i].agent
  BY <1>1, <1>3, <1>4, <1>5, <1>7
<1>8. Taken' = Taken
  BY <1>1 DEF Taken, Completed
<1>9. QED
  BY <1>1, <1>3, <1>5, <1>6, <1>7, <1>8 DEF Following, Running

LEMMA AttemptFollows ==
  ASSUME TurnInv, NEW a \in Attempts, Begin(a) \/ Invoke(a) \/ Fault(a) \/ Crash(a)
  PROVE  Following(a)'
<1>0. TurnsMove /\ pc \in [Attempts -> Steps]
  BY AttemptMoves DEF TurnInv, Types
<1> USE DEF Goto, Running
<1>1. CASE Begin(a) \/ Start(a) \/ Mark(a)
  <2>1. UNCHANGED <<seed, hand>> /\ pc'[a] \in {"find", "mark", "next"}
    BY <1>0, <1>1 DEF Begin, Start, Mark
  <2>2. QED
    BY <1>0, <2>1, FollowingKept
<1>2. CASE Find(a)
  BY <1>2, FindFollows
<1>3. CASE RunTurn(a)
  BY <1>3, RunTurnFollows
<1>4. CASE LookUpEffect(a) \/ RunTool(a) \/ RecordEffect(a)
  <2>1. UNCHANGED <<seed, hand>> /\ pc[a] \in Running /\ pc'[a] \in {"effect", "ledger", "turn"}
    BY <1>0, <1>4 DEF LookUpEffect, RunTool, RecordEffect, At
  <2>2. QED
    BY <1>0, <2>1, FollowingKept
<1>5. CASE RecordTurn(a)
  <2>1. UNCHANGED <<seed, hand>> /\ pc[a] \in Running /\ pc'[a] = "message"
    BY <1>0, <1>5 DEF RecordTurn, At
  <2>2. hand[a].index \in Completed'
    BY <1>5, <2>1, RecordTurnMoves, HandIsNext DEF Completed
  <2>3. QED
    BY <1>0, <2>1, <2>2, FollowingKept
<1>6. CASE RecordMessage(a)
  BY <1>6, RecordMessageFollows
<1>7. CASE Aggregate(a) \/ CompleteInteraction(a) \/ FailInteraction(a) \/ Fault(a)
  <2>1. UNCHANGED <<seed, hand>> /\ pc'[a] \in {"complete", "done", "failing", "failed"}
    BY <1>0, <1>7 DEF Aggregate, CompleteInteraction, FailInteraction, Fault
  <2>2. QED
    BY <1>0, <2>1, FollowingKept
<1>8. CASE Report(a) \/ Crash(a)
  <2>1. seed'[a] = NoTranscript /\ pc'[a] = "idle"
    BY <1>0, <1>8 DEF Report, Crash, Leave, TurnInv, Types
  <2>2. QED
    BY <1>0, <2>1, LeftFollows
<1>9. QED
  BY <1>1, <1>2, <1>3, <1>4, <1>5, <1>6, <1>7, <1>8 DEF Invoke, InteractionCall

LEMMA InitTurns == Init => TurnInv
<1> SUFFICES ASSUME Init PROVE TurnInv
  OBVIOUS
<1>1. /\ \A i \in Indices : turn[i].status = "ABSENT" /\ turn[i].lease = "none"
      /\ recovered = NoMark
  BY DEF Init, NoTurn
<1>2. Completed = {} /\ 0..0 - 1 = {}
  BY <1>1 DEF Completed
<1>3. Taken = 0
  BY <1>2, FS_EmptySet DEF Taken
<1>4. OrderedTurns
  BY <1>1, <1>2, <1>3 DEF OrderedTurns
<1>5. ASSUME NEW a \in Attempts PROVE Following(a)
  <2>1. seed[a] = NoTranscript /\ pc[a] = "idle" /\ DOMAIN NoTranscript = {}
    BY DEF Init, NoTranscript
  <2>2. QED
    BY <1>3, <2>1, EmptyTranscript DEF Following, Running
<1>6. QED
  BY <1>4, <1>5, InitTypes DEF TurnInv

LEMMA StepTurns ==
  ASSUME TurnInv, [Next]_vars
  PROVE  TurnInv' /\ TurnsMove
<1>0. Types' /\ pc \in [Attempts -> Steps]
  BY StepTypes DEF TurnInv, Types
<1>1. ASSUME NEW a \in Attempts, Begin(a) \/ Invoke(a) \/ Fault(a) \/ Crash(a)
      PROVE  TurnInv' /\ TurnsMove
  <2>1. TurnsMove /\ OrderedTurns' /\ Following(a)' /\ Completed \subseteq Completed'
    BY <1>1, AttemptMoves, AttemptFollows, TurnsMoved DEF TurnInv
  <2>2. ASSUME NEW b \in Attempts, b # a PROVE Following(b)'
    <3>1. pc'[b] = pc[b] /\ UNCHANGED <<seed[b], hand[b]>>
      BY <1>1, <2>2, InvokeMoves DEF Moves, TurnInv
    <3>2. pc[b] = "message" => hand[b].index \in Completed'
      BY <2>1 DEF TurnInv, Following
    <3>3. QED
      BY <2>1, <3>1, <3>2, FollowingKept
  <2>3. QED
    BY <1>0, <2>1, <2>2 DEF TurnInv
<1>2. ASSUME TurnsMove, UNCHANGED <<pc, seed, hand>>
      PROVE  TurnInv' /\ TurnsMove
  <2>1. OrderedTurns' /\ Completed \subseteq Completed'
    BY <1>2, TurnsMoved DEF TurnInv
  <2>2. ASSUME NEW b \in Attempts PROVE Following(b)'
    <3>1. pc[b] = "message" => hand[b].index \in Completed'
      BY <2>1 DEF TurnInv, Following
    <3>2. QED
      BY <1>2, <3>1, FollowingKept
  <2>3. QED
    BY <1>0, <1>2, <2>1, <2>2 DEF TurnInv
<1>3. CASE Aside
  BY <1>2, <1>3, AsideMoves, AsideUnchanged DEF local
<1>4. CASE UNCHANGED vars
  BY <1>2, <1>4, UnchangedTurnsMove DEF vars, interaction, local, TurnInv
<1>5. QED
  BY <1>1, <1>3, <1>4, NextSplits

------------------------------------------------------------------------------
(* No recorded turn is run again *)

Unrecorded == {"tool", "effect", "ledger", "turn"}
Reading == {"start", "mark", "next"}

Spent(i) == runs[i] > wasted[i]

(* Nothing is known of an interaction before it starts.                       *)
Started ==
  /\ status = "ABSENT" => \A i \in Indices : turn[i].status = "ABSENT"
  /\ \A a \in Attempts : pc[a] \in {"mark", "next"} \cup Running => status # "ABSENT"

(* A run that was not cut is recorded or about to be.                         *)
RunsAccounted ==
  /\ \A i \in Indices : wasted[i] <= runs[i] /\ runs[i] <= 1 + wasted[i]
  /\ \A i \in Indices :
       Spent(i) => i \in Completed \/ \E a \in Attempts : pc[a] \in Unrecorded /\ hand[a].index = i

(* An attempt knows every turn that was run and not cut, but the one it runs. *)
Knows(a) ==
  /\ \A i \in Indices :
       Spent(i) =>
         /\ pc[a] \in Reading => i \in DOMAIN seed[a]
         /\ pc[a] \in Running => i \in DOMAIN seed[a] \cup {hand[a].index}
  /\ pc[a] \in Running => Spent(hand[a].index)

ResumeInv ==
  /\ EffectInv /\ TurnInv /\ Started
  /\ Undisturbed => RunsAccounted /\ \A a \in Attempts : Knows(a)

LEMMA InitResume == Init => ResumeInv
BY InitEffects, InitTurns
   DEF Init, ResumeInv, Started, RunsAccounted, Knows, Spent, NoTurn, Reading, Running

LEMMA StepStarted ==
  ASSUME TurnInv, Started, [Next]_vars
  PROVE  Started'
<1> USE DEF Started, Running
<1>0. /\ pc \in [Attempts -> Steps]
      /\ \A i \in Indices : turn[i].lease # "none" => turn[i].status # "ABSENT"
      /\ \A i \in Indices : turn[i] = [status |-> turn[i].status, agent |-> turn[i].agent,
                                       lease |-> turn[i].lease]
  BY DEF TurnInv, Types, OrderedTurns, IsTurn
<1>1. ASSUME NEW a \in Attempts, Begin(a) \/ Invoke(a) \/ Fault(a) \/ Crash(a)
      PROVE  Started'
  <2>0. \A b \in Attempts : b # a => pc'[b] = pc[b]
    BY <1>1, InvokeMoves DEF Moves, TurnInv
  <2> USE DEF Goto, At, interaction
  <2>1. CASE Begin(a) \/ Find(a) \/ Fault(a) \/ Crash(a)
    <3>1. UNCHANGED <<status, turn>> /\ pc'[a] \in {"find", "start", "idle", "failing", "failed"}
      BY <1>0, <2>1 DEF Begin, Find, Fault, Crash, Leave
    <3>2. QED
      BY <2>0, <3>1
  <2>2. CASE Start(a)
    <3>1. UNCHANGED turn /\ status' # "ABSENT"
      BY <2>2 DEF Start, StartInteraction
    <3>2. QED
      BY <3>1
  <2>3. CASE CompleteInteraction(a) \/ FailInteraction(a)
    BY <2>3 DEF CompleteInteraction, FailInteraction, EndInteraction
  <2>4. CASE Mark(a) \/ RunTurn(a) \/ LookUpEffect(a) \/ RunTool(a) \/ RecordEffect(a)
    <3>1. UNCHANGED <<status, turn>> /\ status # "ABSENT"
      BY <2>4 DEF Mark, MarkResumed, RunTurn, LookUpEffect, RunTool, RecordEffect
    <3>2. QED
      BY <3>1
  <2>5. CASE RecordTurn(a) \/ RecordMessage(a) \/ Aggregate(a)
    <3>1. UNCHANGED status /\ status # "ABSENT"
      BY <2>5 DEF RecordTurn, RecordDurableTurn, RecordMessage, WithTurn, RecordDurableMessage, Aggregate,
                  RecordDurableOutcome
    <3>2. QED
      BY <3>1
  <2>6. CASE Report(a)
    <3>1. UNCHANGED <<status, turn>> /\ pc'[a] = "idle"
      BY <1>0, <2>6 DEF Report, Leave
    <3>2. QED
      BY <2>0, <3>1
  <2>7. QED
    BY <1>1, <2>1, <2>2, <2>3, <2>4, <2>5, <2>6 DEF Invoke, InteractionCall
<1>2. ASSUME Aside PROVE Started'
  <2>1. UNCHANGED <<status, pc>>
    BY <1>2, AsideUnchanged DEF local
  <2>2. ASSUME status = "ABSENT", NEW i \in Indices PROVE turn'[i].status = "ABSENT"
    <3>1. \A j \in Indices : turn[j].status = "ABSENT" /\ turn[j].lease = "none"
      BY <1>0, <2>2
    <3>2. UNCHANGED turn
      BY <1>2, <2>2, <3>1 DEF Aside, Expire, Requeue, GrantTurnLease, GrantDurableTurnLease, RecoverTurnLeases, RecoverDurableTurnLeases, Expired,
                              ExpireTurnLease, ReleaseTurnLease, ReleaseDurableTurnLease, LeaseIsHeld, interaction
    <3>3. QED
      BY <3>1, <3>2
  <2>3. QED
    BY <2>1, <2>2
<1>3. CASE UNCHANGED vars
  BY <1>3 DEF vars, interaction, local
<1>4. QED
  BY <1>1, <1>2, <1>3, NextSplits

(* While attempts do not overlap, the one that steps is alone.                *)
LEMMA Alone ==
  ASSUME EffectInv, NEW a \in Attempts, Begin(a) \/ Invoke(a) \/ Fault(a) \/ Crash(a), Undisturbed'
  PROVE  Undisturbed /\ \A b \in Attempts : b # a => pc[b] = "idle" /\ pc'[b] = "idle"
<1>0. Moves(a) /\ ~overlapped' /\ ~reran'
  BY InvokeMoves DEF EffectInv, Undisturbed
<1>1. CASE Begin(a)
  BY <1>0, <1>1 DEF Begin, Active, Moves, Undisturbed
<1>2. CASE ~Begin(a)
  <2>1. UNCHANGED overlapped /\ pc[a] # "idle"
    <3> USE DEF At, ghosts
    <3>1. CASE Find(a) \/ Start(a) \/ Mark(a) \/ RunTurn(a) \/ LookUpEffect(a) \/ RunTool(a)
      BY <3>1 DEF Find, Start, Mark, RunTurn, LookUpEffect, RunTool
    <3>2. CASE RecordEffect(a) \/ RecordTurn(a) \/ RecordMessage(a) \/ Aggregate(a)
      BY <3>2 DEF RecordEffect, RecordTurn, RecordMessage, WithTurn, Aggregate
    <3>3. CASE CompleteInteraction(a) \/ FailInteraction(a) \/ Report(a)
      BY <3>3 DEF CompleteInteraction, FailInteraction, Report
    <3>4. CASE Fault(a) \/ Crash(a)
      BY <3>4 DEF Fault, Crash
    <3>5. QED
      BY <1>2, <3>1, <3>2, <3>3, <3>4 DEF Invoke, InteractionCall
  <2>2. ~reran
    <3>1. CASE Find(a)
      BY <1>0, <3>1 DEF Find
    <3>2. CASE Start(a) \/ Mark(a) \/ RunTurn(a) \/ LookUpEffect(a) \/ RunTool(a) \/ RecordEffect(a)
      BY <1>0, <3>2 DEF Start, Mark, RunTurn, LookUpEffect, RunTool, RecordEffect, ghosts
    <3>3. CASE RecordTurn(a) \/ RecordMessage(a) \/ Aggregate(a) \/ CompleteInteraction(a)
               \/ FailInteraction(a) \/ Report(a) \/ Fault(a) \/ Crash(a)
      BY <1>0, <3>3 DEF RecordTurn, RecordMessage, WithTurn, Aggregate, CompleteInteraction,
                        FailInteraction, Report, Fault, Crash, ghosts
    <3>4. QED
      BY <1>2, <3>1, <3>2, <3>3 DEF Invoke, InteractionCall
  <2>3. QED
    BY <1>0, <2>1, <2>2 DEF EffectInv, OneActive, Moves, Undisturbed
<1>3. QED
  BY <1>1, <1>2

(* What RunsAccounted and Knows say of an attempt that is alone.              *)
Accountable(a) ==
  /\ \A i \in Indices : wasted[i] <= runs[i] /\ runs[i] <= 1 + wasted[i]
  /\ \A i \in Indices :
       Spent(i) => i \in Completed \/ (pc[a] \in Unrecorded /\ hand[a].index = i)
  /\ Knows(a)

(* A resumption from an interaction that has not ended knows what is          *)
(* completed.                                                                 *)
LEMMA FindReads ==
  ASSUME TurnInv, Started, NEW a \in Attempts, Find(a), ~reran'
  PROVE  /\ DOMAIN seed'[a] = Completed
         /\ \A i \in Completed : seed'[a][i] = [agent |-> turn[i].agent, message |-> message[i]]
<1>1. /\ status \notin {"COMPLETED", "FAILED"}
      /\ seed'[a] = IF Resumable THEN Durable ELSE NoTranscript
  BY DEF Find, SeedFromDurable, TurnInv, Types
<1>2. status \in {"ABSENT", "RUNNING"}
  BY <1>1 DEF TurnInv, Types
<1>3. CASE Resumable
  BY <1>1, <1>3 DEF Durable
<1>4. CASE ~Resumable
  <2>1. Completed = {}
    BY <1>2, <1>4 DEF Resumable, Started, Completed
  <2>2. DOMAIN NoTranscript = {}
    BY DEF NoTranscript
  <2>3. QED
    BY <1>1, <1>4, <2>1, <2>2
<1>5. QED
  BY <1>3, <1>4

LEMMA RunTurnAccounted ==
  ASSUME TurnInv, NEW a \in Attempts, Accountable(a), RunTurn(a)
  PROVE  Accountable(a)'
<1> DEFINE agent == NextAgent(protocol, seed[a])
           k == NextIndex(seed[a])
           h == [index |-> k, agent |-> agent, message |-> runs[k] + 1,
                 reads |-> VisibleTurns(protocol, agent, seed[a])]
<1>1. /\ pc[a] = "next" /\ pc'[a] \in {"tool", "turn"} /\ k \in Indices /\ hand'[a] = h
      /\ UNCHANGED <<turn, seed, wasted>> /\ runs' = [runs EXCEPT ![k] = @ + 1]
      /\ runs \in [Indices -> Nat] /\ wasted \in [Indices -> Nat]
  BY DEF RunTurn, Goto, At, TurnInv, Types, interaction
<1>2. hand'[a].index = k /\ k \notin DOMAIN seed[a]
  <2>1. DOMAIN seed[a] = 0..k - 1 /\ k \in Nat
    BY <1>1 DEF TurnInv, Following, Indices
  <2>2. QED
    BY <1>1, <2>1
<1> HIDE DEF h, k, agent
<1>3. ~Spent(k) /\ \A i \in Indices : Spent(i) => i \in DOMAIN seed[a] /\ i \in Completed
  BY <1>1, <1>2 DEF Accountable, Knows, Reading, Unrecorded
<1>4. runs[k] = wasted[k] /\ runs'[k] = wasted[k] + 1
  BY <1>1, <1>3 DEF Accountable, Spent
<1>5. runs'[k] > wasted'[k] /\ \A i \in Indices : runs'[i] > wasted'[i] => i = k \/ Spent(i)
  BY <1>1, <1>4 DEF Spent
<1>6. \A i \in Indices : wasted'[i] <= runs'[i] /\ runs'[i] <= 1 + wasted'[i]
  <2>1. \A i \in Indices : i # k => runs'[i] = runs[i] /\ wasted'[i] = wasted[i]
    BY <1>1
  <2>2. wasted'[k] = wasted[k] /\ wasted[k] \in Nat
    BY <1>1
  <2>3. QED
    BY <1>4, <2>1, <2>2 DEF Accountable
<1>7. Completed' = Completed
  BY <1>1 DEF Completed
<1>8. Spent(hand[a].index)' /\ \A i \in Indices : Spent(i)' => i = k \/ Spent(i)
  BY <1>2, <1>5 DEF Spent
<1>9. QED
  BY <1>1, <1>2, <1>3, <1>6, <1>7, <1>8 DEF Accountable, Knows, Reading, Running, Unrecorded

LEMMA CutAccounted ==
  ASSUME TurnInv, NEW a \in Attempts, Accountable(a), Fault(a) \/ Crash(a)
  PROVE  Accountable(a)'
<1>1. /\ pc'[a] \in {"failing", "failed", "idle"} /\ UNCHANGED <<turn, runs>> /\ Waste(a)
      /\ runs \in [Indices -> Nat] /\ wasted \in [Indices -> Nat]
  BY DEF Fault, Crash, Leave, Goto, TurnInv, Types, interaction
<1>2. Completed' = Completed
  BY <1>1 DEF Completed
<1>3. ASSUME NEW i \in Indices
      PROVE  /\ wasted'[i] <= runs'[i] /\ runs'[i] <= 1 + wasted'[i]
             /\ Spent(i)' => Spent(i) /\ ~(pc[a] \in Unrecorded /\ hand[a].index = i)
  <2>1. wasted[i] <= runs[i] /\ runs[i] <= 1 + wasted[i] /\ runs[i] \in Nat /\ wasted[i] \in Nat
    BY <1>1 DEF Accountable
  <2>2. CASE pc[a] \in Unrecorded /\ hand[a].index = i
    <3>1. Spent(i)
      BY <2>2 DEF Accountable, Knows, Running, Unrecorded
    <3>2. wasted'[i] = wasted[i] + 1
      BY <1>1, <2>2 DEF Waste, Unrecorded
    <3>3. QED
      BY <1>1, <2>1, <3>1, <3>2 DEF Spent
  <2>3. CASE ~(pc[a] \in Unrecorded /\ hand[a].index = i)
    <3>1. wasted'[i] = wasted[i]
      BY <1>1, <2>3 DEF Waste, Unrecorded
    <3>2. QED
      BY <1>1, <2>1, <2>3, <3>1 DEF Spent
  <2>4. QED
    BY <2>2, <2>3
<1>4. QED
  BY <1>1, <1>2, <1>3 DEF Accountable, Knows, Reading, Running, Unrecorded

LEMMA AttemptAccounted ==
  ASSUME TurnInv, Started, NEW a \in Attempts, Accountable(a),
         Begin(a) \/ Invoke(a) \/ Fault(a) \/ Crash(a), ~reran'
  PROVE  Accountable(a)'
<1>0. /\ pc \in [Attempts -> Steps] /\ Completed \subseteq Completed'
      /\ seed = [b \in Attempts |-> seed[b]] /\ hand = [b \in Attempts |-> hand[b]]
  BY AttemptMoves, TurnsMoved DEF TurnInv, Types
<1> USE DEF Goto, At, interaction, ghosts, Reading, Running, Unrecorded, Spent
<1>1. CASE Begin(a) \/ Start(a) \/ Mark(a)
  <2>1. /\ UNCHANGED <<runs, wasted, seed, hand>> /\ pc[a] \in {"idle", "start", "mark"}
        /\ pc'[a] = "find" \/ (pc[a] \in Reading /\ pc'[a] \in Reading)
    BY <1>0, <1>1 DEF Begin, Start, Mark
  <2>2. QED
    BY <1>0, <2>1 DEF Accountable, Knows
<1>2. CASE Find(a)
  <2>1. UNCHANGED <<turn, runs, wasted>> /\ pc[a] = "find" /\ pc'[a] = "start"
    BY <1>0, <1>2 DEF Find
  <2>2. DOMAIN seed'[a] = Completed
    BY <1>2, FindReads
  <2>3. QED
    BY <1>0, <2>1, <2>2 DEF Accountable, Knows
<1>3. CASE RunTurn(a)
  BY <1>3, RunTurnAccounted
<1>4. CASE LookUpEffect(a) \/ RunTool(a) \/ RecordEffect(a)
  <2>1. /\ UNCHANGED <<runs, wasted, seed, hand>>
        /\ pc[a] \in Unrecorded /\ pc'[a] \in {"turn", "effect", "ledger"}
    BY <1>0, <1>4 DEF LookUpEffect, RunTool, RecordEffect
  <2>2. QED
    BY <1>0, <2>1 DEF Accountable, Knows
<1>5. CASE RecordTurn(a)
  <2>1. UNCHANGED <<runs, wasted, seed, hand>> /\ pc[a] = "turn" /\ pc'[a] = "message"
    BY <1>0, <1>5 DEF RecordTurn
  <2>2. hand[a].index \in Completed'
    BY <1>5, <2>1, RecordTurnMoves, HandIsNext DEF Completed
  <2>3. QED
    BY <1>0, <2>1, <2>2 DEF Accountable, Knows
<1>6. CASE RecordMessage(a)
  <2> DEFINE k == hand[a].index
             m == [agent |-> hand[a].agent, message |-> hand[a].message]
  <2>1. /\ UNCHANGED <<runs, wasted>> /\ pc[a] = "message" /\ pc'[a] = "next"
        /\ seed'[a] = [i \in DOMAIN seed[a] \cup {k} |-> IF i = k THEN m ELSE seed[a][i]]
    BY <1>0, <1>6 DEF RecordMessage, WithTurn
  <2> HIDE DEF m
  <2>2. DOMAIN seed'[a] = DOMAIN seed[a] \cup {k}
    BY <2>1
  <2>3. QED
    BY <1>0, <2>1, <2>2 DEF Accountable, Knows
<1>7. CASE Aggregate(a) \/ CompleteInteraction(a) \/ FailInteraction(a) \/ Report(a)
  <2>1. /\ UNCHANGED <<runs, wasted>> /\ pc[a] \notin Unrecorded
        /\ pc'[a] \in {"complete", "done", "failed", "idle"}
    BY <1>0, <1>7 DEF Aggregate, CompleteInteraction, FailInteraction, Report, Leave
  <2>2. QED
    BY <1>0, <2>1 DEF Accountable, Knows
<1>8. CASE Fault(a) \/ Crash(a)
  BY <1>8, CutAccounted
<1>9. QED
  BY <1>1, <1>2, <1>3, <1>4, <1>5, <1>6, <1>7, <1>8 DEF Invoke, InteractionCall

LEMMA StepResume ==
  ASSUME ResumeInv, [Next]_vars
  PROVE  ResumeInv'
<1>0. (EffectInv /\ TurnInv /\ Started)' /\ TurnsMove
  BY StepEffects, StepTurns, StepStarted DEF ResumeInv
<1>1. ASSUME NEW a \in Attempts, Begin(a) \/ Invoke(a) \/ Fault(a) \/ Crash(a), Undisturbed'
      PROVE  (RunsAccounted /\ \A b \in Attempts : Knows(b))'
  <2>1. Undisturbed /\ \A b \in Attempts : b # a => pc[b] = "idle" /\ pc'[b] = "idle"
    BY <1>1, Alone DEF ResumeInv
  <2>2. Accountable(a)
    BY <2>1 DEF ResumeInv, RunsAccounted, Accountable, Unrecorded
  <2>3. Accountable(a)'
    BY <1>1, <2>2, AttemptAccounted DEF ResumeInv, Undisturbed
  <2>4. QED
    BY <2>1, <2>3 DEF Accountable, RunsAccounted, Knows, Reading, Running
<1>2. ASSUME UNCHANGED <<local, ghosts>>, Undisturbed'
      PROVE  (RunsAccounted /\ \A b \in Attempts : Knows(b))'
  <2>1. UNCHANGED <<pc, seed, hand, runs, wasted>> /\ Undisturbed
    BY <1>2 DEF local, ghosts, Undisturbed
  <2>2. Completed \subseteq Completed'
    BY <1>0, TurnsMoved DEF ResumeInv, TurnInv
  <2>3. QED
    BY <2>1, <2>2 DEF ResumeInv, RunsAccounted, Knows, Spent
<1>3. QED
  BY <1>0, <1>1, <1>2, NextSplits, AsideUnchanged DEF ResumeInv, vars

(* Resuming does what it is for, for any protocol and any number of attempts, *)
(* wherever they are cut and whatever is leased, recovered and requeued       *)
(* (NativeTeamExecutor.invoke, seed_from_durable): a turn is run again only   *)
(* when its run was cut before it was recorded.                               *)
THEOREM NoRecordedTurnIsRunAgain == Spec => []ResumeRunsNoTurnTwice
<1>1. ResumeInv => ResumeRunsNoTurnTwice
  BY DEF ResumeInv, RunsAccounted, ResumeRunsNoTurnTwice
<1>2. QED
  BY InitResume, StepResume, <1>1, PTL DEF Spec

------------------------------------------------------------------------------
(* The conversation is coherent *)

(* The stored conversation, what an attempt holds of it, and its outcome.     *)
MessagesCoherent ==
  \A i \in Indices :
    message[i] # NoMessage =>
      i \in Completed /\ Spent(i) /\ reads[i] = VisibleTurns(protocol, turn[i].agent, Prefix(i))

OutcomeCoherent ==
  outcome # NoOutcome =>
    NextAgent(protocol, Durable) = NoAgent /\ outcome[1] = TypedOutcome(protocol, Durable)

Holds(a) ==
  /\ pc[a] \in {"idle", "find"} => seed[a] = NoTranscript
  /\ \A i \in DOMAIN seed[a] : seed[a][i] = [agent |-> turn[i].agent, message |-> message[i]]
  /\ pc[a] \in Running =>
       /\ hand[a].reads = VisibleTurns(protocol, hand[a].agent, seed[a])
       /\ message[hand[a].index] = NoMessage
  /\ outcome # NoOutcome =>
       pc[a] \notin Running /\ (pc[a] \in Reading => NextIndex(seed[a]) = Taken)

CoherentInv ==
  /\ ResumeInv
  /\ Undisturbed => MessagesCoherent /\ OutcomeCoherent /\ \A a \in Attempts : Holds(a)

LEMMA InitCoherent == Init => CoherentInv
BY InitResume
   DEF Init, CoherentInv, MessagesCoherent, OutcomeCoherent, Holds, NoTranscript, Running, Reading

(* The runtime looks at the agents and the messages of a transcript, not at   *)
(* which copy of it it has.                                                   *)
LEMMA SameTranscript ==
  ASSUME NEW p, NEW s, NEW t, DOMAIN s = DOMAIN t,
         \A i \in DOMAIN s : s[i] = t[i]
  PROVE  /\ \A agent : VisibleTurns(p, agent, s) = VisibleTurns(p, agent, t)
         /\ TypedOutcome(p, s) = TypedOutcome(p, t) /\ NextAgent(p, s) = NextAgent(p, t)
<1>1. Written(s) = Written(t)
  BY DEF Written
<1>2. Counted(p, s) = Counted(p, t) /\ Counted(p, s) \subseteq DOMAIN s
  BY DEF Counted
<1>3. NextAgent(p, s) = NextAgent(p, t)
  BY SameAgents
<1>4. QED
  BY <1>1, <1>2, <1>3 DEF VisibleTurns, TypedOutcome

LEMMA DurableIsPrefix ==
  ASSUME OrderedTurns
  PROVE  /\ NextAgent(protocol, Durable) = NextAgent(protocol, Prefix(Taken))
         /\ DOMAIN Durable = 0..Taken - 1 /\ DOMAIN Prefix(Taken) = 0..Taken - 1
         /\ \A i \in 0..Taken - 1 :
              Durable[i] = [agent |-> turn[i].agent, message |-> message[i]]
<1>1. /\ DOMAIN Durable = 0..Taken - 1 /\ DOMAIN Prefix(Taken) = 0..Taken - 1
      /\ \A i \in 0..Taken - 1 :
           /\ Durable[i] = [agent |-> turn[i].agent, message |-> message[i]]
           /\ Prefix(Taken)[i] = [agent |-> turn[i].agent, message |-> message[i]]
  BY DEF OrderedTurns, Durable, Prefix
<1>2. \A i \in DOMAIN Durable : Durable[i] = Prefix(Taken)[i]
  BY <1>1
<1>3. QED
  BY <1>1, <1>2, SameTranscript

(* A turn cannot become known after those after which none is left.           *)
LEMMA EndedTurns ==
  ASSUME OrderedTurns, TurnsMove, NextAgent(protocol, Durable) = NoAgent
  PROVE  Completed' = Completed
<1>1. Taken \in Nat /\ Completed = 0..Taken - 1 /\ Completed \subseteq Completed'
  BY TurnsMoved DEF OrderedTurns
<1>2. ASSUME NEW i \in Indices, turn'[i].status = "COMPLETED", turn[i].status # "COMPLETED"
      PROVE  FALSE
  <2>1. i = Taken
    BY <1>2 DEF TurnsMove
  <2>2. NextAgent(protocol, Prefix(i)) = NoAgent
    BY <2>1, DurableIsPrefix
  <2>3. QED
    BY <1>2, <2>2 DEF TurnsMove, OrderedTurns
<1>3. QED
  BY <1>1, <1>2 DEF Completed

(* What an attempt holds is the beginning of what is stored.                  *)
LEMMA HeldIsPrefix ==
  ASSUME TurnInv, NEW a \in Attempts, Holds(a)
  PROVE  /\ \A agent : VisibleTurns(protocol, agent, seed[a]) =
                           VisibleTurns(protocol, agent, Prefix(NextIndex(seed[a])))
         /\ NextAgent(protocol, seed[a]) = NextAgent(protocol, Prefix(NextIndex(seed[a])))
         /\ NextIndex(seed[a]) = Taken =>
              /\ TypedOutcome(protocol, seed[a]) = TypedOutcome(protocol, Durable)
              /\ NextAgent(protocol, seed[a]) = NextAgent(protocol, Durable)
<1> DEFINE k == NextIndex(seed[a])
<1>1. DOMAIN seed[a] = 0..k - 1 /\ k \in 0..Taken /\ Taken \in Nat
  BY DEF TurnInv, Following, OrderedTurns
<1>2. \A i \in 0..k - 1 : seed[a][i] = [agent |-> turn[i].agent, message |-> message[i]]
  BY <1>1 DEF Holds
<1>3. /\ DOMAIN Prefix(k) = 0..k - 1
      /\ \A i \in 0..k - 1 : Prefix(k)[i] = [agent |-> turn[i].agent, message |-> message[i]]
  BY DEF Prefix
<1> HIDE DEF k
<1>4. /\ \A agent : VisibleTurns(protocol, agent, seed[a]) = VisibleTurns(protocol, agent, Prefix(k))
      /\ NextAgent(protocol, seed[a]) = NextAgent(protocol, Prefix(k))
  <2>1. DOMAIN seed[a] = DOMAIN Prefix(k) /\ \A i \in DOMAIN seed[a] : seed[a][i] = Prefix(k)[i]
    BY <1>1, <1>2, <1>3
  <2>2. QED
    BY <2>1, SameTranscript
<1>5. ASSUME k = Taken
      PROVE  /\ TypedOutcome(protocol, seed[a]) = TypedOutcome(protocol, Durable)
             /\ NextAgent(protocol, seed[a]) = NextAgent(protocol, Durable)
  <2>1. /\ DOMAIN Durable = 0..k - 1
        /\ \A i \in 0..k - 1 : Durable[i] = [agent |-> turn[i].agent, message |-> message[i]]
    BY <1>5, DurableIsPrefix DEF TurnInv
  <2>2. DOMAIN seed[a] = DOMAIN Durable /\ \A i \in DOMAIN seed[a] : seed[a][i] = Durable[i]
    BY <1>1, <1>2, <2>1
  <2>3. QED
    BY <2>2, SameTranscript
<1>6. QED
  BY <1>4, <1>5 DEF k

(* An attempt for which no turn is left knows them all.                       *)
LEMMA NoTurnLeft ==
  ASSUME TurnInv, NEW a \in Attempts, Holds(a), NextAgent(protocol, seed[a]) = NoAgent
  PROVE  NextIndex(seed[a]) = Taken
<1> DEFINE k == NextIndex(seed[a])
<1>1. k \in 0..Taken /\ Taken \in Nat /\ Completed = 0..Taken - 1
  BY DEF TurnInv, Following, OrderedTurns
<1>2. NextAgent(protocol, Prefix(k)) = NoAgent
  BY HeldIsPrefix
<1>3. k \notin Completed
  BY <1>2 DEF TurnInv, OrderedTurns, Completed
<1>4. QED
  BY <1>1, <1>3

(* What a step that writes no message leaves coherent.                        *)
LEMMA PrefixKept ==
  ASSUME TurnInv, TurnsMove, NEW i \in Completed, \A j \in 0..i - 1 : message'[j] = message[j]
  PROVE  Prefix(i)' = Prefix(i)
<1>1. ASSUME NEW j \in 0..i - 1 PROVE turn'[j].agent = turn[j].agent
  <2>1. j \in Completed
    BY DEF TurnInv, OrderedTurns
  <2>2. QED
    BY <2>1 DEF Completed, TurnsMove
<1>2. QED
  BY <1>1 DEF Prefix

LEMMA MessagesKept ==
  ASSUME TurnInv, TurnsMove, MessagesCoherent, UNCHANGED <<message, reads>>,
         \A i \in Indices : message[i] # NoMessage /\ Spent(i) => Spent(i)'
  PROVE  MessagesCoherent'
<1>1. ASSUME NEW i \in Indices, message[i] # NoMessage
      PROVE  /\ i \in Completed' /\ Spent(i)'
             /\ reads[i] = VisibleTurns(protocol', turn'[i].agent, Prefix(i)')
  <2>1. /\ i \in Completed /\ Spent(i)
        /\ reads[i] = VisibleTurns(protocol, turn[i].agent, Prefix(i))
    BY <1>1 DEF MessagesCoherent
  <2>2. Prefix(i)' = Prefix(i)
    BY <2>1, PrefixKept
  <2>3. turn'[i].agent = turn[i].agent /\ protocol' = protocol /\ i \in Completed'
    BY <2>1 DEF TurnsMove, Completed
  <2>4. QED
    BY <1>1, <2>1, <2>2, <2>3
<1>2. \A i \in Indices :
        VisibleTurns(protocol, turn[i].agent, Prefix(i))' = VisibleTurns(protocol', turn'[i].agent, Prefix(i)')
  BY DEF VisibleTurns, Reads, Written
<1>3. QED
  BY <1>1, <1>2 DEF MessagesCoherent

LEMMA OutcomeKept ==
  ASSUME TurnInv, TurnsMove, OutcomeCoherent, UNCHANGED <<message, outcome>>
  PROVE  OutcomeCoherent' /\ (outcome # NoOutcome => Completed' = Completed /\ Taken' = Taken)
<1> SUFFICES ASSUME outcome # NoOutcome
             PROVE  OutcomeCoherent' /\ Completed' = Completed /\ Taken' = Taken
  BY DEF OutcomeCoherent
<1>1. Completed' = Completed /\ Taken' = Taken /\ protocol' = protocol
  BY EndedTurns DEF TurnInv, OutcomeCoherent, Taken, TurnsMove
<1>2. \A i \in Completed : turn'[i].agent = turn[i].agent /\ message'[i] = message[i]
  BY DEF Completed, TurnsMove
<1>3. Durable' = Durable
  BY <1>1, <1>2 DEF Durable
<1>4. /\ NextAgent(protocol, Durable)' = NextAgent(protocol', Durable')
      /\ TypedOutcome(protocol, Durable)' = TypedOutcome(protocol', Durable')
  BY DEF NextAgent, NextSpeaker, NextUnacted, Acted, TypedOutcome, Counted
<1>5. QED
  BY <1>1, <1>3, <1>4 DEF OutcomeCoherent

LEMMA HoldsKept ==
  ASSUME TurnInv, TurnsMove, OutcomeCoherent, NEW a \in Attempts, Holds(a),
         UNCHANGED <<seed[a], hand[a], message, outcome>>,
         pc'[a] \in {"idle", "find"} => pc[a] \in {"idle", "find"},
         pc'[a] \in Running => pc[a] \in Running, pc'[a] \in Reading => pc[a] \in Reading
  PROVE  Holds(a)'
<1>1. ASSUME NEW i \in DOMAIN seed[a]
      PROVE  seed[a][i] = [agent |-> turn'[i].agent, message |-> message'[i]]
  <2>1. i \in Completed
    BY DEF TurnInv, Following, OrderedTurns
  <2>2. turn'[i].agent = turn[i].agent
    BY <2>1 DEF Completed, TurnsMove
  <2>3. QED
    BY <2>2 DEF Holds
<1>2. outcome # NoOutcome => Taken' = Taken
  BY OutcomeKept
<1>3. /\ VisibleTurns(protocol, hand[a].agent, seed[a])' = VisibleTurns(protocol, hand[a].agent, seed[a])
      /\ NextIndex(seed[a])' = NextIndex(seed[a])
  BY DEF VisibleTurns, Reads, Written, NextIndex, TurnsMove
<1>4. QED
  BY <1>1, <1>2, <1>3 DEF Holds

Coherent(a) == MessagesCoherent /\ OutcomeCoherent /\ Holds(a)

(* The steps of an attempt on its own transcript, and on the messages.        *)
LEMMA FindCoherent ==
  ASSUME TurnInv, Started, TurnsMove, NEW a \in Attempts, Coherent(a), Find(a), ~reran'
  PROVE  Coherent(a)'
<1>1. /\ UNCHANGED <<protocol, turn, message, outcome, reads, runs, wasted>>
      /\ pc'[a] = "start"
  BY DEF Find, Goto, TurnInv, Types, interaction
<1>2. MessagesCoherent' /\ OutcomeCoherent'
  BY <1>1, MessagesKept, OutcomeKept DEF Coherent, Spent
<1>3. /\ DOMAIN seed'[a] = Completed
      /\ \A i \in Completed : seed'[a][i] = [agent |-> turn[i].agent, message |-> message[i]]
  BY FindReads
<1>4. Taken' = Taken /\ NextIndex(seed[a])' = Taken
  BY <1>1, <1>3 DEF Taken, Completed, NextIndex
<1>5. QED
  BY <1>1, <1>2, <1>3, <1>4 DEF Coherent, Holds, Running, Reading

LEMMA RunTurnCoherent ==
  ASSUME TurnInv, TurnsMove, NEW a \in Attempts, Accountable(a), Accountable(a)', Coherent(a),
         RunTurn(a)
  PROVE  Coherent(a)'
<1> DEFINE agent == NextAgent(protocol, seed[a])
           k == NextIndex(seed[a])
           h == [index |-> k, agent |-> agent, message |-> runs[k] + 1,
                 reads |-> VisibleTurns(protocol, agent, seed[a])]
<1>1. /\ UNCHANGED <<protocol, turn, message, outcome, reads, seed, wasted>>
      /\ pc[a] = "next" /\ pc'[a] \in {"tool", "turn"} /\ agent # NoAgent /\ k \in Indices
      /\ runs' = [runs EXCEPT ![k] = @ + 1] /\ hand'[a] = h /\ runs \in [Indices -> Nat]
  BY DEF RunTurn, Goto, At, TurnInv, Types, interaction
<1>2. /\ hand'[a].index = k /\ hand'[a].agent = agent
      /\ hand'[a].reads = VisibleTurns(protocol, agent, seed[a])
  BY <1>1
<1>3. k \notin DOMAIN seed[a]
  <2>1. DOMAIN seed[a] = 0..k - 1 /\ k \in Nat
    BY <1>1 DEF TurnInv, Following, Indices
  <2>2. QED
    BY <2>1
<1>4. outcome = NoOutcome
  <2>1. outcome # NoOutcome => k = Taken
    BY <1>1 DEF Coherent, Holds, Reading
  <2>2. k = Taken => agent = NextAgent(protocol, Durable)
    BY HeldIsPrefix DEF Coherent
  <2>3. QED
    BY <1>1, <2>1, <2>2 DEF Coherent, OutcomeCoherent
<1> HIDE DEF h, k, agent
<1>5. message[k] = NoMessage
  BY <1>1, <1>3 DEF Coherent, MessagesCoherent, Accountable, Knows, Reading
<1>6. \A i \in Indices : Spent(i) => Spent(i)'
  BY <1>1 DEF Spent, TurnInv, Types
<1>7. MessagesCoherent' /\ OutcomeCoherent'
  BY <1>1, <1>6, MessagesKept, OutcomeKept DEF Coherent
<1>8. VisibleTurns(protocol, hand[a].agent, seed[a])' = VisibleTurns(protocol, hand'[a].agent, seed[a])
  BY <1>1 DEF VisibleTurns, Reads, Written
<1>9. \A i \in DOMAIN seed'[a] : seed'[a][i] = [agent |-> turn'[i].agent, message |-> message'[i]]
  BY <1>1 DEF Coherent, Holds
<1>10. QED
  BY <1>1, <1>2, <1>4, <1>5, <1>7, <1>8, <1>9 DEF Coherent, Holds, Running, Reading

LEMMA RecordMessageCoherent ==
  ASSUME TurnInv, TurnsMove, NEW a \in Attempts, Accountable(a), Coherent(a), RecordMessage(a)
  PROVE  Coherent(a)'
<1> DEFINE k == hand[a].index
           m == [agent |-> hand[a].agent, message |-> hand[a].message]
<1>1. /\ UNCHANGED <<protocol, turn, outcome, runs, wasted>>
      /\ pc[a] = "message" /\ pc'[a] = "next"
      /\ seed'[a] = [i \in DOMAIN seed[a] \cup {k} |-> IF i = k THEN m ELSE seed[a][i]]
  BY DEF RecordMessage, WithTurn, At, Goto, RecordDurableMessage, TurnInv, Types
<1>2. outcome = NoOutcome /\ message[k] = NoMessage
      /\ hand[a].reads = VisibleTurns(protocol, hand[a].agent, seed[a])
  BY <1>1 DEF Coherent, Holds, Running
<1>3. k \in Indices /\ k \in Completed /\ k = NextIndex(seed[a]) /\ turn[k].agent = hand[a].agent
  BY <1>1, HandIsNext DEF TurnInv, Following, Running, Completed
<1>4. DOMAIN seed[a] = 0..k - 1
  BY <1>3 DEF TurnInv, Following
<1>5. /\ message' = [message EXCEPT ![k] = hand[a].message]
      /\ reads' = [reads EXCEPT ![k] = hand[a].reads]
      /\ message \in [Indices -> Nat] /\ reads = [i \in Indices |-> reads[i]]
  BY <1>2 DEF RecordMessage, WithTurn, RecordDurableMessage, TurnInv, Types
<1>6. hand[a].reads = VisibleTurns(protocol, turn[k].agent, Prefix(k))
  BY <1>2, <1>3, HeldIsPrefix DEF Coherent
<1>7. Spent(k)
  BY <1>1 DEF Accountable, Knows, Running
<1>m. m = [agent |-> turn[k].agent, message |-> message'[k]]
  BY <1>3, <1>5
<1> HIDE DEF m, k
<1>8. \A i \in Indices : i # k => message'[i] = message[i] /\ reads'[i] = reads[i]
  BY <1>5
<1>9. ASSUME NEW i \in Indices, message'[i] # NoMessage
      PROVE  /\ i \in Completed /\ Spent(i) /\ i <= k
             /\ reads'[i] = VisibleTurns(protocol, turn[i].agent, Prefix(i))
  <2>1. CASE i = k
    BY <1>3, <1>5, <1>6, <1>7, <2>1 DEF Indices
  <2>2. CASE i # k
    <3>1. /\ i \in Completed /\ Spent(i)
          /\ reads[i] = VisibleTurns(protocol, turn[i].agent, Prefix(i))
      BY <1>8, <1>9, <2>2 DEF Coherent, MessagesCoherent
    <3>2. i \in DOMAIN seed[a]
      BY <1>1, <2>2, <3>1 DEF Accountable, Knows, Running, k
    <3>3. QED
      BY <1>3, <1>4, <1>8, <2>2, <3>1, <3>2 DEF Indices
  <2>3. QED
    BY <2>1, <2>2
<1>10. MessagesCoherent'
  <2>1. ASSUME NEW i \in Indices, message'[i] # NoMessage
        PROVE  /\ i \in Completed' /\ Spent(i)'
               /\ reads'[i] = VisibleTurns(protocol, turn[i].agent, Prefix(i))'
    <3>1. i \in Completed /\ Spent(i) /\ i <= k
      BY <1>9, <2>1
    <3>2. \A j \in 0..i - 1 : j # k
      BY <1>3, <3>1 DEF Indices
    <3>3. Prefix(i)' = Prefix(i)
      BY <1>3, <1>8, <3>1, <3>2, PrefixKept DEF Indices
    <3>4. VisibleTurns(protocol, turn[i].agent, Prefix(i))' = VisibleTurns(protocol, turn[i].agent, Prefix(i)')
      BY <1>1 DEF VisibleTurns, Reads, Written
    <3>5. QED
      BY <1>1, <1>9, <2>1, <3>1, <3>3, <3>4 DEF Completed, Spent
  <2>2. QED
    BY <2>1 DEF MessagesCoherent
<1>11. ASSUME NEW i \in DOMAIN seed'[a]
       PROVE  seed'[a][i] = [agent |-> turn'[i].agent, message |-> message'[i]]
  <2>1. i = k => seed'[a][i] = m
    BY <1>1
  <2>2. i # k => i \in DOMAIN seed[a] /\ i \in Indices /\ seed'[a][i] = seed[a][i]
    BY <1>1, <1>3, <1>4 DEF Indices
  <2>3. i # k => seed[a][i] = [agent |-> turn[i].agent, message |-> message[i]]
    BY <2>2 DEF Coherent, Holds
  <2>4. QED
    BY <1>1, <1>8, <1>m, <2>1, <2>2, <2>3
<1>12. QED
  BY <1>1, <1>2, <1>10, <1>11 DEF Coherent, Holds, OutcomeCoherent, Running

LEMMA AggregateCoherent ==
  ASSUME TurnInv, TurnsMove, NEW a \in Attempts, Coherent(a), Aggregate(a)
  PROVE  Coherent(a)'
<1>1. /\ UNCHANGED <<protocol, turn, message, reads, runs, wasted, seed, hand>>
      /\ pc'[a] = "complete" /\ NextAgent(protocol, seed[a]) = NoAgent
      /\ outcome' = outcome
           \/ (outcome = NoOutcome /\ outcome' = <<TypedOutcome(protocol, seed[a])>>)
  BY DEF Aggregate, RecordDurableOutcome, Goto, TurnInv, Types, interaction, ghosts
<1>2. NextIndex(seed[a]) = Taken
  BY <1>1, NoTurnLeft DEF Coherent
<1>3. /\ TypedOutcome(protocol, seed[a]) = TypedOutcome(protocol, Durable)
      /\ NextAgent(protocol, Durable) = NoAgent
  BY <1>1, <1>2, HeldIsPrefix DEF Coherent
<1>4. outcome' # NoOutcome => outcome'[1] = TypedOutcome(protocol, Durable)
  BY <1>1, <1>3 DEF Coherent, OutcomeCoherent
<1>5. MessagesCoherent'
  BY <1>1, MessagesKept DEF Coherent, Spent
<1>6. Durable' = Durable
  BY <1>1 DEF Durable, Completed
<1>7. /\ NextAgent(protocol, Durable)' = NextAgent(protocol, Durable')
      /\ TypedOutcome(protocol, Durable)' = TypedOutcome(protocol, Durable')
  BY <1>1 DEF NextAgent, NextSpeaker, NextUnacted, Acted, TypedOutcome, Counted
<1>8. OutcomeCoherent'
  BY <1>3, <1>4, <1>6, <1>7 DEF OutcomeCoherent
<1>9. \A i \in DOMAIN seed'[a] : seed'[a][i] = [agent |-> turn'[i].agent, message |-> message'[i]]
  BY <1>1 DEF Coherent, Holds
<1>10. QED
  BY <1>1, <1>5, <1>8, <1>9 DEF Coherent, Holds, Running, Reading

LEMMA LeaveCoherent ==
  ASSUME TurnInv, TurnsMove, NEW a \in Attempts, Accountable(a), Coherent(a), Report(a) \/ Crash(a)
  PROVE  Coherent(a)'
<1>1. /\ UNCHANGED <<message, outcome, reads, runs>> /\ runs \in [Indices -> Nat]
      /\ seed'[a] = NoTranscript /\ pc'[a] = "idle" /\ DOMAIN NoTranscript = {}
      /\ wasted \in [Indices -> Nat] /\ (UNCHANGED wasted \/ Waste(a))
  BY DEF Report, Crash, Leave, Goto, TurnInv, Types, interaction, ghosts, NoTranscript
<1>2. ASSUME NEW i \in Indices, message[i] # NoMessage, Spent(i) PROVE Spent(i)'
  <2>1. pc[a] \in Running => hand[a].index # i
    BY <1>2 DEF Coherent, Holds
  <2>2. wasted'[i] = wasted[i]
    BY <1>1, <2>1 DEF Waste, Running
  <2>3. QED
    BY <1>1, <1>2, <2>2 DEF Spent
<1>3. MessagesCoherent' /\ OutcomeCoherent'
  BY <1>1, <1>2, MessagesKept, OutcomeKept DEF Coherent
<1>4. QED
  BY <1>1, <1>3 DEF Coherent, Holds, Running, Reading

(* Every other step of an attempt leaves what it holds and what is said.      *)
LEMMA QuietCoherent ==
  ASSUME TurnInv, TurnsMove, NEW a \in Attempts, Accountable(a), Coherent(a),
         Begin(a) \/ Start(a) \/ Mark(a) \/ LookUpEffect(a) \/ RunTool(a) \/ RecordEffect(a)
           \/ RecordTurn(a) \/ CompleteInteraction(a) \/ FailInteraction(a) \/ Fault(a)
  PROVE  Coherent(a)'
<1> DEFINE Quiet ==
      /\ UNCHANGED <<message, outcome, reads, runs, seed, hand>> /\ (UNCHANGED wasted \/ Waste(a))
      /\ pc'[a] \in {"idle", "find"} => pc[a] \in {"idle", "find"}
      /\ pc'[a] \in Running => pc[a] \in Running
      /\ pc'[a] \in Reading => pc[a] \in Reading
<1>0. pc \in [Attempts -> Steps]
  BY DEF TurnInv, Types
<1>1. Quiet
  <2> USE DEF Goto, At, Running, Reading, interaction, ghosts
  <2>1. CASE Begin(a) \/ Start(a) \/ Mark(a)
    BY <1>0, <2>1 DEF Begin, Start, StartInteraction, Mark, MarkResumed
  <2>2. CASE LookUpEffect(a) \/ RunTool(a) \/ RecordEffect(a)
    BY <1>0, <2>2 DEF LookUpEffect, RunTool, RecordEffect
  <2>3. CASE RecordTurn(a)
    BY <1>0, <2>3 DEF RecordTurn, RecordDurableTurn
  <2>4. CASE CompleteInteraction(a) \/ FailInteraction(a)
    BY <1>0, <2>4 DEF CompleteInteraction, FailInteraction, EndInteraction
  <2>5. CASE Fault(a)
    BY <1>0, <2>5 DEF Fault
  <2>6. QED
    BY <2>1, <2>2, <2>3, <2>4, <2>5
<1>2. ASSUME NEW i \in Indices, message[i] # NoMessage, Spent(i) PROVE Spent(i)'
  <2>1. pc[a] \in Running => hand[a].index # i
    BY <1>2 DEF Coherent, Holds
  <2>2. wasted'[i] = wasted[i]
    BY <1>1, <2>1 DEF Waste, Running, TurnInv, Types
  <2>3. QED
    BY <1>1, <1>2, <2>2 DEF Spent
<1>3. MessagesCoherent' /\ OutcomeCoherent' /\ Holds(a)'
  BY <1>1, <1>2, MessagesKept, OutcomeKept, HoldsKept DEF Coherent
<1>4. QED
  BY <1>3 DEF Coherent

LEMMA StepCoherent ==
  ASSUME CoherentInv, [Next]_vars
  PROVE  CoherentInv'
<1>0. ResumeInv' /\ TurnsMove /\ TurnInv'
  BY StepResume, StepTurns DEF CoherentInv, ResumeInv
<1>1. ASSUME NEW a \in Attempts, Begin(a) \/ Invoke(a) \/ Fault(a) \/ Crash(a), Undisturbed'
      PROVE  (MessagesCoherent /\ OutcomeCoherent /\ \A b \in Attempts : Holds(b))'
  <2>1. Undisturbed /\ \A b \in Attempts : b # a => pc[b] = "idle" /\ pc'[b] = "idle"
    BY <1>1, Alone DEF CoherentInv, ResumeInv
  <2>2. Accountable(a) /\ Coherent(a) /\ ~reran'
    BY <1>1, <2>1 DEF CoherentInv, ResumeInv, RunsAccounted, Accountable, Unrecorded, Coherent,
                      Undisturbed
  <2>3. Accountable(a)'
    BY <1>1, <2>2, AttemptAccounted DEF CoherentInv, ResumeInv
  <2>4. Coherent(a)'
    BY <1>0, <1>1, <2>2, <2>3, FindCoherent, RunTurnCoherent, RecordMessageCoherent,
       AggregateCoherent, LeaveCoherent, QuietCoherent DEF Invoke, InteractionCall, CoherentInv, ResumeInv
  <2>5. ASSUME NEW b \in Attempts, b # a PROVE Holds(b)'
    <3>1. seed'[b] = seed[b] /\ pc[b] = "idle" /\ pc'[b] = "idle"
      BY <1>1, <2>1, <2>5, InvokeMoves DEF Moves, CoherentInv, ResumeInv, TurnInv
    <3>2. seed'[b] = NoTranscript /\ DOMAIN NoTranscript = {}
      BY <2>1, <3>1 DEF CoherentInv, Holds, NoTranscript
    <3>3. QED
      BY <3>1, <3>2 DEF Holds, Running, Reading
  <2>6. QED
    BY <2>4, <2>5 DEF Coherent
<1>2. ASSUME UNCHANGED <<message, outcome, local, ghosts>>, Undisturbed'
      PROVE  (MessagesCoherent /\ OutcomeCoherent /\ \A b \in Attempts : Holds(b))'
  <2>1. /\ UNCHANGED <<message, outcome, pc, seed, hand, reads, runs, wasted>>
        /\ Undisturbed
    BY <1>2 DEF local, ghosts, Undisturbed
  <2>2. \A i \in Indices : Spent(i) => Spent(i)'
    BY <2>1 DEF Spent
  <2>3. QED
    BY <1>0, <2>1, <2>2, MessagesKept, OutcomeKept, HoldsKept DEF CoherentInv, ResumeInv
<1>3. QED
  BY <1>0, <1>1, <1>2, NextSplits, AsideUnchanged DEF CoherentInv, vars, interaction

(* The durable conversation is coherent, for any protocol and any number of   *)
(* attempts, cuts and leases, as long as no two attempts overlap and none     *)
(* runs on an interaction that has ended (NativeTeamExecutor.invoke): every   *)
(* message was written from the stored messages its author may read, what an  *)
(* attempt goes on from is what is stored, and so is what the outcome is of.  *)
THEOREM ConversationIsCoherent == Spec => []CoherentConversation
<1>1. CoherentInv => CoherentConversation
  <2> SUFFICES ASSUME CoherentInv, Undisturbed PROVE CoherentConversation
    BY DEF CoherentConversation
  <2>1. MessagesCoherent /\ OutcomeCoherent /\ TurnInv
    BY DEF CoherentInv, ResumeInv
  <2>2. ASSUME NEW a \in Attempts, NEW i \in Indices, i \in DOMAIN seed[a]
        PROVE  i \in Completed /\ seed[a][i] = Durable[i]
    <3>1. i \in Completed
      BY <2>1, <2>2 DEF TurnInv, Following, OrderedTurns
    <3>2. seed[a][i] = [agent |-> turn[i].agent, message |-> message[i]]
      BY <2>2 DEF CoherentInv, Holds
    <3>3. QED
      BY <3>1, <3>2 DEF Durable
  <2>3. ASSUME NEW i \in Completed, message[i] # NoMessage
        PROVE  reads[i] = VisibleTurns(protocol, turn[i].agent, [j \in 0..i - 1 |-> Durable[j]])
    <3>1. 0..i - 1 \subseteq Completed /\ i \in Indices
      BY <2>1 DEF TurnInv, OrderedTurns, Completed
    <3>2. [j \in 0..i - 1 |-> Durable[j]] = Prefix(i)
      BY <3>1 DEF Durable, Prefix
    <3>3. QED
      BY <2>1, <2>3, <3>1, <3>2 DEF MessagesCoherent
  <2>4. QED
    BY <2>1, <2>2, <2>3 DEF CoherentConversation, OutcomeCoherent
<1>2. QED
  BY InitCoherent, StepCoherent, <1>1, PTL DEF Spec

------------------------------------------------------------------------------
(* Every member is heard *)

LEMMA LeastNumber ==
  ASSUME NEW T \in SUBSET Nat, T # {}
  PROVE  \E x \in T : \A y \in T : x <= y
<1> DEFINE B == {0..x : x \in T}
<1>1. B \subseteq FiniteSubsetsOf(Nat) /\ B # {}
  <2>1. \A x \in T : 0..x \in SUBSET Nat /\ IsFiniteSet(0..x)
    BY FS_Interval
  <2>2. QED
    BY <2>1 DEF FiniteSubsetsOf
<1>2. \E b \in B : \A c \in B : <<c, b>> \notin StrictSubsetOrdering(Nat)
  <2>1. IsWellFoundedOn(StrictSubsetOrdering(Nat), FiniteSubsetsOf(Nat))
    BY FS_StrictSubsetOrderingWellFounded
  <2> HIDE DEF B
  <2>2. QED
    BY <1>1, <2>1, WFMin
<1>3. PICK x \in T : \A y \in T : <<0..y, 0..x>> \notin StrictSubsetOrdering(Nat)
  BY <1>2
<1>4. ASSUME NEW y \in T, y < x
      PROVE  FALSE
  <2>1. x \in Nat /\ y \in Nat
    OBVIOUS
  <2>2. 0..y \subseteq 0..x /\ x \in 0..x /\ x \notin 0..y /\ 0..x \subseteq Nat
    BY <1>4, <2>1
  <2>3. <<0..y, 0..x>> \in StrictSubsetOrdering(Nat)
    BY <2>2 DEF StrictSubsetOrdering
  <2>4. QED
    BY <1>3, <2>3
<1>5. QED
  BY <1>4

LEMMA ValidProtocol ==
  ASSUME NEW p, Valid(p)
  PROVE  /\ p.members \in Seq(Members(p)) /\ NoAgent \notin Members(p)
         /\ Len(p.members) \in Nat \ {0} /\ DOMAIN p.members = 1..Len(p.members)
         /\ \A k \in 1..Len(p.members) : p.members[k] \in Members(p)
         /\ \A m \in Members(p) : \E k \in 1..Len(p.members) : p.members[k] = m
         /\ IsFiniteSet(Members(p)) /\ Cardinality(Members(p)) = Len(p.members)
         /\ p.rounds \in Nat \ {0}
<1> DEFINE n == Len(p.members)
<1>1. /\ p.members \in Seq(Members(p)) /\ NoAgent \notin Members(p) /\ Members(p) # {}
      /\ Cardinality(Members(p)) = n /\ p.rounds \in Nat \ {0}
  BY DEF Valid
<1>2. n \in Nat /\ DOMAIN p.members = 1..n /\ p.members \in [1..n -> Members(p)]
  BY <1>1
<1>3. /\ \A k \in 1..n : p.members[k] \in Members(p)
      /\ \A m \in Members(p) : \E k \in 1..n : p.members[k] = m
  BY <1>2 DEF Members
<1>4. n # 0
  BY <1>1, <1>2, <1>3
<1>5. IsFiniteSet(Members(p))
  <2>1. p.members \in Surjection(1..n, Members(p))
    BY <1>2, <1>3 DEF Surjection
  <2>2. IsFiniteSet(1..n)
    BY <1>2, FS_Interval
  <2>3. QED
    BY <2>1, <2>2, FS_Surjection
<1>6. QED
  BY <1>1, <1>2, <1>3, <1>4, <1>5

(* The member that acts next is one that has not acted, as long as there is one. *)
LEMMA NextWaits ==
  ASSUME NEW p, Valid(p), NEW t, Members(p) \ Acted(t) # {}
  PROVE  NextUnacted(p, t) \in Members(p) \ Acted(t)
<1> DEFINE waiting == Members(p) \ Acted(t)
           T == {Place(p, m) : m \in waiting}
<1>1. ASSUME NEW m \in Members(p) PROVE Place(p, m) \in Nat
  <2>1. \E i \in DOMAIN p.members : p.members[i] = m
    BY ValidProtocol
  <2>2. (CHOOSE i \in DOMAIN p.members : p.members[i] = m) \in DOMAIN p.members
    BY <2>1
  <2>3. DOMAIN p.members = 1..Len(p.members) /\ Len(p.members) \in Nat
    BY ValidProtocol
  <2>4. QED
    BY <2>2, <2>3 DEF Place
<1>2. T \in SUBSET Nat /\ T # {}
  BY <1>1
<1>3. \E m \in waiting : \A k \in waiting : Place(p, m) <= Place(p, k)
  <2>1. PICK x \in T : \A y \in T : x <= y
    BY <1>2, LeastNumber
  <2>2. QED
    BY <2>1
<1>4. (CHOOSE m \in waiting : \A k \in waiting : Place(p, m) <= Place(p, k)) \in waiting
  BY <1>3
<1>5. QED
  BY <1>4 DEF NextUnacted

LEMMA NextUnactedIs ==
  ASSUME NEW p, Valid(p), NEW t, p.mode # "debate"
  PROVE  /\ NextAgent(p, t) = NoAgent <=> Members(p) \subseteq Acted(t)
         /\ NextAgent(p, t) # NoAgent => NextAgent(p, t) \in Members(p) \ Acted(t)
<1>1. NextAgent(p, t) = NextUnacted(p, t)
  BY DEF NextAgent
<1>2. CASE Members(p) \ Acted(t) = {}
  BY <1>1, <1>2 DEF NextUnacted
<1>3. CASE Members(p) \ Acted(t) # {}
  BY <1>1, <1>3, NextWaits, ValidProtocol
<1>4. QED
  BY <1>2, <1>3

(* the turn of member k in round r, of n members each, is one of the rounds   *)
IsTurnOf(t, rounds, n, k) == t \in 0..rounds * n - 1 /\ (t % n) + 1 = k

LEMMA TurnOfRound ==
  ASSUME NEW rounds \in Nat, NEW n \in Nat, NEW r \in 0..rounds - 1, NEW k \in 1..n
  PROVE  IsTurnOf(r * n + k - 1, rounds, n, k)
<1>1. r * n \in Nat /\ (r + 1) * n = r * n + n
  OBVIOUS
<1>2. (r + 1) * n <= rounds * n
  OBVIOUS
<1>3. PICK c \in 0..n - 1 : c = k - 1
  OBVIOUS
<1>4. r * n + c \in 0..rounds * n - 1
  BY <1>1, <1>2
<1>5. (r * n + c) % n = c
  BY <1>1
<1>6. r * n + k - 1 = r * n + c /\ c + 1 = k
  BY <1>1, <1>3
<1>7. QED
  BY <1>4, <1>5, <1>6 DEF IsTurnOf

LEMMA RemainderBelow ==
  ASSUME NEW t \in Nat, NEW n \in Nat \ {0}
  PROVE  t % n \in 0..n - 1
  OBVIOUS

(* A transcript that goes on names a turn the protocol has; one that does not is *)
(* of all of them.                                                            *)
LEMMA TurnsOfProtocol ==
  ASSUME OrderedTurns, protocol \in Protocols
  PROVE  /\ Taken <= Turns(protocol)
         /\ NextAgent(protocol, Durable) = NoAgent => EveryMemberHeard
         /\ Taken = Turns(protocol) => NextAgent(protocol, Durable) = NoAgent
<1> DEFINE p == protocol
           n == Len(p.members)
           agentOf == [i \in Completed |-> turn[i].agent]
<1>1. Valid(p)
  OBVIOUS
<1>2. /\ Taken \in Nat /\ Completed = 0..Taken - 1 /\ Completed \subseteq Indices
      /\ IsFiniteSet(Completed) /\ Cardinality(Completed) = Taken
      /\ Indices \subseteq Nat
  <2>1. Taken \in Nat /\ Completed = 0..Taken - 1 /\ Completed \subseteq Indices
    BY DEF OrderedTurns, Completed
  <2>2. QED
    BY <2>1, FS_Interval DEF Taken, Indices
<1>3. /\ NextAgent(p, Durable) = NextAgent(p, Prefix(Taken))
      /\ \A i \in 0..Taken : DOMAIN Prefix(i) = 0..i - 1 /\ Cardinality(DOMAIN Prefix(i)) = i
      /\ \A i \in 0..Taken : Acted(Prefix(i)) = {turn[j].agent : j \in 0..i - 1}
  <2>1. NextAgent(p, Durable) = NextAgent(p, Prefix(Taken))
    BY DurableIsPrefix
  <2>2. ASSUME NEW i \in 0..Taken
        PROVE  /\ DOMAIN Prefix(i) = 0..i - 1 /\ Cardinality(DOMAIN Prefix(i)) = i
               /\ Acted(Prefix(i)) = {turn[j].agent : j \in 0..i - 1}
    <3>1. i \in Nat /\ DOMAIN Prefix(i) = 0..i - 1
      BY <1>2 DEF Prefix
    <3>2. \A j \in 0..i - 1 : Prefix(i)[j].agent = turn[j].agent
      BY DEF Prefix
    <3>3. QED
      BY <3>1, <3>2, CountBelow DEF Acted
  <2>3. QED
    BY <2>1, <2>2
<1>4. \A i \in Completed :
        turn[i].agent # NoAgent /\ turn[i].agent = NextAgent(p, Prefix(i)) /\ i \in 0..Taken
  BY <1>2 DEF OrderedTurns, Completed
<1>5. /\ n \in Nat \ {0} /\ p.rounds \in Nat \ {0}
      /\ IsFiniteSet(Members(p)) /\ Cardinality(Members(p)) = n
      /\ \A k \in 1..n : p.members[k] \in Members(p)
      /\ NoAgent \notin Members(p)
  BY <1>1, ValidProtocol
<1>6. CASE p.mode = "debate"
  <2>1. /\ Turns(p) = p.rounds * n /\ Turns(p) \in Nat \ {0}
    BY <1>5, <1>6 DEF Turns
  <2>2. \A i \in 0..Taken :
          NextAgent(p, Prefix(i)) = IF i >= Turns(p) THEN NoAgent ELSE p.members[(i % n) + 1]
    BY <1>3, <1>6 DEF NextAgent, NextSpeaker
  <2>3. \A i \in Completed : i < Turns(p) /\ turn[i].agent = p.members[(i % n) + 1]
    BY <1>2, <1>4, <2>1, <2>2
  <2>4. Taken <= Turns(p)
    <3>1. CASE Taken = 0
      BY <2>1, <3>1
    <3>2. CASE Taken # 0
      <4>1. Taken - 1 \in Completed
        BY <1>2, <3>2
      <4>2. QED
        BY <1>2, <2>1, <2>3, <4>1
    <3>3. QED
      BY <3>1, <3>2
  <2>5. ASSUME NextAgent(p, Durable) = NoAgent
        PROVE  EveryMemberHeard
    <3>1. Taken = Turns(p)
      <4>1. p.members[(Taken % n) + 1] # NoAgent
        <5>1. Taken % n \in 0..n - 1
          BY <1>2, <1>5, RemainderBelow
        <5>2. (Taken % n) + 1 \in 1..n
          BY <1>5, <5>1
        <5>3. QED
          BY <1>5, <5>2
      <4>2. Taken \in 0..Taken
        BY <1>2
      <4>3. Taken >= Turns(p)
        BY <1>3, <2>2, <2>5, <4>1, <4>2
      <4>4. QED
        BY <1>2, <2>1, <2>4, <4>3
    <3>2. ASSUME NEW r \in 0..p.rounds - 1, NEW k \in 1..n
          PROVE  turn[r * n + k - 1].agent = p.members[k]
      <4> DEFINE t == r * n + k - 1
      <4>1. IsTurnOf(t, p.rounds, n, k)
        BY <1>5, TurnOfRound
      <4> HIDE DEF t
      <4>2. t \in Completed /\ (t % n) + 1 = k
        BY <1>2, <2>1, <3>1, <4>1 DEF IsTurnOf
      <4>3. turn[t].agent = p.members[k]
        BY <2>3, <4>2
      <4>4. QED
        BY <4>3 DEF t
    <3>3. QED
      BY <1>2, <1>6, <3>1, <3>2 DEF EveryMemberHeard
  <2>6. Taken = Turns(p) => NextAgent(p, Durable) = NoAgent
    BY <1>2, <1>3, <2>1, <2>2
  <2>7. QED
    BY <2>4, <2>5, <2>6
<1>7. CASE p.mode # "debate"
  <2>1. Turns(p) = n
    BY <1>7 DEF Turns
  <2>2. \A i \in 0..Taken :
          /\ NextAgent(p, Prefix(i)) = NoAgent <=> Members(p) \subseteq Acted(Prefix(i))
          /\ NextAgent(p, Prefix(i)) # NoAgent =>
               NextAgent(p, Prefix(i)) \in Members(p) \ Acted(Prefix(i))
    BY <1>1, <1>7, NextUnactedIs
  <2>3. \A i \in Completed :
          turn[i].agent \in Members(p) /\ \A j \in 0..i - 1 : turn[j].agent # turn[i].agent
    <3>1. ASSUME NEW i \in Completed
          PROVE  turn[i].agent \in Members(p) /\ \A j \in 0..i - 1 : turn[j].agent # turn[i].agent
      <4>1. turn[i].agent \in Members(p) \ Acted(Prefix(i))
        BY <1>4, <2>2
      <4>2. Acted(Prefix(i)) = {turn[j].agent : j \in 0..i - 1}
        BY <1>3, <1>4
      <4>3. QED
        BY <4>1, <4>2
    <3>2. QED
      BY <3>1
  <2>4. agentOf \in Injection(Completed, Members(p))
    <3>1. agentOf \in [Completed -> Members(p)]
      BY <2>3
    <3>2. ASSUME NEW i \in Completed, NEW j \in Completed, agentOf[i] = agentOf[j]
          PROVE  i = j
      <4>1. i \in Nat /\ j \in Nat /\ turn[i].agent = turn[j].agent
        BY <1>2, <3>2
      <4>2. ~(i < j) /\ ~(j < i)
        <5>1. ASSUME i < j PROVE FALSE
          <6>1. i \in 0..j - 1
            BY <4>1, <5>1
          <6>2. QED
            BY <2>3, <4>1, <6>1
        <5>2. ASSUME j < i PROVE FALSE
          <6>1. j \in 0..i - 1
            BY <4>1, <5>2
          <6>2. QED
            BY <2>3, <4>1, <6>1
        <5>3. QED
          BY <5>1, <5>2
      <4>3. QED
        BY <4>1, <4>2
    <3>3. QED
      BY <3>1, <3>2 DEF Injection, IsInjective
  <2>5. NextAgent(p, Durable) = NoAgent <=> agentOf \in Surjection(Completed, Members(p))
    <3>1. Taken \in 0..Taken /\ Acted(Prefix(Taken)) = {turn[j].agent : j \in Completed}
      BY <1>2, <1>3
    <3>2. NextAgent(p, Durable) = NoAgent <=> \A m \in Members(p) : \E i \in Completed : turn[i].agent = m
      BY <1>3, <2>2, <3>1
    <3>3. agentOf \in [Completed -> Members(p)] /\ \A i \in Completed : agentOf[i] = turn[i].agent
      BY <2>3
    <3>4. QED
      BY <3>2, <3>3 DEF Surjection
  <2> HIDE DEF agentOf, n, p
  <2>6. /\ Cardinality(Completed) <= Cardinality(Members(p))
        /\ Cardinality(Completed) = Cardinality(Members(p)) <=> agentOf \in Surjection(Completed, Members(p))
    BY <1>5, <2>4, FS_Injection
  <2>7. /\ Taken <= Turns(p)
        /\ NextAgent(p, Durable) = NoAgent <=> Taken = Turns(p)
    BY <1>2, <1>5, <2>1, <2>5, <2>6
  <2>8. ASSUME NextAgent(p, Durable) = NoAgent
        PROVE  EveryMemberHeard
    <3>1. \A m \in Members(p) : \E i \in Completed : agentOf[i] = m
      BY <2>5, <2>8 DEF Surjection
    <3>2. \A m \in Members(p) : \E i \in Completed : turn[i].agent = m
      BY <3>1 DEF agentOf
    <3>3. QED
      BY <1>2, <1>7, <2>7, <2>8, <3>2 DEF EveryMemberHeard, p
  <2>9. QED
    BY <2>7, <2>8 DEF p
<1>8. QED
  BY <1>6, <1>7

(* Once no turn is left none can become known, so the interaction ends only   *)
(* after the last.                                                            *)
NoneLeft == NextAgent(protocol, Durable) = NoAgent

HeardInv ==
  /\ TurnInv /\ protocol \in Protocols
  /\ status = "COMPLETED" => NoneLeft
  /\ \A a \in Attempts : pc[a] = "complete" => NoneLeft

LEMMA NoneLeftStays ==
  ASSUME OrderedTurns, TurnsMove, NoneLeft
  PROVE  NoneLeft'
<1>1. Completed' = Completed /\ UNCHANGED protocol
  BY EndedTurns DEF NoneLeft, TurnsMove
<1>2. \A i \in Completed : turn'[i].agent = turn[i].agent
  BY DEF Completed, TurnsMove
<1> DEFINE s == Durable
           t == [i \in Completed |-> [agent |-> turn'[i].agent, message |-> message'[i]]]
<1>3. Durable' = t
  BY <1>1 DEF Durable
<1>4. DOMAIN s = DOMAIN t /\ \A i \in DOMAIN s : s[i].agent = t[i].agent
  BY <1>2 DEF Durable
<1> HIDE DEF s, t
<1>5. NextAgent(protocol, s) = NextAgent(protocol, t)
  BY <1>4, SameAgents
<1>6. NextAgent(protocol, t) = NoAgent
  BY <1>5 DEF s, NoneLeft
<1>7. NoneLeft' <=> NextAgent(protocol', Durable') = NoAgent
  BY DEF NoneLeft, NextAgent, NextSpeaker, NextUnacted, Acted
<1>8. QED
  BY <1>1, <1>3, <1>6, <1>7

(* An attempt for which no turn is left knows them all, whatever it knows of  *)
(* what was said in them.                                                     *)
LEMMA NoneLeftForOne ==
  ASSUME TurnInv, NEW a \in Attempts, NextAgent(protocol, seed[a]) = NoAgent
  PROVE  NoneLeft
<1> DEFINE k == NextIndex(seed[a])
<1>1. /\ k \in 0..Taken /\ Taken \in Nat /\ Completed = 0..Taken - 1 /\ DOMAIN seed[a] = 0..k - 1
      /\ OrderedTurns /\ \A i \in DOMAIN seed[a] : seed[a][i].agent = turn[i].agent
  BY DEF TurnInv, Following, OrderedTurns
<1>2. DOMAIN Prefix(k) = 0..k - 1 /\ \A i \in 0..k - 1 : Prefix(k)[i].agent = turn[i].agent
  BY DEF Prefix
<1>3. NextAgent(protocol, seed[a]) = NextAgent(protocol, Prefix(k))
  <2> HIDE DEF k
  <2>1. DOMAIN seed[a] = DOMAIN Prefix(k) /\ \A i \in DOMAIN seed[a] : seed[a][i].agent = Prefix(k)[i].agent
    BY <1>1, <1>2
  <2>2. QED
    BY <2>1, SameAgents
<1>4. k \notin Completed
  BY <1>1, <1>3 DEF OrderedTurns, Completed
<1>5. k = Taken
  BY <1>1, <1>4
<1>6. QED
  BY <1>1, <1>3, <1>5, DurableIsPrefix DEF NoneLeft

LEMMA InitHeard == Init => HeardInv
BY InitTurns DEF Init, HeardInv

LEMMA StepHeard ==
  ASSUME HeardInv, [Next]_vars
  PROVE  HeardInv'
<1>1. /\ TurnInv' /\ TurnsMove /\ TurnInv /\ UNCHANGED protocol /\ OrderedTurns /\ Types
      /\ NoneLeft => NoneLeft'
  BY StepTurns, NoneLeftStays DEF HeardInv, TurnInv, TurnsMove
<1>2. ASSUME NEW a \in Attempts, Begin(a) \/ Invoke(a) \/ Fault(a) \/ Crash(a)
      PROVE  /\ status' = "COMPLETED" => NoneLeft'
             /\ \A b \in Attempts : pc'[b] = "complete" => NoneLeft'
  <2>1. \A b \in Attempts : b # a => pc'[b] = pc[b]
    BY <1>1, <1>2, InvokeMoves DEF Moves
  <2>2. pc \in [Attempts -> Steps]
    BY <1>1 DEF Types
  <2>3. CASE Aggregate(a)
    <3>1. NoneLeft'
      BY <1>1, <2>3, NoneLeftForOne DEF Aggregate
    <3>2. QED
      BY <3>1
  <2>4. CASE CompleteInteraction(a)
    <3>1. pc[a] = "complete"
      BY <2>4 DEF CompleteInteraction, At
    <3>2. QED
      BY <1>1, <3>1 DEF HeardInv
  <2>5. ASSUME status' \in {status, "RUNNING", "FAILED"}, pc'[a] # "complete"
        PROVE  /\ status' = "COMPLETED" => NoneLeft'
               /\ \A b \in Attempts : pc'[b] = "complete" => NoneLeft'
    BY <1>1, <2>1, <2>5 DEF HeardInv
  <2>6. CASE Begin(a) \/ Find(a) \/ Start(a) \/ Mark(a)
    <3>1. status' \in {status, "RUNNING"} /\ pc'[a] # "complete"
      BY <2>2, <2>6 DEF Begin, Find, Start, StartInteraction, Mark, MarkResumed, Goto, interaction
    <3>2. QED
      BY <2>5, <3>1
  <2>7. CASE RunTurn(a) \/ LookUpEffect(a) \/ RunTool(a) \/ RecordEffect(a)
    <3>1. status' = status /\ pc'[a] # "complete"
      BY <2>2, <2>7 DEF RunTurn, LookUpEffect, RunTool, RecordEffect, Goto, interaction
    <3>2. QED
      BY <2>5, <3>1
  <2>8. CASE RecordTurn(a) \/ RecordMessage(a)
    <3>1. status' = status /\ pc'[a] # "complete"
      BY <2>2, <2>8 DEF RecordTurn, RecordDurableTurn, RecordMessage, RecordDurableMessage, Goto
    <3>2. QED
      BY <2>5, <3>1
  <2>9. CASE FailInteraction(a) \/ Report(a) \/ Fault(a) \/ Crash(a)
    <3>1. status' \in {status, "FAILED"} /\ pc'[a] # "complete"
      BY <2>2, <2>9 DEF FailInteraction, EndInteraction, Report, Leave, Fault, Crash, Goto, interaction
    <3>2. QED
      BY <2>5, <3>1
  <2>10. QED
    BY <1>2, <2>3, <2>4, <2>6, <2>7, <2>8, <2>9 DEF Invoke, InteractionCall
<1>3. ASSUME UNCHANGED <<status, pc>>
      PROVE  /\ status' = "COMPLETED" => NoneLeft'
             /\ \A b \in Attempts : pc'[b] = "complete" => NoneLeft'
  BY <1>1, <1>3 DEF HeardInv
<1>4. Aside => UNCHANGED <<status, pc>>
  BY AsideUnchanged DEF local
<1>5. UNCHANGED vars => UNCHANGED <<status, pc>>
  BY DEF vars, interaction, local
<1>6. QED
  BY <1>1, <1>2, <1>3, <1>4, <1>5, NextSplits DEF HeardInv

(* For any protocol, any number of attempts that overlap, resume, fail and    *)
(* run again what has ended, and any turn leases granted and recovered beside *)
(* them: the completed turns are the first of the protocol, each by the agent *)
(* the protocol names, a turn that is leased is the next, and an interaction  *)
(* that is COMPLETED has heard every member, in a debate in every round       *)
(* (NativeTeamExecutor.invoke and the strategies of kernel/scheduler.py).     *)
THEOREM TurnsStayInOrder == Spec => []TurnsInOrder
<1>1. HeardInv => TurnsInOrder
  <2> SUFFICES ASSUME HeardInv PROVE TurnsInOrder
    OBVIOUS
  <2>1. OrderedTurns /\ Taken \in Nat /\ Completed = 0..Taken - 1
    BY DEF HeardInv, TurnInv, OrderedTurns
  <2>2. \A i \in Completed : turn[i].agent = NextAgent(protocol, Prefix(i))
    BY <2>1 DEF OrderedTurns, Completed
  <2>3. ASSUME NEW i \in Indices, turn[i].status = "PENDING" PROVE i = Taken
    <3>1. i <= Taken /\ i \notin Completed
      BY <2>1, <2>3 DEF OrderedTurns, Completed
    <3>2. QED
      BY <2>1, <3>1 DEF Indices
  <2>4. recovered # NoMark => recovered <= Taken
    BY <2>1 DEF OrderedTurns
  <2>5. status = "COMPLETED" => EveryMemberHeard
    BY <2>1, TurnsOfProtocol DEF HeardInv, NoneLeft
  <2>6. QED
    BY <2>1, <2>2, <2>3, <2>4, <2>5 DEF TurnsInOrder, Taken, Prefix
<1>2. HeardInv /\ [Next]_vars => HeardInv'
  BY StepHeard
<1>3. QED
  BY <1>1, <1>2, InitHeard, PTL DEF Spec

(* The bound on the indices cuts no turn off: an attempt that is to run a     *)
(* turn finds one the protocol has, so MaxTurns need only be as large as the  *)
(* longest of the protocols (RunTurn, GrantTurnLease).                        *)
NextIsATurn ==
  /\ \A a \in Attempts :
       pc[a] = "next" /\ NextAgent(protocol, seed[a]) # NoAgent =>
         NextIndex(seed[a]) < Turns(protocol)
  /\ NextAgent(protocol, Durable) # NoAgent => NextIndex(Durable) < Turns(protocol)

THEOREM NoTurnIsCutOff == Spec => []NextIsATurn
<1>1. HeardInv => NextIsATurn
  <2> SUFFICES ASSUME HeardInv PROVE NextIsATurn
    OBVIOUS
  <2>1. /\ OrderedTurns /\ Taken \in Nat /\ Taken <= Turns(protocol)
        /\ Taken = Turns(protocol) => NoneLeft
    BY TurnsOfProtocol DEF HeardInv, TurnInv, OrderedTurns, NoneLeft
  <2>2. Turns(protocol) \in Nat
    <3>1. Len(protocol.members) \in Nat /\ protocol.rounds \in Nat
      BY ValidProtocol DEF HeardInv
    <3>2. QED
      BY <3>1 DEF Turns
  <2>3. NextIndex(Durable) = Taken
    BY DEF NextIndex, Durable, Taken
  <2>4. ASSUME NEW a \in Attempts, NextAgent(protocol, seed[a]) # NoAgent
        PROVE  NextIndex(seed[a]) < Turns(protocol)
    <3>1. NextIndex(seed[a]) \in 0..Taken
      BY DEF HeardInv, TurnInv, Following
    <3>2. CASE NextIndex(seed[a]) < Taken
      BY <2>1, <2>2, <3>1, <3>2
    <3>3. CASE NextIndex(seed[a]) = Taken
      <4>1. NextAgent(protocol, seed[a]) = NextAgent(protocol, Durable)
        <5>1. /\ DOMAIN seed[a] = 0..Taken - 1
              /\ \A i \in DOMAIN seed[a] : seed[a][i].agent = turn[i].agent
          BY <3>3 DEF HeardInv, TurnInv, Following
        <5>2. DOMAIN seed[a] = DOMAIN Durable /\ \A i \in DOMAIN seed[a] : seed[a][i].agent = Durable[i].agent
          BY <2>1, <5>1 DEF Durable, OrderedTurns
        <5>3. QED
          BY <5>2, SameAgents
      <4>2. Taken # Turns(protocol)
        BY <2>1, <2>4, <4>1 DEF NoneLeft
      <4>3. QED
        BY <2>1, <2>2, <3>3, <4>2
    <3>4. QED
      BY <2>1, <3>1, <3>2, <3>3
  <2>5. QED
    BY <2>1, <2>2, <2>3, <2>4 DEF NextIsATurn, NoneLeft
<1>2. HeardInv /\ [Next]_vars => HeardInv'
  BY StepHeard
<1>3. QED
  BY <1>1, <1>2, InitHeard, PTL DEF Spec
==============================================================================
