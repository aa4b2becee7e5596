-------------------------- MODULE DurableInteraction --------------------------
(***************************************************************************)
(* The durable interaction of a team node: the collaboration runtime          *)
(* (orchestration/collaboration_team.py, NativeTeamExecutor.invoke) drives    *)
(* the turns of a team and records each through SessionService, so that a     *)
(* later attempt of the node resumes where an earlier one was cut.            *)
(*                                                                          *)
(* One action is one put of the session, or the read that a resume relies     *)
(* on.  An attempt is cut by a crash, which leaves everything as it is, or    *)
(* by an exception (a member fails, a put loses against another writer).      *)
(* The node is requeued when the lease of its execution expires, also while   *)
(* its worker still runs, and when a decision asks for it again; how that     *)
(* comes about is the business of ControlPlane.tla.                           *)
(*                                                                          *)
(* Turn leases are granted, released and recovered beside the attempts: the   *)
(* runtime neither takes nor checks them.                                     *)
(*                                                                          *)
(* While a member runs it may call a tool with a side effect; the results of  *)
(* such calls are kept in the session by the fingerprint of the effect, and   *)
(* reused (orchestration/agent_tools.py, AgentToolLoop.execute_tool_round).   *)
(*                                                                          *)
(* A message is known by the run of the turn that produced it.                *)
(***************************************************************************)
EXTENDS TurnScheduling

CONSTANTS
  Attempts,   \* workers that run the node
  Protocols,  \* protocols its team may have
  MaxTurns,   \* bound: enough for each of them
  Effects,    \* effect fingerprints
  Calls,      \* the fingerprint of the tool call of each turn, or NoEffect
  NoEffect,
  MaxEvents   \* bound: cuts, expired executions, decisions, lease grants

Indices == 0..MaxTurns - 1
NoAttempt == "none"

ASSUME InteractionAssumption ==
  /\ NoAttempt \notin Attempts
  /\ MaxTurns \in Nat /\ MaxEvents \in Nat
  /\ NoMessage = 0
  /\ NoEffect \notin Effects /\ Calls \in [Indices -> Effects \cup {NoEffect}]
  /\ \A p \in Protocols : Valid(p)

VARIABLES
  protocol,   \* the protocol of the team, from the node's config
  status,     \* DurableInteraction.status, "ABSENT" before start_interaction
  turn,       \* its turns: [status, agent, lease] of each index
  message,    \* the message of each turn
  outcome,    \* the typed outcome
  recovered,  \* recovered_from_turn_index
  ledger,     \* processed_idempotency_keys: the effects with a known result
  node, owner,   \* status of the node, and the attempt that is its execution
  pc,         \* the next step of each attempt
  seed,       \* its transcript: the turns it knows to be completed
  hand,       \* the turn it runs: [index, agent, message]
  events,
  runs,       \* how often each turn was run
  reads,      \* the turns each recorded message was written from
  wasted,     \* how often a run of each turn was cut before its put
  effects,    \* how often the side effect of each fingerprint took place
  spoiled,    \* how often a call was cut between its effect and the ledger
  overlapped, reran   \* two attempts at once; an attempt on an ended interaction

interaction == <<status, turn, message, outcome, recovered>>
local == <<pc, seed, hand>>
ghosts == <<runs, reads, wasted, effects, spoiled, overlapped, reran>>
vars == <<protocol, interaction, ledger, node, owner, local, events, ghosts>>

NoTurn == [status |-> "ABSENT", agent |-> NoAgent, lease |-> "none"]
NoHand == [index |-> 0, agent |-> NoAgent, message |-> NoMessage, reads |-> {}]
NoOutcome == <<>>
NoMark == MaxTurns

Init ==
  /\ protocol \in Protocols
  /\ status = "ABSENT"
  /\ turn = [i \in Indices |-> NoTurn]
  /\ message = [i \in Indices |-> NoMessage]
  /\ outcome = NoOutcome /\ recovered = NoMark
  /\ ledger = {}
  /\ node = "QUEUED" /\ owner = NoAttempt
  /\ pc = [a \in Attempts |-> "idle"]
  /\ seed = [a \in Attempts |-> NoTranscript]
  /\ hand = [a \in Attempts |-> NoHand]
  /\ events = 0
  /\ runs = [i \in Indices |-> 0]
  /\ reads = [i \in Indices |-> {}]
  /\ wasted = [i \in Indices |-> 0]
  /\ effects = [f \in Effects |-> 0]
  /\ spoiled = [f \in Effects |-> 0]
  /\ overlapped = FALSE /\ reran = FALSE

------------------------------------------------------------------------------

At(a, step) == pc[a] = step
Goto(a, step) == pc' = [pc EXCEPT ![a] = step]

Happens == events < MaxEvents /\ events' = events + 1

Completed == {i \in Indices : turn[i].status = "COMPLETED"}

(* the completed turns and their messages, as seed_from_durable reads them    *)
Durable == [i \in Completed |-> [agent |-> turn[i].agent, message |-> message[i]]]

(* variant: every turn that is known counts as taken *)
SeedEveryTurn ==
  [i \in {j \in Indices : turn[j].status # "ABSENT"} |->
     [agent |-> turn[i].agent, message |-> message[i]]]

(* variant: the messages of the turns are not reloaded *)
SeedTurnsOnly == [i \in Completed |-> [agent |-> turn[i].agent, message |-> NoMessage]]

SeedFromDurable == Durable

------------------------------------------------------------------------------
(* SessionService, on the durable interaction *)

(* start_durable_interaction *)
StartInteraction ==
  /\ status' = IF status = "ABSENT" THEN "RUNNING" ELSE status
  /\ UNCHANGED <<turn, message, outcome, recovered>>

(* mark_durable_interaction_resumed *)
MarkResumed(index) ==
  recovered' = index /\ UNCHANGED <<status, turn, message, outcome>>

(* record_durable_turn, with the status COMPLETED: a turn that is known keeps *)
(* its agent and its lease                                                    *)
RecordDurableTurn(i, agent) ==
  /\ turn' = [turn EXCEPT ![i] =
       IF @.status = "ABSENT" THEN [NoTurn EXCEPT !.status = "COMPLETED", !.agent = agent]
       ELSE [@ EXCEPT !.status = "COMPLETED"]]
  /\ UNCHANGED <<status, message, outcome, recovered>>

(* record_durable_message: the first message of a turn stays *)
RecordDurableMessage(i, content, from) ==
  /\ IF message[i] # NoMessage THEN UNCHANGED <<message, reads>>
     ELSE /\ message' = [message EXCEPT ![i] = content]
          /\ reads' = [reads EXCEPT ![i] = from]
  /\ UNCHANGED <<status, turn, outcome, recovered>>

(* record_durable_outcome: the first outcome stays *)
RecordDurableOutcome(result) ==
  /\ outcome' = IF outcome = NoOutcome THEN <<result>> ELSE outcome
  /\ UNCHANGED <<status, turn, message, recovered>>

(* complete_durable_interaction, from whatever status *)
EndInteraction(to) ==
  status' = to /\ UNCHANGED <<turn, message, outcome, recovered>>

------------------------------------------------------------------------------
(* invoke *)

Active == {a \in Attempts : pc[a] # "idle"}

(* an attempt of the node begins *)
Begin(a) ==
  /\ At(a, "idle") /\ node = "QUEUED"
  /\ node' = "RUNNING" /\ owner' = a
  /\ Goto(a, "find")
  /\ overlapped' = (overlapped \/ Active # {})
  /\ UNCHANGED <<protocol, interaction, ledger, seed, hand, events, runs, reads, wasted, effects, spoiled, reran>>

(* variant: only what the recovery of a lease has marked *)
MarkedResumable == status = "RUNNING" /\ Completed # {} /\ recovered # NoMark

(* find_resumable_interaction *)
Resumable == status = "RUNNING" /\ Completed # {}

(* what it reads here is what the attempt resumes from *)
Find(a) ==
  /\ At(a, "find")
  /\ seed' = [seed EXCEPT ![a] = IF Resumable THEN SeedFromDurable ELSE NoTranscript]
  /\ Goto(a, "start")
  /\ reran' = (reran \/ status \in {"COMPLETED", "FAILED"})
  /\ UNCHANGED <<protocol, interaction, ledger, node, owner, hand, events>>
  /\ UNCHANGED <<runs, reads, wasted, effects, spoiled, overlapped>>

Start(a) ==
  /\ At(a, "start")
  /\ StartInteraction
  /\ Goto(a, IF seed[a] = NoTranscript THEN "next" ELSE "mark")
  /\ UNCHANGED <<protocol, ledger, node, owner, seed, hand, events, ghosts>>

Mark(a) ==
  /\ At(a, "mark")
  /\ MarkResumed(NextIndex(seed[a]))
  /\ Goto(a, "next")
  /\ UNCHANGED <<protocol, ledger, node, owner, seed, hand, events, ghosts>>

(* the scheduler picks a turn and its member runs *)
RunTurn(a) ==
  LET agent == NextAgent(protocol, seed[a])
      i == NextIndex(seed[a])
  IN  /\ At(a, "next") /\ agent # NoAgent /\ i \in Indices
      /\ runs' = [runs EXCEPT ![i] = @ + 1]
      /\ hand' = [hand EXCEPT ![a] =
           [index |-> i, agent |-> agent, message |-> runs[i] + 1,
            reads |-> VisibleTurns(protocol, agent, seed[a])]]
      /\ Goto(a, IF Calls[i] = NoEffect THEN "turn" ELSE "tool")
      /\ UNCHANGED <<protocol, interaction, ledger, node, owner, seed, events>>
      /\ UNCHANGED <<reads, wasted, effects, spoiled, overlapped, reran>>

(* variant: only the calls of this turn are looked up *)
Forgotten(f) == FALSE

(* lookup_tool_effect_result *)
KnownEffect(f) == f \in ledger

(* the tool call of the member: a known result is reused *)
LookUpEffect(a) ==
  /\ At(a, "tool")
  /\ Goto(a, IF KnownEffect(Calls[hand[a].index]) THEN "turn" ELSE "effect")
  /\ UNCHANGED <<protocol, interaction, ledger, node, owner, seed, hand, events, ghosts>>

(* the tool runs; an error result has no effect and is not recorded *)
RunTool(a) ==
  /\ At(a, "effect")
  /\ \/ /\ effects' = [effects EXCEPT ![Calls[hand[a].index]] = @ + 1]
        /\ Goto(a, "ledger")
     \/ Goto(a, "turn") /\ UNCHANGED effects
  /\ UNCHANGED <<protocol, interaction, ledger, node, owner, seed, hand, events>>
  /\ UNCHANGED <<runs, reads, wasted, spoiled, overlapped, reran>>

(* record_tool_effect_result *)
RecordEffect(a) ==
  /\ At(a, "ledger")
  /\ ledger' = ledger \cup {Calls[hand[a].index]}
  /\ Goto(a, "turn")
  /\ UNCHANGED <<protocol, interaction, node, owner, seed, hand, events, ghosts>>

RecordTurn(a) ==
  /\ At(a, "turn")
  /\ RecordDurableTurn(hand[a].index, hand[a].agent)
  /\ Goto(a, "message")
  /\ UNCHANGED <<protocol, ledger, node, owner, seed, hand, events, ghosts>>

(* record_member_message: a turn with its message at the end of a transcript  *)
WithTurn(transcript, h) ==
  [i \in DOMAIN transcript \cup {h.index} |->
     IF i = h.index THEN [agent |-> h.agent, message |-> h.message] ELSE transcript[i]]

(* the message is stored, then the turn is added to the attempt's transcript  *)
RecordMessage(a) ==
  LET h == hand[a] IN
  /\ At(a, "message")
  /\ RecordDurableMessage(h.index, h.message, h.reads)
  /\ seed' = [seed EXCEPT ![a] = WithTurn(@, h)]
  /\ Goto(a, "next")
  /\ hand' = [hand EXCEPT ![a] = NoHand]
  /\ UNCHANGED <<protocol, ledger, node, owner, events>>
  /\ UNCHANGED <<runs, wasted, effects, spoiled, overlapped, reran>>

(* no turn is left; a protocol without a typed outcome records none *)
Aggregate(a) ==
  /\ At(a, "next") /\ NextAgent(protocol, seed[a]) = NoAgent
  /\ IF protocol.aggregation = "collect" THEN UNCHANGED interaction
     ELSE RecordDurableOutcome(TypedOutcome(protocol, seed[a]))
  /\ Goto(a, "complete")
  /\ UNCHANGED <<protocol, ledger, node, owner, seed, hand, events, ghosts>>

CompleteInteraction(a) ==
  /\ At(a, "complete")
  /\ EndInteraction("COMPLETED")
  /\ Goto(a, "done")
  /\ UNCHANGED <<protocol, ledger, node, owner, seed, hand, events, ghosts>>

FailInteraction(a) ==
  /\ At(a, "failing")
  /\ EndInteraction("FAILED")
  /\ Goto(a, "failed")
  /\ UNCHANGED <<protocol, ledger, node, owner, seed, hand, events, ghosts>>

(* the report of the node; one of an attempt that lost its execution is       *)
(* rejected                                                                   *)
Leave(a) ==
  /\ Goto(a, "idle")
  /\ seed' = [seed EXCEPT ![a] = NoTranscript]
  /\ hand' = [hand EXCEPT ![a] = NoHand]

Report(a) ==
  /\ pc[a] \in {"done", "failed"}
  /\ IF owner = a
     THEN node' = (IF At(a, "done") THEN "DONE" ELSE "FAILED") /\ owner' = NoAttempt
     ELSE UNCHANGED <<node, owner>>
  /\ Leave(a)
  /\ UNCHANGED <<protocol, interaction, ledger, events, ghosts>>

------------------------------------------------------------------------------
(* Failures *)

(* a member's run that is cut before its turn is recorded is lost *)
Waste(a) ==
  /\ wasted' = IF pc[a] \in {"tool", "effect", "ledger", "turn"}
               THEN [wasted EXCEPT ![hand[a].index] = @ + 1] ELSE wasted
  /\ spoiled' = IF At(a, "ledger")
                THEN [spoiled EXCEPT ![Calls[hand[a].index]] = @ + 1] ELSE spoiled

(* an exception: inside the try block the interaction is failed first *)
Fault(a) ==
  /\ Happens
  /\ \/ /\ pc[a] \in {"next", "tool", "effect", "ledger", "turn", "message"}
        /\ Goto(a, "failing")
     \/ pc[a] \in {"find", "start", "mark", "failing", "complete"} /\ Goto(a, "failed")
  /\ Waste(a)
  /\ UNCHANGED <<protocol, interaction, ledger, node, owner, seed, hand>>
  /\ UNCHANGED <<runs, reads, effects, overlapped, reran>>

Crash(a) ==
  /\ Happens
  /\ ~At(a, "idle")
  /\ Leave(a)
  /\ Waste(a)
  /\ UNCHANGED <<protocol, interaction, ledger, node, owner>>
  /\ UNCHANGED <<runs, reads, effects, overlapped, reran>>

(* The lease of the node's execution has expired: the node is requeued.  This *)
(* is an event only when its worker is alive.                                 *)
Expire ==
  /\ node = "RUNNING"
  /\ IF owner \in Active THEN Happens ELSE UNCHANGED events
  /\ node' = "QUEUED" /\ owner' = NoAttempt
  /\ UNCHANGED <<protocol, interaction, ledger, local, ghosts>>

(* a decision or a revision sends a node that is done back *)
Requeue ==
  /\ node = "DONE" /\ Happens
  /\ node' = "QUEUED"
  /\ UNCHANGED <<protocol, interaction, ledger, owner, local, ghosts>>

------------------------------------------------------------------------------
(* Turn leases *)

SetLease(i, lease) ==
  /\ turn' = [turn EXCEPT ![i].lease = lease]
  /\ UNCHANGED <<status, message, outcome, recovered>>

Elsewhere == UNCHANGED <<protocol, ledger, node, owner, local, ghosts>>

(* grant_durable_turn_lease: a turn that is not there yet is created PENDING  *)
GrantDurableTurnLease(i, agent) ==
  /\ turn[i].status # "COMPLETED" /\ turn[i].lease # "live"
  /\ turn' = [turn EXCEPT ![i] =
       [status |-> "PENDING", agent |-> IF @.status = "ABSENT" THEN agent ELSE @.agent,
        lease |-> "live"]]
  /\ UNCHANGED <<status, message, outcome, recovered>>

(* a worker takes the turn that comes next *)
GrantTurnLease ==
  LET agent == NextAgent(protocol, Durable)
      i == NextIndex(Durable)
  IN  /\ status # "ABSENT" /\ agent # NoAgent /\ i \in Indices
      /\ Happens
      /\ GrantDurableTurnLease(i, agent)
      /\ Elsewhere

ExpireTurnLease(i) ==
  /\ turn[i].lease = "live"
  /\ SetLease(i, "expired")
  /\ UNCHANGED events /\ Elsewhere

(* assert_durable_turn_lease, with the token of the holder, expired or not *)
LeaseIsHeld(i) == turn[i].lease # "none" /\ turn[i].status # "COMPLETED"

(* release_durable_turn_lease: success also completes the turn                *)
ReleaseDurableTurnLease(i, completed) ==
  /\ LeaseIsHeld(i)
  /\ turn' = [turn EXCEPT ![i].lease = "none",
                          ![i].status = IF completed THEN "COMPLETED" ELSE @]
  /\ UNCHANGED <<status, message, outcome, recovered>>

ReleaseTurnLease(i, completed) ==
  ReleaseDurableTurnLease(i, completed) /\ UNCHANGED events /\ Elsewhere

(* variant: a completed turn is recovered too *)
AnyExpired == {i \in Indices : turn[i].lease = "expired"}

(* turns whose lease is not live and that are not completed *)
Expired == {i \in Indices : turn[i].lease = "expired" /\ turn[i].status # "COMPLETED"}

(* _lowest_incomplete_turn_index *)
LowestIncomplete ==
  CHOOSE i \in 0..MaxTurns :
    i \notin Completed /\ \A j \in 0..MaxTurns : j \notin Completed => i <= j

(* recover_expired_durable_turn_leases *)
RecoverDurableTurnLeases ==
  /\ turn' = [i \in Indices |->
       IF i \in Expired THEN [turn[i] EXCEPT !.status = "PENDING", !.lease = "none"]
       ELSE turn[i]]
  /\ recovered' = LowestIncomplete
  /\ UNCHANGED <<status, message, outcome>>

(* at the head of every orchestrator loop; there is a put only if a turn is   *)
(* recovered                                                                  *)
RecoverTurnLeases ==
  Expired # {} /\ RecoverDurableTurnLeases /\ UNCHANGED events /\ Elsewhere

------------------------------------------------------------------------------

(* the calls of the control plane on the interaction *)
InteractionCall(a) ==
  \/ Find(a) \/ Start(a) \/ Mark(a) \/ RecordTurn(a) \/ RecordMessage(a)
  \/ Aggregate(a) \/ CompleteInteraction(a) \/ FailInteraction(a)

Invoke(a) ==
  \/ InteractionCall(a) \/ RunTurn(a)
  \/ LookUpEffect(a) \/ RunTool(a) \/ RecordEffect(a) \/ Report(a)

(* its calls on turn leases *)
TurnLeaseCall ==
  \/ GrantTurnLease \/ RecoverTurnLeases
  \/ \E i \in Indices, completed \in BOOLEAN : ReleaseTurnLease(i, completed)

Next ==
  \/ \E a \in Attempts : Begin(a) \/ Invoke(a) \/ Fault(a) \/ Crash(a)
  \/ Expire \/ Requeue
  \/ TurnLeaseCall
  \/ \E i \in Indices : ExpireTurnLease(i)

Spec == Init /\ [][Next]_vars

------------------------------------------------------------------------------
(* Properties *)

TurnStatus == {"ABSENT", "PENDING", "COMPLETED"}
Lease == {"none", "live", "expired"}

TypeOK ==
  /\ status \in {"ABSENT", "RUNNING", "COMPLETED", "FAILED"}
  /\ turn \in [Indices -> [status : TurnStatus, agent : Members(protocol) \cup {NoAgent},
                           lease : Lease]]
  /\ message \in [Indices -> Nat]
  /\ recovered \in 0..MaxTurns
  /\ node \in {"QUEUED", "RUNNING", "DONE", "FAILED"}
  /\ owner \in Attempts \cup {NoAttempt}

(* no two attempts ran at once, and none ran on an interaction that had ended *)
Undisturbed == ~overlapped /\ ~reran

(* What resuming is for: a turn is run again only when its earlier run was    *)
(* cut before its put, wherever the crashes fall and whatever happens to its  *)
(* lease (collaboration_team.invoke, seed_from_durable: completed turns are   *)
(* not re-run).                                                               *)
ResumeRunsNoTurnTwice ==
  Undisturbed => \A i \in Indices : runs[i] <= 1 + wasted[i]

(* The ledger keeps tool effects from being repeated: an effect takes place   *)
(* again only when an earlier call was cut between the effect and its record, *)
(* also when a turn is run again, when another member makes the same call and *)
(* when the whole node is run again.  Only attempts that overlap may repeat   *)
(* it, since each looks up before the other records.                          *)
EffectsHappenOnce ==
  ~overlapped => \A f \in Effects : effects[f] <= 1 + spoiled[f]

(* All turns of the protocol are taken: each member had one, or in a debate    *)
(* one in each round, in the declared order.                                  *)
EveryMemberHeard ==
  LET n == Len(protocol.members) IN
  /\ Cardinality(Completed) = Turns(protocol)
  /\ IF protocol.mode = "debate"
     THEN \A r \in 0..protocol.rounds - 1, k \in 1..n :
            turn[r * n + k - 1].agent = protocol.members[k]
     ELSE \A m \in Members(protocol) : \E i \in Completed : turn[i].agent = m

(* The completed turns are always the first ones of the protocol, in its      *)
(* order, so that the number of known turns is the index of the next, and all *)
(* of them when the interaction is COMPLETED, whichever attempts it took; a   *)
(* turn that is leased is the next one or done; the recovery marker never     *)
(* points past a turn that is missing.  Holds of attempts that overlap too.   *)
TurnsInOrder ==
  LET n == Cardinality(Completed)
      before(i) == [j \in 0..i - 1 |-> [agent |-> turn[j].agent, message |-> message[j]]]
  IN  /\ Completed = 0..n - 1
      /\ \A i \in Completed : turn[i].agent = NextAgent(protocol, before(i))
      /\ \A i \in Indices : turn[i].status = "PENDING" => i = n
      /\ recovered # NoMark => recovered <= n
      /\ status = "COMPLETED" => EveryMemberHeard

(* The durable conversation is coherent: every message was written from the   *)
(* stored messages the protocol lets its author read, what an attempt goes on *)
(* from is what is stored, and so is the outcome's input.  A message lost     *)
(* between the two puts of a turn is missing for all of them alike.           *)
CoherentConversation ==
  Undisturbed =>
    /\ \A a \in Attempts, i \in Indices :
         i \in DOMAIN seed[a] =>
           i \in Completed /\ seed[a][i] = Durable[i]
    /\ \A i \in Completed :
         message[i] # NoMessage =>
           reads[i] = VisibleTurns(protocol, turn[i].agent,
                                   [j \in 0..i - 1 |-> Durable[j]])
    /\ outcome # NoOutcome => outcome[1] = TypedOutcome(protocol, Durable)

(* What is recorded stays, also for attempts that overlap, that run again     *)
(* what has ended, and for leases recovered in between: a completed turn, the *)
(* first message of a turn, the first outcome, the fact of having ended.      *)
HistoryIsKept ==
  [][/\ \A i \in Indices :
          /\ turn[i].status = "COMPLETED" =>
               turn'[i].status = "COMPLETED" /\ turn'[i].agent = turn[i].agent
          /\ message[i] # NoMessage => message'[i] = message[i]
     /\ outcome # NoOutcome => outcome' = outcome
     /\ status \in {"COMPLETED", "FAILED"} => status' \in {"COMPLETED", "FAILED"}]_vars
==============================================================================
