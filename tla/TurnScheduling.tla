---------------------------- MODULE TurnScheduling ----------------------------
(***************************************************************************)
(* The kernel scheduler of a native MAS team (kernel/scheduler.py): which    *)
(* member takes the next turn and which earlier messages that turn reads, a   *)
(* function of the protocol and of the turns taken so far; and the typed      *)
(* outcome of the protocol (orchestration/collaboration_interaction.py).      *)
(*                                                                          *)
(* A protocol is a record [mode, topology, aggregation, members, coordinator, *)
(* rounds].  A transcript is what the kernel Interaction holds of the turns   *)
(* taken: a function from their indices to [agent, message]; the message is   *)
(* NoMessage when the turn is known but its message is not.                   *)
(***************************************************************************)
EXTENDS Naturals, Sequences, FiniteSets

CONSTANTS
  NoAgent,    \* coordinator_id is None; no turn is left
  NoMessage   \* no message is recorded for a turn

NoTranscript == <<>>

Members(p) == {p.members[i] : i \in DOMAIN p.members}

(* the strategies of the executed protocols, by (mode, topology) *)
Executed == {<<"team", "broadcast">>, <<"team", "pipeline">>, <<"team", "coordinator">>,
             <<"debate", "broadcast">>, <<"vote", "broadcast">>,
             <<"delegation", "coordinator">>}

(* what the validators of CollaborationProtocol and TeamSpec admit, with a    *)
(* strategy to execute it                                                     *)
Valid(p) ==
  /\ <<p.mode, p.topology>> \in Executed
  /\ p.members \in Seq(Members(p)) /\ Members(p) # {} /\ NoAgent \notin Members(p)
  /\ Cardinality(Members(p)) = Len(p.members)
  /\ p.coordinator \in Members(p) \cup {NoAgent}
  /\ p.topology = "coordinator" => p.coordinator # NoAgent
  /\ p.mode \in {"debate", "vote", "delegation"} => Len(p.members) >= 2
  /\ p.mode = "vote" <=> p.aggregation = "vote"
  /\ p.aggregation = "summary" => p.topology = "coordinator"
  /\ p.rounds \in Nat \ {0}

(* acted_agent_ids *)
Acted(transcript) == {transcript[i].agent : i \in DOMAIN transcript}

(* the delegator acts first, the coordinator of a team last                   *)
ActsFirst(p, m) == p.mode = "delegation" /\ m = p.coordinator
ActsLast(p, m) == p.mode = "team" /\ p.topology = "coordinator" /\ m = p.coordinator

Place(p, m) ==
  CASE ActsFirst(p, m) -> 0
    [] ActsLast(p, m) -> Len(p.members) + 1
    [] OTHER -> CHOOSE i \in DOMAIN p.members : p.members[i] = m

(* _next_unacted_turn: the first member in that order that has not acted      *)
NextUnacted(p, transcript) ==
  LET waiting == Members(p) \ Acted(transcript)
  IN  IF waiting = {} THEN NoAgent
      ELSE CHOOSE m \in waiting : \A k \in waiting : Place(p, m) <= Place(p, k)

(* how many turns a protocol has *)
Turns(p) == IF p.mode = "debate" THEN p.rounds * Len(p.members) ELSE Len(p.members)

(* DebateStrategy: round-robin for the given number of rounds                 *)
NextSpeaker(p, transcript) ==
  LET total == Cardinality(DOMAIN transcript)
      n == Len(p.members)
  IN  IF total >= Turns(p) THEN NoAgent ELSE p.members[(total % n) + 1]

(* select_next_turn: the agent; the index of the turn is NextIndex            *)
NextAgent(p, transcript) ==
  IF p.mode = "debate" THEN NextSpeaker(p, transcript) ELSE NextUnacted(p, transcript)

NextIndex(transcript) == Cardinality(DOMAIN transcript)

(* visible_messages: all messages so far, or none                             *)
Reads(p, agent) ==
  \/ p.mode = "debate" \/ p.topology = "pipeline"
  \/ p.mode = "team" /\ p.topology = "coordinator" /\ agent = p.coordinator
  \/ p.mode = "delegation" /\ agent # p.coordinator

Written(transcript) == {i \in DOMAIN transcript : transcript[i].message # NoMessage}

VisibleTurns(p, agent, transcript) ==
  IF Reads(p, agent) THEN Written(transcript) ELSE {}

(* team_typed_outcome: what it is made of.  A vote is over the results of     *)
(* all turns, a summary is the first result of the coordinator; a result      *)
(* whose message is missing counts as empty.  The tally, its winner and its   *)
(* ties are a function of these messages (protocol_outcomes.py).              *)
Counted(p, transcript) ==
  CASE p.aggregation = "vote" -> DOMAIN transcript
    [] p.aggregation = "summary" ->
         {i \in DOMAIN transcript :
            /\ transcript[i].agent = p.coordinator
            /\ \A j \in DOMAIN transcript : transcript[j].agent = p.coordinator => i <= j}
    [] OTHER -> {}

TypedOutcome(p, transcript) ==
  [i \in Counted(p, transcript) |-> transcript[i].message]
==============================================================================
