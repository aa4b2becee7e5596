---------------------------- MODULE ModelDialogue ----------------------------
(***************************************************************************)
(* The dialogue of one model, in each loop that leads one: a node that is     *)
(* executed directly or by a subagent (agent_invocation.py, agent_tools.py,   *)
(* explicit_submit_execution_harness.py), or a member of a team               *)
(* (subagent_spawn.py, collaboration_member.py,                               *)
(* collaboration_member_strategy.py), under the harness that drains the tool  *)
(* calls of every answer or the one that takes a single action per turn.      *)
(* What the dialogue becomes on the wire, and what comes back from it, is     *)
(* openai_compatible_support.py.                                             *)
(*                                                                          *)
(* NodeExecution follows the tool calls to their effects and their records,   *)
(* and the verifiers; here they only answer.  The messages of other members   *)
(* that a team member is shown first call no tool, and are left out.          *)
(***************************************************************************)
EXTENDS Naturals, Sequences, FiniteSets, Functions

CONSTANTS
  Offers,      \* the tools a node may be given, each in its order
  Selections,  \* AgentSpec.tools: those a member may declare, none if all
  Cleaned,     \* the name a tool has once its illegal characters are gone
  MaxCalls,    \* bound: tools called by one answer
  MaxTurns     \* max_tool_rounds, or the max_turns of the policy

ASSUME ModelDialogueAssumption ==
  /\ MaxCalls \in Nat /\ MaxTurns \in Nat
  /\ \A o \in Offers \cup Selections : IsInjective(o) /\ Range(o) \subseteq DOMAIN Cleaned

VARIABLES
  speaker,   \* whose model it is
  strategy,  \* the harness: it drains or it submits
  tools,     \* the tools the model is offered, in their order
  dialogue,  \* the messages so far
  answer,    \* the last answer: its calls, whether it submits
  turn,      \* turns taken since the first answer
  stage      \* what comes next

dialogueVars == <<speaker, strategy, tools, dialogue, answer, turn, stage>>

NoAnswer == [calls |-> <<>>, submits |-> FALSE]
FromUser == [role |-> "user", calls |-> <<>>, results |-> <<>>]
FromModel(calls) == [role |-> "assistant", calls |-> calls, results |-> <<>>]
FromTools(ids) == [role |-> "tool", calls |-> <<>>, results |-> ids]

------------------------------------------------------------------------------
(* Names of tools.  A provider takes names of a restricted form, and the       *)
(* names of two tools may become one: a name that is used gets a number.  A    *)
(* name is the sequence of its parts, of which such a number is one.           *)

Unique(name, used) ==
  IF name \notin used THEN name
  ELSE Append(name, CHOOSE k \in 2..Cardinality(used) + 2 :
                      /\ Append(name, k) \notin used
                      /\ \A j \in 2..k - 1 : Append(name, j) \in used)

(* provider_tool_name_map: the names of the tools, in their order               *)
ProviderNames(offered) ==
  LET names[i \in 0..Len(offered)] ==
        IF i = 0 THEN <<>>
        ELSE Append(names[i - 1], Unique(Cleaned[offered[i]], Range(names[i - 1])))
  IN  names[Len(offered)]

(* The tool that parse_tool_call finds under a name.  Another name is taken as   *)
(* it is written; that no tool is called so is an abstraction.                  *)
NoTool == "none"
ToolNamed(offered, name) ==
  LET at == {i \in DOMAIN offered : ProviderNames(offered)[i] = name}
  IN IF at = {} THEN NoTool ELSE offered[CHOOSE i \in at : \A j \in at : j <= i]

(* What the model writes: the names it was given, or one it makes up.           *)
MadeUp == <<"made_up">>
Written == Range(ProviderNames(tools)) \cup {MadeUp}
Calls(names) ==
  [i \in DOMAIN names |-> [id |-> <<Len(dialogue), i>>, written |-> names[i],
                           tool |-> ToolNamed(tools, names[i])]]

(* to_openai_messages: a message of tool results is one message for each       *)
Sent(m) ==
  IF m.results = <<>> THEN <<m>>
  ELSE [j \in 1..Len(m.results) |-> FromTools(<<m.results[j]>>)]

Wire(d) ==
  LET sent[i \in 0..Len(d)] == IF i = 0 THEN <<>> ELSE sent[i - 1] \o Sent(d[i])
  IN  sent[Len(d)]

------------------------------------------------------------------------------
DialogueInit ==
  /\ speaker \in {"direct", "subagent", "member"}
  /\ strategy \in {"drain", "submit"}
  /\ tools \in Offers
  /\ dialogue = <<FromUser>> /\ answer = NoAnswer /\ turn = 0
  /\ stage = "new"

Ends(how) ==
  /\ stage' = how
  /\ UNCHANGED <<speaker, strategy, tools, dialogue, answer, turn>>

(* A node asks with its tools.                                                *)
NodeAsks == /\ stage = "new" /\ speaker # "member" /\ Ends("asked")

(* tools_for_agent: a member declares tools of the node, in an order of its own *)
MemberAsks(selection) ==
  /\ stage = "new" /\ speaker = "member"
  /\ Range(selection) \subseteq Range(tools)
  /\ tools' = IF selection = <<>> THEN tools ELSE selection
  /\ stage' = "asked"
  /\ UNCHANGED <<speaker, strategy, dialogue, answer, turn>>

MemberLacksTools(selection) ==
  /\ stage = "new" /\ speaker = "member"
  /\ ~(Range(selection) \subseteq Range(tools))
  /\ Ends("raised")

(* The handle of a member writes the answer into its own messages; a node       *)
(* writes it into its messages once it has decided what to do with it.           *)
Told(calls) ==
  IF speaker = "member" THEN Append(dialogue, FromModel(calls)) ELSE dialogue

ModelAnswers(names, submits) ==
  /\ stage = "asked"
  /\ answer' = [calls |-> Calls(names), submits |-> submits]
  /\ dialogue' = Told(Calls(names))
  /\ stage' = "answered"
  /\ UNCHANGED <<speaker, strategy, tools, turn>>

(* The endpoint refuses, cannot be reached, or takes longer than its timeout.   *)
ModelFails == /\ stage = "asked" /\ Ends("raised")

------------------------------------------------------------------------------
(* What a loop makes of an answer *)

Calling == answer.calls # <<>>
Submitted == strategy = "submit" /\ answer.submits
Member == speaker = "member"

(* A member whose first answer calls a tool although it has none, and a node     *)
(* that has none.                                                             *)
Toolless == Calling /\ tools = <<>>
CallsWithoutTools ==
  /\ stage = "answered" /\ Toolless
  /\ Member \/ strategy = "drain" \/ (~Submitted /\ turn < MaxTurns)
  /\ Ends("raised")

Submits ==
  /\ stage = "answered" /\ Submitted
  /\ ~(Member /\ Toolless)
  /\ Ends("reported")

(* An answer without a call is the last, except to the node that waits for a    *)
(* submission.                                                                *)
AnswersPlainly ==
  /\ stage = "answered" /\ ~Calling /\ ~Submitted
  /\ strategy = "drain" \/ Member
  /\ Ends("reported")

Idles ==
  /\ stage = "answered" /\ ~Calling /\ ~Submitted
  /\ strategy = "submit" /\ ~Member /\ turn < MaxTurns
  /\ dialogue' = Append(dialogue, FromModel(<<>>))
  /\ turn' = turn + 1 /\ stage' = "asked"
  /\ UNCHANGED <<speaker, strategy, tools, answer>>

(* the calls of an answer that are made: all of them, or its first               *)
Taken == IF strategy = "submit" THEN <<Head(answer.calls)>> ELSE answer.calls

(* variant: the whole answer, whatever is taken of it                          *)
NotedWhole == IF Member THEN dialogue ELSE Append(dialogue, FromModel(answer.calls))

(* what a node writes of the answer it acts on                                *)
Noted == IF Member THEN dialogue ELSE Append(dialogue, FromModel(Taken))

Acting ==
  /\ stage = "answered" /\ Calling /\ tools # <<>> /\ ~Submitted /\ turn < MaxTurns

(* execute_tool_round makes no call if one of them is of no tool of the model     *)
Unauthorized == /\ Acting /\ \E i \in DOMAIN Taken : Taken[i].tool = NoTool
                /\ Ends("raised")

ActsOnCalls ==
  /\ Acting /\ \A i \in DOMAIN Taken : Taken[i].tool # NoTool
  /\ dialogue' = Append(Noted, FromTools([i \in DOMAIN Taken |-> Taken[i].id]))
  /\ turn' = turn + 1 /\ stage' = "asked"
  /\ UNCHANGED <<speaker, strategy, tools, answer>>

(* a result that cannot be recorded ends the turn                             *)
RecordFails == /\ Acting /\ Ends("raised")

(* Out of turns: calls that are left fail the one that drains, no submission      *)
(* fails the node that waits for it, and a member is taken at its word.           *)
OutOfTurns ==
  /\ stage = "answered" /\ ~Submitted /\ turn = MaxTurns
  /\ \/ strategy = "drain" /\ Calling /\ tools # <<>> /\ Ends("raised")
     \/ strategy = "submit" /\ ~Member /\ Ends("failed")
     \/ strategy = "submit" /\ Member /\ Calling /\ tools # <<>> /\ Ends("reported")

DialogueOver == stage \in {"reported", "failed", "raised"} /\ UNCHANGED dialogueVars

DialogueNext ==
  \/ NodeAsks
  \/ \E s \in Selections : MemberAsks(s) \/ MemberLacksTools(s)
  \/ \E n \in 0..MaxCalls : \E names \in [1..n -> Written], submits \in BOOLEAN :
       ModelAnswers(names, submits)
  \/ ModelFails \/ CallsWithoutTools \/ Submits \/ AnswersPlainly \/ Idles
  \/ Unauthorized \/ ActsOnCalls \/ RecordFails \/ OutOfTurns
  \/ DialogueOver

DialogueSpec == DialogueInit /\ [][DialogueNext]_dialogueVars

------------------------------------------------------------------------------
ResultsOf(m) == {m.results[j] : j \in DOMAIN m.results}
CallsOf(m) == {m.calls[j].id : j \in DOMAIN m.calls}

(* The messages behind message i of the wire, up to the first that is no result   *)
Behind(w, i) == {k \in i + 1..Len(w) : \A j \in i + 1..k : w[j].role = "tool"}

(* the calls of message i that they do not answer                              *)
Unanswered(w, i) ==
  {j \in DOMAIN w[i].calls : \A k \in Behind(w, i) : w[i].calls[j].id \notin ResultsOf(w[k])}

(* Message i is followed by the result of each of its calls, the first in front.  *)
(* A member that takes one action per turn is sent the result of the first only.  *)
AnsweredAt(w, i) ==
  /\ Unanswered(w, i) = IF Member /\ strategy = "submit" THEN 2..Len(w[i].calls) ELSE {}
  /\ i + 1 \in 1..Len(w) /\ w[i + 1].results = <<w[i].calls[1].id>>

(* A result is behind a message with its call.                                  *)
CalledBefore(w, i) ==
  \A id \in ResultsOf(w[i]) : \E h \in 1..i - 1 : i \in Behind(w, h) /\ id \in CallsOf(w[h])

(* A chat API takes a message that calls tools only with the result of every    *)
(* call behind it, and results of nothing else.  Whatever a model calls, and     *)
(* whenever, that holds of what it is sent in every loop but one: a member that   *)
(* takes one action per turn is sent all the calls of its answers and the result  *)
(* of the first, for its handle has written the whole answer before the strategy   *)
(* takes the first call of it                                                  *)
(* (subagent_spawn.py:128, collaboration_member_strategy.py:230).                *)
EveryCallIsAnswered ==
  stage = "asked" =>
    \A i \in 1..Len(Wire(dialogue)) :
      LET w == Wire(dialogue) IN (w[i].calls # <<>> => AnsweredAt(w, i)) /\ CalledBefore(w, i)
==============================================================================
