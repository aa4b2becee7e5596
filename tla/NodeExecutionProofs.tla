------------------------- MODULE NodeExecutionProofs -------------------------
(* For any graph, tools, answers, harness and number of crashes: a tool is not *)
(* run again once its success is recorded, and, when every call has its own    *)
(* id, the rows say what the tools did and what the model was told.  What the  *)
(* built-in tools and a host's answer is true, and no process outlives its     *)
(* call (ToolExecution).  What a model is sent has every call answered, and     *)
(* nothing that it did not call (ModelDialogue).                              *)
EXTENDS NodeExecution, ToolExecution, ModelDialogue, FiniteSetTheorems, SequenceTheorems, TLAPS

USE NodeExecutionAssumption

Phases == {"idle", "model", "look", "start", "run", "reuse", "effect", "done", "verify",
           "report", "error"}

(* the steps of a tool call                                                    *)
InCall == {"look", "start", "run", "reuse", "effect", "done"}

MaybeResult == Results \cup {"none"}

EpisodeTypes ==
  /\ effects \in [Nodes -> [Tools -> MaybeResult]]
  /\ seen \in [Tools -> MaybeResult]
  /\ ran \in [Nodes -> [Tools -> Nat]]
  /\ cut \in [Nodes -> [Tools -> Nat]]
  /\ pc \in Phases
  /\ pc # "idle" => at \in Nodes
  /\ calls \in Seq(Tools)
  /\ pc \in InCall => calls # <<>>

(* The ledger has no success of a tool that is about to run, nor of one that   *)
(* has just run; only the latter counts as a success on its way to the ledger.  *)
NotYetRecorded ==
  /\ pc = "start" /\ result = "none" => effects[at][Tool] = "none"
  /\ pc \in {"run", "effect"} => effects[at][Tool] = "none"
  /\ pc = "effect" => result \in Results

Recorded(n, t) == IF effects[n][t] # "none" THEN 1 ELSE 0
OnItsWay(n, t) == IF pc = "effect" /\ at = n /\ Tool = t THEN 1 ELSE 0

SuccessesCounted ==
  \A n \in Nodes, t \in Tools : ran[n][t] <= cut[n][t] + Recorded(n, t) + OnItsWay(n, t)

EffectsInv == EpisodeTypes /\ NotYetRecorded /\ SuccessesCounted

------------------------------------------------------------------------------
(* A call is taken off a round's calls                                         *)

LEMMA FirstOfCalls ==
  ASSUME NEW s \in Seq(Tools), s # <<>>
  PROVE  Head(s) \in Tools /\ Tail(s) \in Seq(Tools)
OBVIOUS

LEMMA ToolInCall ==
  EpisodeTypes /\ pc \in InCall => Tool \in Tools /\ at \in Nodes
BY FirstOfCalls DEF EpisodeTypes, InCall, Tool

LEMMA ActionIsCalls ==
  ASSUME NEW a \in Answers
  PROVE  Action(a) \in Seq(Tools) /\ (a # <<>> => Action(a) # <<>>)
<1>1. a \in Seq(Tools)
  OBVIOUS
<1>2. CASE Action(a) = a
  BY <1>1, <1>2
<1>3. CASE a # <<>> /\ Action(a) = <<Head(a)>>
  BY <1>1, <1>3, FirstOfCalls
<1>4. QED
  BY <1>2, <1>3 DEF Action

(* one entry of a function of functions is changed                             *)
LEMMA EntryChanged ==
  ASSUME NEW I, NEW J, NEW V, NEW f \in [I -> [J -> V]], NEW i \in I, NEW j \in J, NEW v \in V,
         NEW g, g = [f EXCEPT ![i][j] = v]
  PROVE  /\ g \in [I -> [J -> V]] /\ g[i][j] = v
         /\ \A x \in I, y \in J : (x # i \/ y # j) => g[x][y] = f[x][y]
OBVIOUS

------------------------------------------------------------------------------
(* EffectsInv holds in every state                                             *)

LEMMA EffectsInit == Init => EffectsInv
BY DEF Init, EffectsInv, EpisodeTypes, NotYetRecorded, SuccessesCounted, Recorded, OnItsWay,
       NoResults, Results, MaybeResult, Phases, InCall

(* a step that records nothing, runs nothing and does not end a crashed call   *)
LEMMA QuietStep ==
  ASSUME EffectsInv, UNCHANGED <<effects, ran, cut>>, pc # "effect",
         seen' \in [Tools -> MaybeResult], calls' \in Seq(Tools), pc' \in Phases,
         pc' # "idle" => at' \in Nodes, pc' \in InCall => calls' # <<>>,
         pc' # "effect",
         pc' = "run" \/ (pc' = "start" /\ result' = "none") => effects[at'][Tool'] = "none"
  PROVE  EffectsInv'
<1>1. EpisodeTypes'
  BY DEF EffectsInv, EpisodeTypes
<1>2. NotYetRecorded'
  BY DEF NotYetRecorded
<1>3. ASSUME NEW n \in Nodes, NEW t \in Tools
      PROVE  ran'[n][t] <= cut'[n][t] + Recorded(n, t)' + OnItsWay(n, t)'
  <2>1. /\ ran[n][t] <= cut[n][t] + Recorded(n, t) + OnItsWay(n, t)
        /\ ran'[n][t] = ran[n][t] /\ cut'[n][t] = cut[n][t] /\ effects' = effects
    BY <1>3 DEF EffectsInv, SuccessesCounted
  <2>2. OnItsWay(n, t) = 0 /\ OnItsWay(n, t)' = 0 /\ Recorded(n, t)' = Recorded(n, t)
    BY <2>1 DEF OnItsWay, Recorded
  <2>3. QED
    BY <2>1, <2>2
<1>4. QED
  BY <1>1, <1>2, <1>3 DEF EffectsInv, SuccessesCounted

(* between calls nothing is on its way                                         *)
LEMMA OutsideCalls ==
  ASSUME EffectsInv, UNCHANGED <<effects, ran, cut>>, pc # "effect",
         seen' \in [Tools -> MaybeResult], calls' \in Seq(Tools),
         pc' \in Phases, pc' \notin InCall, pc' # "idle" => at' \in Nodes
  PROVE  EffectsInv'
BY QuietStep DEF InCall

LEMMA SessionSteps ==
  ASSUME EffectsInv,
         \/ \E n \in Nodes : Open(n)
         \/ CompleteSession \/ ReportStep
         \/ \E n \in Nodes, action \in {"APPROVE", "REVISE", "REJECT"} : Decide(n, action)
  PROVE  EffectsInv'
<1>1. CASE \E n \in Nodes : Open(n)
  BY <1>1, OutsideCalls
     DEF Open, EffectsInv, EpisodeTypes, InCall, Phases, ghosts
<1>2. CASE CompleteSession
  BY <1>2, OutsideCalls DEF CompleteSession, EffectsInv, EpisodeTypes, InCall, Phases, ghosts, episode
<1>3. CASE Verify
  BY <1>3, OutsideCalls DEF Verify, EffectsInv, EpisodeTypes, InCall, Phases, ghosts, durable
<1>4. NoResults \in [Tools -> MaybeResult] /\ <<>> \in Seq(Tools)
  BY DEF NoResults, MaybeResult
<1>5. CASE ReportError
  BY <1>4, <1>5, OutsideCalls DEF ReportError, EffectsInv, InCall, Phases, ghosts, Idle
<1>6. CASE \E outcome \in HostGate : Report(outcome)
  <2>1. UNCHANGED <<effects, ran, cut>> /\ pc = "report" /\ Idle
    BY <1>6 DEF Report, ghosts
  <2>2. QED
    BY <1>4, <2>1, OutsideCalls DEF InCall, Phases, Idle
<1>7. CASE \E n \in Nodes, action \in {"APPROVE", "REVISE", "REJECT"} : Decide(n, action)
  BY <1>7, OutsideCalls DEF Decide, EffectsInv, EpisodeTypes, InCall, Phases, ghosts, episode
<1>8. QED
  BY <1>1, <1>2, <1>3, <1>5, <1>6, <1>7 DEF ReportStep

LEMMA HarnessSteps ==
  ASSUME EffectsInv, HarnessStep
  PROVE  EffectsInv'
<1>1. CASE \E a \in Answers : TakeCalls(a)
  <2>1. PICK a \in Answers : TakeCalls(a)
    BY <1>1
  <2>2. calls' \in Seq(Tools) /\ calls' # <<>>
    BY <2>1, ActionIsCalls DEF TakeCalls
  <2>3. UNCHANGED <<effects, ran, cut, seen, at>> /\ pc = "model" /\ pc' = "look"
    BY <2>1 DEF TakeCalls, durable, ghosts
  <2>4. QED
    BY <2>2, <2>3, QuietStep DEF EffectsInv, EpisodeTypes, Phases
<1>2. CASE \E a \in Answers : \E submitted \in BOOLEAN : EndEpisode(a, submitted)
  BY <1>2, OutsideCalls
     DEF EndEpisode, EffectsInv, EpisodeTypes, InCall, Phases, ghosts, durable
<1>3. CASE IdleTurn
  BY <1>3, OutsideCalls DEF IdleTurn, EffectsInv, EpisodeTypes, InCall, Phases, ghosts, durable
<1>4. CASE EpisodeFails
  BY <1>4, OutsideCalls
     DEF EpisodeFails, EffectsInv, EpisodeTypes, InCall, Phases, ghosts, durable
<1>5. QED
  BY <1>1, <1>2, <1>3, <1>4 DEF HarnessStep

LEMMA ToolSteps ==
  ASSUME EffectsInv, LookUp \/ RecordStarted \/ ToolFails \/ Reuse \/ RecordCompleted
  PROVE  EffectsInv'
<1>1. CASE LookUp
  <2>1. Tool \in Tools /\ at \in Nodes
    BY <1>1, ToolInCall DEF EffectsInv, LookUp, InCall
  <2>2. /\ Known \in MaybeResult /\ (Known = "none" => effects[at][Tool] = "none")
    BY <2>1 DEF Known, EffectsInv, EpisodeTypes
  <2>3. seen' \in [Tools -> MaybeResult]
    BY <1>1, <2>1, <2>2 DEF LookUp, EffectsInv, EpisodeTypes
  <2>4. /\ UNCHANGED <<effects, ran, cut, at, calls>> /\ pc = "look" /\ pc' = "start"
        /\ Tool' = Tool /\ result' = Known
    BY <1>1 DEF LookUp, durable, ghosts, Tool
  <2>5. QED
    BY <2>2, <2>3, <2>4, QuietStep DEF EffectsInv, EpisodeTypes, Phases, InCall
<1>2. CASE RecordStarted
  <2>1. /\ UNCHANGED <<effects, ran, cut, at, calls, seen>> /\ pc = "start" /\ Tool' = Tool
        /\ pc' = IF result = "none" THEN "run" ELSE "reuse"
    BY <1>2 DEF RecordStarted, ghosts, Tool
  <2>2. pc' = "run" => effects[at][Tool] = "none"
    BY <2>1 DEF EffectsInv, NotYetRecorded
  <2>3. QED
    BY <2>1, <2>2, QuietStep DEF EffectsInv, EpisodeTypes, Phases, InCall
<1>3. CASE ToolFails \/ Reuse
  <2>1. /\ UNCHANGED <<effects, ran, cut, at, calls, seen>> /\ pc \in {"run", "reuse"}
        /\ pc' = "done"
    BY <1>3 DEF ToolFails, Reuse, durable, ghosts
  <2>2. QED
    BY <2>1, QuietStep DEF EffectsInv, EpisodeTypes, Phases, InCall
<1>4. CASE RecordCompleted
  <2>1. /\ UNCHANGED <<effects, ran, cut, at, seen>> /\ pc = "done" /\ calls' = Tail(calls)
        /\ pc' = IF Tail(calls) = <<>> THEN "model" ELSE "look"
    BY <1>4 DEF RecordCompleted
  <2>2. calls' \in Seq(Tools)
    BY <2>1, FirstOfCalls DEF EffectsInv, EpisodeTypes, InCall
  <2>3. QED
    BY <2>1, <2>2, QuietStep DEF EffectsInv, EpisodeTypes, Phases, InCall
<1>5. QED
  BY <1>1, <1>2, <1>3, <1>4

(* the success is on its way to the ledger                                     *)
LEMMA RunToolStep ==
  ASSUME EffectsInv, RunTool
  PROVE  EffectsInv'
<1>1. Tool \in Tools /\ at \in Nodes
  BY ToolInCall DEF EffectsInv, RunTool, InCall
<1>2. /\ UNCHANGED <<effects, cut, at, calls, seen>> /\ pc = "run" /\ pc' = "effect"
      /\ Tool' = Tool /\ result' = Answer(Tool)
      /\ ran' = [ran EXCEPT ![at][Tool] = @ + 1]
  BY DEF RunTool, durable, Tool
<1>3. ran \in [Nodes -> [Tools -> Nat]] /\ effects[at][Tool] = "none"
  BY <1>2 DEF EffectsInv, EpisodeTypes, NotYetRecorded
<1>4. ran[at][Tool] + 1 \in Nat
  BY <1>1, <1>3
<1>5. ran' = [ran EXCEPT ![at][Tool] = ran[at][Tool] + 1]
  BY <1>2
<1>6. /\ ran' \in [Nodes -> [Tools -> Nat]] /\ ran'[at][Tool] = ran[at][Tool] + 1
      /\ \A n \in Nodes, t \in Tools : (n # at \/ t # Tool) => ran'[n][t] = ran[n][t]
  BY <1>1, <1>3, <1>4, <1>5, EntryChanged
<1>7. EpisodeTypes'
  BY <1>1, <1>2, <1>6 DEF EffectsInv, EpisodeTypes, Phases, InCall
<1>8. NotYetRecorded'
  BY <1>2, <1>3 DEF NotYetRecorded, Answer, Results
<1>9. ASSUME NEW n \in Nodes, NEW t \in Tools
      PROVE  ran'[n][t] <= cut'[n][t] + Recorded(n, t)' + OnItsWay(n, t)'
  <2>1. /\ ran[n][t] <= cut[n][t] + Recorded(n, t) + OnItsWay(n, t)
        /\ ran[n][t] \in Nat /\ cut[n][t] \in Nat /\ cut'[n][t] = cut[n][t]
    BY <1>2, <1>9 DEF EffectsInv, SuccessesCounted, EpisodeTypes
  <2>2. OnItsWay(n, t) = 0 /\ Recorded(n, t)' = Recorded(n, t) /\ Recorded(n, t) \in {0, 1}
    BY <1>2 DEF OnItsWay, Recorded
  <2>3. CASE n = at /\ t = Tool
    <3>1. OnItsWay(n, t)' = 1 /\ ran'[n][t] = ran[n][t] + 1
      BY <1>2, <1>6, <2>3 DEF OnItsWay
    <3>2. QED
      BY <2>1, <2>2, <3>1
  <2>4. CASE n # at \/ t # Tool
    <3>1. OnItsWay(n, t)' = 0 /\ ran'[n][t] = ran[n][t]
      BY <1>2, <1>6, <1>9, <2>4 DEF OnItsWay
    <3>2. QED
      BY <2>1, <2>2, <3>1
  <2>5. QED
    BY <2>3, <2>4
<1>10. QED
  BY <1>7, <1>8, <1>9 DEF EffectsInv, SuccessesCounted

LEMMA RecordEffectStep ==
  ASSUME EffectsInv, RecordEffect
  PROVE  EffectsInv'
<1>1. Tool \in Tools /\ at \in Nodes
  BY ToolInCall DEF EffectsInv, RecordEffect, InCall
<1>2. /\ UNCHANGED <<ran, cut, at, calls>> /\ pc = "effect" /\ pc' = "done" /\ Tool' = Tool
      /\ seen' = [seen EXCEPT ![Tool] = result]
      /\ effects' = [effects EXCEPT ![at][Tool] = IF @ = "none" THEN result ELSE @]
  BY DEF RecordEffect, ghosts, Tool
<1>3. /\ effects \in [Nodes -> [Tools -> MaybeResult]] /\ seen \in [Tools -> MaybeResult]
      /\ effects[at][Tool] = "none" /\ result \in Results /\ result \in MaybeResult
  BY <1>2 DEF EffectsInv, EpisodeTypes, NotYetRecorded, MaybeResult
<1>4. effects' = [effects EXCEPT ![at][Tool] = result]
  BY <1>2, <1>3
<1>5. /\ effects' \in [Nodes -> [Tools -> MaybeResult]] /\ effects'[at][Tool] = result
      /\ \A n \in Nodes, t \in Tools : (n # at \/ t # Tool) => effects'[n][t] = effects[n][t]
  BY <1>1, <1>3, <1>4, EntryChanged
<1>6. seen' \in [Tools -> MaybeResult]
  BY <1>1, <1>2, <1>3
<1>7. EpisodeTypes'
  BY <1>1, <1>2, <1>5, <1>6 DEF EffectsInv, EpisodeTypes, Phases, InCall
<1>8. NotYetRecorded'
  BY <1>2 DEF NotYetRecorded
<1>9. ASSUME NEW n \in Nodes, NEW t \in Tools
      PROVE  ran'[n][t] <= cut'[n][t] + Recorded(n, t)' + OnItsWay(n, t)'
  <2>1. /\ ran[n][t] <= cut[n][t] + Recorded(n, t) + OnItsWay(n, t)
        /\ ran[n][t] \in Nat /\ cut[n][t] \in Nat
        /\ cut'[n][t] = cut[n][t] /\ ran'[n][t] = ran[n][t]
    BY <1>2, <1>9 DEF EffectsInv, SuccessesCounted, EpisodeTypes
  <2>2. OnItsWay(n, t)' = 0
    BY <1>2 DEF OnItsWay
  <2>3. CASE n = at /\ t = Tool
    <3>1. OnItsWay(n, t) = 1 /\ Recorded(n, t) = 0 /\ Recorded(n, t)' = 1
      BY <1>2, <1>3, <1>5, <2>3 DEF OnItsWay, Recorded, Results
    <3>2. QED
      BY <2>1, <2>2, <3>1
  <2>4. CASE n # at \/ t # Tool
    <3>1. OnItsWay(n, t) = 0 /\ Recorded(n, t)' = Recorded(n, t) /\ Recorded(n, t) \in {0, 1}
      BY <1>5, <1>9, <2>4 DEF OnItsWay, Recorded
    <3>2. QED
      BY <2>1, <2>2, <3>1
  <2>5. QED
    BY <2>3, <2>4
<1>10. QED
  BY <1>7, <1>8, <1>9 DEF EffectsInv, SuccessesCounted

(* a crash with a success on its way cuts it, any other costs nothing           *)
LEMMA CrashStep ==
  ASSUME EffectsInv, Crash
  PROVE  EffectsInv'
<1>1. NoResults \in [Tools -> MaybeResult] /\ <<>> \in Seq(Tools)
  BY DEF NoResults, MaybeResult
<1>2. UNCHANGED <<effects, ran>> /\ Idle
  BY DEF Crash, durable
<1>3. CASE pc # "effect"
  <2>1. UNCHANGED cut
    BY <1>3 DEF Crash
  <2>2. QED
    BY <1>1, <1>2, <1>3, <2>1, OutsideCalls DEF Idle, Phases, InCall
<1>4. CASE pc = "effect"
  <2>1. Tool \in Tools /\ at \in Nodes
    BY <1>4, ToolInCall DEF EffectsInv, InCall
  <2>2. cut \in [Nodes -> [Tools -> Nat]] /\ cut[at][Tool] + 1 \in Nat
    BY <2>1 DEF EffectsInv, EpisodeTypes
  <2>3. cut' = [cut EXCEPT ![at][Tool] = cut[at][Tool] + 1]
    BY <1>4 DEF Crash
  <2>4. /\ cut' \in [Nodes -> [Tools -> Nat]] /\ cut'[at][Tool] = cut[at][Tool] + 1
        /\ \A n \in Nodes, t \in Tools : (n # at \/ t # Tool) => cut'[n][t] = cut[n][t]
    BY <2>1, <2>2, <2>3, EntryChanged
  <2>5. EpisodeTypes'
    BY <1>1, <1>2, <2>4 DEF EffectsInv, EpisodeTypes, Phases, InCall, Idle
  <2>6. NotYetRecorded'
    BY <1>2 DEF NotYetRecorded, Idle
  <2>7. ASSUME NEW n \in Nodes, NEW t \in Tools
        PROVE  ran'[n][t] <= cut'[n][t] + Recorded(n, t)' + OnItsWay(n, t)'
    <3>1. /\ ran[n][t] <= cut[n][t] + Recorded(n, t) + OnItsWay(n, t)
          /\ ran[n][t] \in Nat /\ cut[n][t] \in Nat /\ ran'[n][t] = ran[n][t]
      BY <1>2, <2>7 DEF EffectsInv, SuccessesCounted, EpisodeTypes
    <3>2. /\ OnItsWay(n, t)' = 0 /\ Recorded(n, t)' = Recorded(n, t)
          /\ Recorded(n, t) \in {0, 1}
      BY <1>2 DEF OnItsWay, Recorded, Idle
    <3>3. CASE n = at /\ t = Tool
      <4>1. OnItsWay(n, t) = 1 /\ cut'[n][t] = cut[n][t] + 1
        BY <1>4, <2>4, <3>3 DEF OnItsWay
      <4>2. QED
        BY <3>1, <3>2, <4>1
    <3>4. CASE n # at \/ t # Tool
      <4>1. OnItsWay(n, t) = 0 /\ cut'[n][t] = cut[n][t]
        BY <2>4, <2>7, <3>4 DEF OnItsWay
      <4>2. QED
        BY <3>1, <3>2, <4>1
    <3>5. QED
      BY <3>3, <3>4
  <2>8. QED
    BY <2>5, <2>6, <2>7 DEF EffectsInv, SuccessesCounted
<1>5. QED
  BY <1>3, <1>4

LEMMA EffectsStep ==
  ASSUME EffectsInv, [Next]_vars
  PROVE  EffectsInv'
<1>1. CASE UNCHANGED vars
  BY <1>1 DEF vars, durable, episode, ghosts, EffectsInv, EpisodeTypes, NotYetRecorded,
              SuccessesCounted, Recorded, OnItsWay, Tool
<1>2. CASE Next
  BY <1>2, SessionSteps, HarnessSteps, ToolSteps, RunToolStep, RecordEffectStep, CrashStep
     DEF Next, Step, ToolStep, RecordTool
<1>3. QED
  BY <1>1, <1>2

THEOREM EffectsAlways == Spec => []EffectsInv
BY EffectsInit, EffectsStep, PTL DEF Spec

(* A tool that succeeded is not run again for its node, by another round, a    *)
(* redelivery or a revision, unless the worker died before the success was     *)
(* recorded (EffectsAreNotRepeated).  A success that is on its way to the      *)
(* ledger has no other in the ledger: what was recorded or is on its way is     *)
(* one success at most.                                                        *)
THEOREM NeverRepeated == Spec => []EffectsAreNotRepeated
<1>1. EffectsInv => EffectsAreNotRepeated
  <2>1. SUFFICES ASSUME EffectsInv, NEW n \in Nodes, NEW t \in Tools
                 PROVE  ran[n][t] <= 1 + cut[n][t]
    BY DEF EffectsAreNotRepeated
  <2>2. /\ ran[n][t] <= cut[n][t] + Recorded(n, t) + OnItsWay(n, t)
        /\ ran[n][t] \in Nat /\ cut[n][t] \in Nat
    BY <2>1 DEF EffectsInv, SuccessesCounted, EpisodeTypes
  <2>3. /\ Recorded(n, t) \in {0, 1} /\ OnItsWay(n, t) \in {0, 1}
        /\ Recorded(n, t) = 0 \/ OnItsWay(n, t) = 0
    BY <2>1 DEF Recorded, OnItsWay, EffectsInv, NotYetRecorded
  <2>4. QED
    BY <2>2, <2>3
<1>2. QED
  BY <1>1, EffectsAlways, PTL

------------------------------------------------------------------------------
(* LedgerIsTruth, when every tool call has its own id: the rows of an attempt   *)
(* are then a sequence, to which a call adds its row.                          *)

Row == [tool : Tools, status : {"STARTED", "SUCCEEDED", "FAILED"}]

(* the row of the call in hand, from its start to its end                      *)
InRow == {"run", "reuse", "effect", "done"}

RowInHand ==
  pc \in InRow => Rows # <<>> /\ Rows[Len(Rows)] = [tool |-> Tool, status |-> "STARTED"]

(* what the episode takes for a success of its node has been one               *)
Succeeded ==
  \/ pc \in {"reuse", "effect"}
  \/ pc = "start" /\ result # "none"
  \/ pc = "done" /\ result # "error"

ResultsAreReal ==
  /\ \A n \in Nodes, t \in Tools : effects[n][t] # "none" => ran[n][t] > 0
  /\ pc = "idle" => seen = NoResults
  /\ pc # "idle" => \A t \in Tools : seen[t] # "none" => ran[at][t] > 0
  /\ Succeeded => ran[at][Tool] > 0

RowsAreTrue ==
  \A n \in Nodes : \A i \in DOMAIN rows[n] : \A id \in DOMAIN rows[n][i] :
    rows[n][i][id].status = "SUCCEEDED" => ran[n][rows[n][i][id].tool] > 0

ToldIsRecorded ==
  \A c \in told :
    /\ c.node \in Nodes /\ c.attempt \in DOMAIN rows[c.node]
    /\ \E id \in DOMAIN rows[c.node][c.attempt] :
         rows[c.node][c.attempt][id] = [tool |-> c.tool, status |-> "SUCCEEDED"]

LedgerInv ==
  /\ rows \in [Nodes -> Seq(Seq(Row))]
  /\ pc # "idle" => rows[at] # <<>>
  /\ RowInHand /\ ResultsAreReal /\ RowsAreTrue /\ ToldIsRecorded

LEMMA LedgerInit == Init => LedgerInv
<1>1. SUFFICES ASSUME Init PROVE LedgerInv
  OBVIOUS
<1>2. rows \in [Nodes -> Seq(Seq(Row))] /\ pc = "idle" /\ told = {} /\ seen = NoResults
  BY <1>1 DEF Init
<1>3. RowInHand /\ ToldIsRecorded
  BY <1>2 DEF RowInHand, InRow, ToldIsRecorded
<1>4. ResultsAreReal
  BY <1>1, <1>2 DEF ResultsAreReal, Init, NoResults, Succeeded
<1>5. RowsAreTrue
  BY <1>1 DEF RowsAreTrue, Init
<1>6. QED
  BY <1>2, <1>3, <1>4, <1>5 DEF LedgerInv

(* a tool's successes are never taken back                                     *)
LEMMA StillTrue ==
  ASSUME LedgerInv, UNCHANGED <<rows, told>>, EffectsInv, EffectsInv',
         \A n \in Nodes, t \in Tools : ran'[n][t] >= ran[n][t]
  PROVE  RowsAreTrue' /\ ToldIsRecorded' /\ rows' \in [Nodes -> Seq(Seq(Row))]
<1>1. ToldIsRecorded' /\ rows' \in [Nodes -> Seq(Seq(Row))]
  BY DEF LedgerInv, ToldIsRecorded
<1>2. ASSUME NEW n \in Nodes, NEW i \in DOMAIN rows[n], NEW id \in DOMAIN rows[n][i],
             rows[n][i][id].status = "SUCCEEDED"
      PROVE  ran'[n][rows[n][i][id].tool] > 0
  <2>1. rows[n] \in Seq(Seq(Row))
    BY <1>2 DEF LedgerInv
  <2>2. rows[n][i] \in Seq(Row)
    BY <1>2, <2>1, ElementOfSeq
  <2>3. rows[n][i][id] \in Row
    BY <1>2, <2>2
  <2>4. PICK t \in Tools : t = rows[n][i][id].tool
    BY <2>3 DEF Row
  <2>5. ran[n][t] > 0
    BY <1>2, <2>4 DEF LedgerInv, RowsAreTrue
  <2>6. ran[n][t] \in Nat /\ ran'[n][t] \in Nat
    BY <1>2 DEF EffectsInv, EpisodeTypes
  <2>7. ran'[n][t] > 0
    BY <1>2, <2>5, <2>6
  <2>8. QED
    BY <2>4, <2>7
<1>3. RowsAreTrue'
  BY <1>2 DEF RowsAreTrue
<1>4. QED
  BY <1>1, <1>3

(* a step that records nothing and runs nothing                                *)
LEMMA QuietLedger ==
  ASSUME LedgerInv, EffectsInv, EffectsInv', UNCHANGED <<rows, effects, ran, told>>,
         pc' # "idle" => rows[at'] # <<>>,
         RowInHand',
         pc' = "idle" => seen' = NoResults,
         pc' # "idle" => \A t \in Tools : seen'[t] # "none" => ran[at'][t] > 0,
         Succeeded' => ran[at'][Tool'] > 0
  PROVE  LedgerInv'
<1>1. \A n \in Nodes, t \in Tools : ran'[n][t] >= ran[n][t]
  BY DEF EffectsInv, EpisodeTypes
<1>2. RowsAreTrue' /\ ToldIsRecorded' /\ rows' \in [Nodes -> Seq(Seq(Row))]
  BY <1>1, StillTrue
<1>3. ResultsAreReal'
  BY DEF LedgerInv, ResultsAreReal
<1>4. QED
  BY <1>2, <1>3 DEF LedgerInv

LEMMA LedgerOutsideCalls ==
  ASSUME LedgerInv, EffectsInv, EffectsInv', UNCHANGED <<rows, effects, ran, told>>,
         pc' \notin InCall,
         \/ pc' = "idle" /\ seen' = NoResults
         \/ pc # "idle" /\ pc' # "idle" /\ UNCHANGED <<at, seen>>
  PROVE  LedgerInv'
<1>1. RowInHand' /\ ~Succeeded'
  BY DEF RowInHand, Succeeded, InCall, InRow
<1>2. CASE pc' = "idle" /\ seen' = NoResults
  BY <1>1, <1>2, QuietLedger DEF NoResults
<1>3. CASE pc # "idle" /\ UNCHANGED <<at, seen>> /\ pc' # "idle"
  BY <1>1, <1>3, QuietLedger DEF LedgerInv, ResultsAreReal
<1>4. QED
  BY <1>2, <1>3

LEMMA LedgerSessionSteps ==
  ASSUME LedgerInv, EffectsInv, EffectsInv',
         \/ CompleteSession \/ ReportStep \/ HarnessStep \/ Crash
         \/ \E n \in Nodes, action \in {"APPROVE", "REVISE", "REJECT"} : Decide(n, action)
  PROVE  LedgerInv'
<1>1. CASE CompleteSession
  BY <1>1, LedgerOutsideCalls
     DEF CompleteSession, InCall, ghosts, episode, LedgerInv, ResultsAreReal
<1>2. CASE Verify
  BY <1>2, LedgerOutsideCalls DEF Verify, InCall, ghosts, durable
<1>3. CASE ReportError
  BY <1>3, LedgerOutsideCalls DEF ReportError, InCall, ghosts, Idle
<1>4. CASE \E outcome \in HostGate : Report(outcome)
  <2>1. UNCHANGED <<rows, effects, ran, told>> /\ Idle
    BY <1>4 DEF Report, ghosts
  <2>2. QED
    BY <2>1, LedgerOutsideCalls DEF InCall, Idle
<1>5. CASE \E a \in Answers : TakeCalls(a)
  <2>1. PICK a \in Answers : TakeCalls(a)
    BY <1>5
  <2>2. UNCHANGED <<rows, effects, ran, told, seen, at>> /\ pc = "model" /\ pc' = "look"
    BY <2>1 DEF TakeCalls, durable, ghosts
  <2>3. RowInHand' /\ ~Succeeded'
    BY <2>2 DEF RowInHand, Succeeded, InRow
  <2>4. QED
    BY <2>2, <2>3, QuietLedger DEF LedgerInv, ResultsAreReal
<1>6. CASE \E a \in Answers : \E submitted \in BOOLEAN : EndEpisode(a, submitted)
  BY <1>6, LedgerOutsideCalls DEF EndEpisode, InCall, ghosts, durable
<1>7. CASE IdleTurn
  BY <1>7, LedgerOutsideCalls DEF IdleTurn, InCall, ghosts, durable
<1>8. CASE EpisodeFails
  BY <1>8, LedgerOutsideCalls DEF EpisodeFails, InCall, ghosts, durable
<1>9. CASE Crash
  BY <1>9, LedgerOutsideCalls DEF Crash, InCall, durable, Idle
<1>10. CASE \E n \in Nodes, action \in {"APPROVE", "REVISE", "REJECT"} : Decide(n, action)
  BY <1>10, LedgerOutsideCalls
     DEF Decide, InCall, ghosts, episode, LedgerInv, ResultsAreReal
<1>11. QED
  BY <1>1, <1>2, <1>3, <1>4, <1>5, <1>6, <1>7, <1>8, <1>9, <1>10 DEF ReportStep, HarnessStep

LEMMA LedgerLookUp ==
  ASSUME LedgerInv, EffectsInv, EffectsInv', LookUp
  PROVE  LedgerInv'
<1>1. Tool \in Tools /\ at \in Nodes
  BY ToolInCall DEF EffectsInv, LookUp, InCall
<1>2. /\ UNCHANGED <<rows, effects, ran, told, at, calls>> /\ pc = "look" /\ pc' = "start"
      /\ Tool' = Tool /\ result' = Known /\ seen' = [seen EXCEPT ![Tool] = Known]
  BY DEF LookUp, durable, ghosts, Tool
<1>3. Known # "none" => ran[at][Tool] > 0
  BY <1>1, <1>2 DEF Known, LedgerInv, ResultsAreReal
<1>4. seen \in [Tools -> MaybeResult]
  BY DEF EffectsInv, EpisodeTypes
<1>5. \A t \in Tools : seen'[t] # "none" => ran[at][t] > 0
  BY <1>1, <1>2, <1>3, <1>4 DEF LedgerInv, ResultsAreReal
<1>6. RowInHand'
  BY <1>2 DEF RowInHand, InRow
<1>7. Succeeded' => ran[at][Tool] > 0
  BY <1>2, <1>3 DEF Succeeded
<1>8. QED
  BY <1>2, <1>5, <1>6, <1>7, QuietLedger DEF LedgerInv

LEMMA LedgerAnswered ==
  ASSUME LedgerInv, EffectsInv, EffectsInv', ToolFails \/ Reuse
  PROVE  LedgerInv'
<1>1. /\ UNCHANGED <<rows, effects, ran, told, at, calls, seen>>
      /\ pc \in {"run", "reuse"} /\ pc' = "done" /\ (result' = "error" \/ pc = "reuse")
      /\ Tool' = Tool /\ Rows' = Rows
  BY DEF ToolFails, Reuse, durable, ghosts, Tool, Rows, Attempt
<1>2. RowInHand'
  BY <1>1 DEF LedgerInv, RowInHand, InRow
<1>3. Succeeded' => ran[at][Tool] > 0
  BY <1>1 DEF LedgerInv, ResultsAreReal, Succeeded
<1>4. QED
  BY <1>1, <1>2, <1>3, QuietLedger DEF LedgerInv, ResultsAreReal

(* the tool has run, or its success is in the ledger                           *)
LEMMA LedgerRunTool ==
  ASSUME LedgerInv, EffectsInv, EffectsInv', RunTool
  PROVE  LedgerInv'
<1>1. Tool \in Tools /\ at \in Nodes
  BY ToolInCall DEF EffectsInv, RunTool, InCall
<1>2. /\ UNCHANGED <<rows, effects, told, at, calls, seen>> /\ pc = "run" /\ pc' = "effect"
      /\ Tool' = Tool /\ Rows' = Rows /\ ran' = [ran EXCEPT ![at][Tool] = ran[at][Tool] + 1]
  BY DEF RunTool, durable, Tool, Rows, Attempt
<1>0. ran \in [Nodes -> [Tools -> Nat]]
  BY DEF EffectsInv, EpisodeTypes
<1>3. ran \in [Nodes -> [Tools -> Nat]] /\ ran[at][Tool] + 1 \in Nat
  BY <1>0, <1>1
<1>4. /\ ran' \in [Nodes -> [Tools -> Nat]] /\ ran'[at][Tool] = ran[at][Tool] + 1
      /\ \A n \in Nodes, t \in Tools : (n # at \/ t # Tool) => ran'[n][t] = ran[n][t]
  BY <1>1, <1>2, <1>3, EntryChanged
<1>5. \A n \in Nodes, t \in Tools : ran'[n][t] >= ran[n][t]
  BY <1>1, <1>3, <1>4
<1>6. RowsAreTrue' /\ ToldIsRecorded' /\ rows' \in [Nodes -> Seq(Seq(Row))]
  BY <1>2, <1>5, StillTrue
<1>7. RowInHand'
  BY <1>2 DEF LedgerInv, RowInHand, InRow
<1>8. \A n \in Nodes, t \in Tools : ran[n][t] > 0 => ran'[n][t] > 0
  BY <1>3, <1>4, <1>5
<1>9. ran'[at][Tool] > 0
  BY <1>1, <1>3, <1>4
<1>10. ResultsAreReal'
  BY <1>1, <1>2, <1>8, <1>9 DEF LedgerInv, ResultsAreReal
<1>11. QED
  BY <1>2, <1>6, <1>7, <1>10 DEF LedgerInv

LEMMA LedgerRecordEffect ==
  ASSUME LedgerInv, EffectsInv, EffectsInv', RecordEffect
  PROVE  LedgerInv'
<1>1. Tool \in Tools /\ at \in Nodes
  BY ToolInCall DEF EffectsInv, RecordEffect, InCall
<1>2. /\ UNCHANGED <<rows, ran, told, at, calls, result>> /\ pc = "effect" /\ pc' = "done"
      /\ Tool' = Tool /\ Rows' = Rows /\ seen' = [seen EXCEPT ![Tool] = result]
      /\ effects' = [effects EXCEPT ![at][Tool] = IF @ = "none" THEN result ELSE @]
  BY DEF RecordEffect, ghosts, Tool, Rows, Attempt
<1>3. /\ effects \in [Nodes -> [Tools -> MaybeResult]] /\ seen \in [Tools -> MaybeResult]
      /\ effects[at][Tool] = "none" /\ result \in MaybeResult
  BY <1>2 DEF EffectsInv, EpisodeTypes, NotYetRecorded, MaybeResult
<1>4. effects' = [effects EXCEPT ![at][Tool] = result]
  BY <1>2, <1>3
<1>5. \A n \in Nodes, t \in Tools : (n # at \/ t # Tool) => effects'[n][t] = effects[n][t]
  BY <1>1, <1>3, <1>4, EntryChanged
<1>6. ran[at][Tool] > 0
  BY <1>2 DEF LedgerInv, ResultsAreReal, Succeeded
<1>7. \A t \in Tools : seen'[t] # "none" => ran[at][t] > 0
  BY <1>1, <1>2, <1>3, <1>6 DEF LedgerInv, ResultsAreReal
<1>8. \A n \in Nodes, t \in Tools : effects'[n][t] # "none" => ran[n][t] > 0
  BY <1>1, <1>5, <1>6 DEF LedgerInv, ResultsAreReal
<1>9. ResultsAreReal'
  BY <1>2, <1>6, <1>7, <1>8 DEF ResultsAreReal
<1>10. RowInHand'
  BY <1>2 DEF LedgerInv, RowInHand, InRow
<1>11. RowsAreTrue' /\ ToldIsRecorded'
  BY <1>2 DEF LedgerInv, RowsAreTrue, ToldIsRecorded
<1>12. QED
  BY <1>2, <1>9, <1>10, <1>11 DEF LedgerInv

(* one attempt has new rows, every other is as it was                          *)
Replaced(n, i, r) ==
  /\ rows' \in [Nodes -> Seq(Seq(Row))]
  /\ rows'[n][i] = r
  /\ \A m \in Nodes : Len(rows'[m]) = Len(rows[m])
  /\ \A m \in Nodes : \A j \in 1..Len(rows[m]) : (m # n \/ j # i) => rows'[m][j] = rows[m][j]

LEMMA AttemptReplaced ==
  ASSUME rows \in [Nodes -> Seq(Seq(Row))], NEW n \in Nodes, NEW i \in 1..Len(rows[n]),
         NEW r \in Seq(Row), rows' = [rows EXCEPT ![n][i] = r]
  PROVE  Replaced(n, i, r)
<1>1. rows[n] \in Seq(Seq(Row))
  OBVIOUS
<1>2. PICK a : a = [rows[n] EXCEPT ![i] = r]
  OBVIOUS
<1>3. /\ a \in Seq(Seq(Row)) /\ Len(a) = Len(rows[n]) /\ a[i] = r
      /\ \A j \in 1..Len(rows[n]) : j # i => a[j] = rows[n][j]
  BY <1>1, <1>2, ExceptSeq
<1>4. rows' = [rows EXCEPT ![n] = a]
  BY <1>2
<1>5. rows' \in [Nodes -> Seq(Seq(Row))] /\ rows'[n] = a /\ \A m \in Nodes : m # n => rows'[m] = rows[m]
  BY <1>3, <1>4
<1>6. QED
  BY <1>3, <1>5 DEF Replaced

(* the attempt of the episode                                                  *)
LEMMA TheAttempt ==
  ASSUME LedgerInv, EffectsInv, pc # "idle"
  PROVE  /\ at \in Nodes /\ Attempt \in 1..Len(rows[at]) /\ Attempt \in DOMAIN rows[at]
         /\ Rows \in Seq(Row)
         /\ Cardinality(DOMAIN Rows) = Len(Rows)
<1>1. at \in Nodes /\ rows[at] \in Seq(Seq(Row)) /\ rows[at] # <<>>
  BY DEF LedgerInv, EffectsInv, EpisodeTypes
<1>2. Attempt \in 1..Len(rows[at]) /\ Attempt \in DOMAIN rows[at]
  BY <1>1 DEF Attempt
<1>3. Rows \in Seq(Row)
  BY <1>1, <1>2, ElementOfSeq DEF Rows
<1>4. DOMAIN Rows = 1..Len(Rows) /\ Len(Rows) \in Nat
  BY <1>3
<1>5. Cardinality(DOMAIN Rows) = Len(Rows)
  BY <1>4, FS_Interval
<1>6. QED
  BY <1>1, <1>2, <1>3, <1>5

(* a row is true of its node                                                   *)
TrueRow(n, row) == row.status = "SUCCEEDED" => ran[n][row.tool] > 0

Has(r, t) == \E id \in DOMAIN r : r[id] = [tool |-> t, status |-> "SUCCEEDED"]

LEMMA RowsOfSteps ==
  ASSUME LedgerInv, NEW n \in Nodes, NEW i \in DOMAIN rows[n], NEW r \in Seq(Row),
         Replaced(n, i, r), UNCHANGED ran,
         \A id \in DOMAIN r : TrueRow(n, r[id]),
         \A t \in Tools : Has(rows[n][i], t) => Has(r, t),
         \A c \in told' : \/ c \in told
                          \/ c = [node |-> n, attempt |-> i, tool |-> c.tool] /\ Has(r, c.tool)
  PROVE  RowsAreTrue' /\ ToldIsRecorded'
<1>1. \A m \in Nodes : DOMAIN rows'[m] = DOMAIN rows[m] /\ DOMAIN rows[m] = 1..Len(rows[m])
  BY DEF LedgerInv, Replaced
<1>2. ASSUME NEW m \in Nodes, NEW j \in DOMAIN rows'[m], NEW id \in DOMAIN rows'[m][j]
      PROVE  TrueRow(m, rows'[m][j][id])
  <2>1. CASE m = n /\ j = i
    BY <1>2, <2>1 DEF Replaced
  <2>2. CASE m # n \/ j # i
    <3>1. rows'[m][j] = rows[m][j] /\ j \in DOMAIN rows[m]
      BY <1>1, <1>2, <2>2 DEF Replaced
    <3>2. QED
      BY <1>2, <3>1 DEF LedgerInv, RowsAreTrue, TrueRow
  <2>3. QED
    BY <2>1, <2>2
<1>3. RowsAreTrue'
  BY <1>2 DEF RowsAreTrue, TrueRow
<1>4. ASSUME NEW c \in told'
      PROVE  /\ c.node \in Nodes /\ c.attempt \in DOMAIN rows'[c.node]
             /\ Has(rows'[c.node][c.attempt], c.tool)
  <2>1. CASE c \in told
    <3>1. /\ c.node \in Nodes /\ c.attempt \in DOMAIN rows[c.node]
          /\ Has(rows[c.node][c.attempt], c.tool)
      BY <2>1 DEF LedgerInv, ToldIsRecorded, Has
    <3>2. CASE c.node = n /\ c.attempt = i
      <4>1. c.tool \in Tools
        <5>1. PICK id \in DOMAIN rows[n][i] :
                rows[n][i][id] = [tool |-> c.tool, status |-> "SUCCEEDED"]
          BY <3>1, <3>2 DEF Has
        <5>2. rows[n] \in Seq(Seq(Row))
          BY DEF LedgerInv
        <5>3. rows[n][i] \in Seq(Row)
          BY <5>2, ElementOfSeq
        <5>4. rows[n][i][id] \in Row
          BY <5>1, <5>3
        <5>5. QED
          BY <5>1, <5>4 DEF Row
      <4>2. QED
        BY <1>1, <3>1, <3>2, <4>1 DEF Replaced
    <3>3. CASE c.node # n \/ c.attempt # i
      BY <1>1, <3>1, <3>3 DEF Replaced
    <3>4. QED
      BY <3>2, <3>3
  <2>2. CASE c = [node |-> n, attempt |-> i, tool |-> c.tool] /\ Has(r, c.tool)
    <3>1. c.node = n /\ c.attempt = i
      BY <2>2
    <3>2. QED
      BY <1>1, <2>2, <3>1 DEF Replaced
  <2>3. QED
    BY <1>4, <2>1, <2>2
<1>5. ToldIsRecorded'
  BY <1>4 DEF ToldIsRecorded, Has
<1>6. QED
  BY <1>3, <1>5

(* an id of its own adds a row                                                 *)
LEMMA LedgerRecordStarted ==
  ASSUME LedgerInv, EffectsInv, EffectsInv', UniqueIds, RecordStarted
  PROVE  LedgerInv'
<1>1. Tool \in Tools /\ pc = "start" /\ pc # "idle"
  BY ToolInCall DEF EffectsInv, RecordStarted, InCall
<1>2. /\ at \in Nodes /\ Attempt \in 1..Len(rows[at]) /\ Attempt \in DOMAIN rows[at]
      /\ Rows \in Seq(Row) /\ CallId = Len(Rows) + 1 /\ Len(Rows) \in Nat
      /\ DOMAIN Rows = 1..Len(Rows)
  BY <1>1, TheAttempt DEF CallId
<1>3. DEFINE row == [tool |-> Tool, status |-> "STARTED"]
             r == [id \in DOMAIN Rows \cup {CallId} |-> IF id # CallId THEN Rows[id]
                     ELSE [tool |-> Tool,
                           status |-> IF id \in DOMAIN Rows THEN Rows[id].status ELSE "STARTED"]]
<1>4. row \in Row
  BY <1>1 DEF Row
<1>5. /\ r = [id \in 1..(Len(Rows) + 1) |-> IF id = Len(Rows) + 1 THEN row ELSE Rows[id]]
      /\ \A id \in 1..Len(Rows) : Rows[id] \in Row
  BY <1>2
<1>6. /\ r \in Seq(Row) /\ Len(r) = Len(Rows) + 1 /\ r[Len(r)] = row
      /\ \A id \in 1..Len(Rows) : r[id] = Rows[id]
      /\ DOMAIN r = 1..(Len(Rows) + 1)
  <2>. HIDE DEF row, r
  <2>1. r \in [1..(Len(Rows) + 1) -> Row]
    BY <1>4, <1>5
  <2>2. r \in Seq(Row) /\ Len(r) = Len(Rows) + 1 /\ DOMAIN r = 1..(Len(Rows) + 1)
    BY <1>2, <2>1
  <2>3. QED
    BY <1>2, <1>5, <2>2
<1>. HIDE DEF row, r
<1>7. rows' = [rows EXCEPT ![at][Attempt] = r]
  BY DEF RecordStarted, WithStarted, Rows, r
<1>8. Replaced(at, Attempt, r)
  BY <1>2, <1>6, <1>7, AttemptReplaced DEF LedgerInv
<1>9. /\ UNCHANGED <<effects, ran, told, at, calls, seen, result>> /\ Tool' = Tool
      /\ pc' = IF result = "none" THEN "run" ELSE "reuse"
  BY DEF RecordStarted, ghosts, Tool
<1>10. \A id \in DOMAIN r : TrueRow(at, r[id])
  <2>1. \A id \in DOMAIN Rows : TrueRow(at, Rows[id])
    BY <1>2 DEF LedgerInv, RowsAreTrue, TrueRow, Rows
  <2>2. TrueRow(at, row)
    BY DEF row, TrueRow
  <2>3. ASSUME NEW id \in DOMAIN r
        PROVE  TrueRow(at, r[id])
    <3>1. r[id] = row \/ (id \in DOMAIN Rows /\ r[id] = Rows[id])
      BY <1>2, <1>6, <2>3
    <3>2. QED
      BY <2>1, <2>2, <3>1
  <2>4. QED
    BY <2>3
<1>11. \A t \in Tools : Has(rows[at][Attempt], t) => Has(r, t)
  BY <1>2, <1>6 DEF Has, Rows
<1>12. RowsAreTrue' /\ ToldIsRecorded'
  BY <1>2, <1>6, <1>8, <1>9, <1>10, <1>11, RowsOfSteps
<1>13. Rows' = r
  BY <1>2, <1>8, <1>9 DEF Replaced, Rows, Attempt
<1>14. RowInHand'
  BY <1>2, <1>6, <1>9, <1>13 DEF RowInHand, row
<1>15. rows' \in [Nodes -> Seq(Seq(Row))] /\ rows'[at'] # <<>>
  BY <1>2, <1>8, <1>9 DEF Replaced
<1>16. Succeeded' => ran[at][Tool] > 0
  BY <1>1, <1>9 DEF Succeeded, LedgerInv, ResultsAreReal
<1>17. ResultsAreReal'
  BY <1>1, <1>9, <1>16 DEF LedgerInv, ResultsAreReal
<1>18. QED
  BY <1>12, <1>14, <1>15, <1>17 DEF LedgerInv

(* the row that ends was started by this call and told of by none              *)
LEMMA LedgerRecordCompleted ==
  ASSUME LedgerInv, EffectsInv, EffectsInv', UniqueIds, RecordCompleted
  PROVE  LedgerInv'
<1>1. Tool \in Tools /\ pc = "done" /\ pc # "idle"
  BY ToolInCall DEF EffectsInv, RecordCompleted, InCall
<1>2. /\ at \in Nodes /\ Attempt \in 1..Len(rows[at]) /\ Attempt \in DOMAIN rows[at]
      /\ Rows \in Seq(Row) /\ CurrentId = Len(Rows) /\ DOMAIN Rows = 1..Len(Rows)
      /\ Rows # <<>> /\ Rows[Len(Rows)] = [tool |-> Tool, status |-> "STARTED"]
  BY <1>1, TheAttempt DEF CurrentId, LedgerInv, RowInHand, InRow
<1>3. DEFINE row == [tool |-> Tool, status |-> Outcome]
             r == [Rows EXCEPT ![CurrentId].status = Outcome]
<1>4. row \in Row /\ Len(Rows) \in 1..Len(Rows)
  BY <1>1, <1>2 DEF Row, Outcome
<1>5. r = [Rows EXCEPT ![Len(Rows)] = row]
  <2>1. [Rows[Len(Rows)] EXCEPT !.status = Outcome] = row
    BY <1>2
  <2>2. r = [Rows EXCEPT ![CurrentId] = [Rows[CurrentId] EXCEPT !.status = Outcome]]
    OBVIOUS
  <2>3. QED
    BY <1>2, <2>1, <2>2
<1>6. /\ r \in Seq(Row) /\ DOMAIN r = DOMAIN Rows /\ r[Len(Rows)] = row
      /\ \A id \in DOMAIN Rows : id # Len(Rows) => r[id] = Rows[id]
  <2>. HIDE DEF row, r
  <2>1. QED
    BY <1>2, <1>4, <1>5, ExceptSeq
<1>. HIDE DEF row, r
<1>7. rows' = [rows EXCEPT ![at][Attempt] = r]
  BY DEF RecordCompleted, Rows, r
<1>8. Replaced(at, Attempt, r)
  BY <1>2, <1>6, <1>7, AttemptReplaced DEF LedgerInv
<1>9. /\ UNCHANGED <<effects, ran, at, seen>>
      /\ pc' \in {"model", "look"}
      /\ told' = IF result = "error" THEN told
                 ELSE told \cup {[node |-> at, attempt |-> Attempt, tool |-> Tool]}
  BY DEF RecordCompleted
<1>10. \A id \in DOMAIN r : TrueRow(at, r[id])
  <2>1. \A id \in DOMAIN Rows : TrueRow(at, Rows[id])
    BY <1>2 DEF LedgerInv, RowsAreTrue, TrueRow, Rows
  <2>2. TrueRow(at, row)
    BY <1>1 DEF row, TrueRow, Outcome, LedgerInv, ResultsAreReal, Succeeded
  <2>3. QED
    BY <1>6, <2>1, <2>2
<1>11. \A t \in Tools : Has(rows[at][Attempt], t) => Has(r, t)
  <2>1. ASSUME NEW t \in Tools, NEW id \in DOMAIN Rows,
               Rows[id] = [tool |-> t, status |-> "SUCCEEDED"]
        PROVE  Has(r, t)
    <3>1. id # Len(Rows)
      BY <1>2, <2>1
    <3>2. QED
      BY <1>6, <2>1, <3>1 DEF Has
  <2>2. QED
    BY <2>1 DEF Has, Rows
<1>12. ASSUME NEW c \in told', c \notin told
       PROVE  c = [node |-> at, attempt |-> Attempt, tool |-> c.tool] /\ Has(r, c.tool)
  <2>1. result # "error" /\ c = [node |-> at, attempt |-> Attempt, tool |-> Tool]
    BY <1>9, <1>12
  <2>2. c.tool = Tool /\ Outcome = "SUCCEEDED"
    BY <2>1 DEF Outcome
  <2>3. Len(Rows) \in DOMAIN r /\ r[Len(Rows)] = [tool |-> Tool, status |-> "SUCCEEDED"]
    BY <1>2, <1>4, <1>6, <2>2 DEF row
  <2>4. QED
    BY <2>1, <2>2, <2>3 DEF Has
<1>13. RowsAreTrue' /\ ToldIsRecorded'
  <2>1. UNCHANGED ran
    BY <1>9
  <2>2. \A c \in told' : \/ c \in told
                         \/ c = [node |-> at, attempt |-> Attempt, tool |-> c.tool] /\ Has(r, c.tool)
    BY <1>12
  <2>3. QED
    BY <1>2, <1>6, <1>8, <1>10, <1>11, <2>1, <2>2, RowsOfSteps
<1>14. RowInHand' /\ ~Succeeded'
  BY <1>9 DEF RowInHand, Succeeded, InRow
<1>15. rows' \in [Nodes -> Seq(Seq(Row))] /\ rows'[at'] # <<>>
  BY <1>2, <1>8, <1>9 DEF Replaced
<1>16. ResultsAreReal'
  BY <1>1, <1>9, <1>14 DEF LedgerInv, ResultsAreReal
<1>17. QED
  BY <1>13, <1>14, <1>15, <1>16 DEF LedgerInv

(* an attempt begins without rows                                              *)
LEMMA LedgerOpen ==
  ASSUME LedgerInv, EffectsInv, EffectsInv', NEW n \in Nodes, Open(n)
  PROVE  LedgerInv'
<1>1. /\ UNCHANGED <<effects, ran, told, seen>> /\ pc = "idle" /\ pc' = "model" /\ at' = n
      /\ rows' = [rows EXCEPT ![n] = Append(rows[n], <<>>)]
  BY DEF Open, ghosts
<1>2. rows \in [Nodes -> Seq(Seq(Row))] /\ rows[n] \in Seq(Seq(Row)) /\ <<>> \in Seq(Row)
  BY DEF LedgerInv
<1>3. PICK a : a = Append(rows[n], <<>>)
  OBVIOUS
<1>4. /\ a \in Seq(Seq(Row)) /\ a # <<>> /\ DOMAIN a = 1..(Len(rows[n]) + 1)
      /\ a[Len(rows[n]) + 1] = <<>>
      /\ \A i \in DOMAIN rows[n] : i \in DOMAIN a /\ a[i] = rows[n][i]
      /\ \A i \in DOMAIN a : i \in DOMAIN rows[n] \/ a[i] = <<>>
  BY <1>2, <1>3, AppendProperties
<1>5. /\ rows' \in [Nodes -> Seq(Seq(Row))] /\ rows'[n] = a
      /\ \A m \in Nodes : m # n => rows'[m] = rows[m]
  BY <1>1, <1>2, <1>3, <1>4
<1>6. RowsAreTrue'
  <2>1. ASSUME NEW m \in Nodes, NEW i \in DOMAIN rows'[m], NEW id \in DOMAIN rows'[m][i]
        PROVE  TrueRow(m, rows'[m][i][id])
    <3>1. CASE m # n
      BY <1>5, <2>1, <3>1 DEF LedgerInv, RowsAreTrue, TrueRow
    <3>2. CASE m = n
      <4>1. i \in DOMAIN a /\ rows'[m][i] = a[i] /\ id \in DOMAIN a[i]
        BY <1>5, <2>1, <3>2
      <4>2. i \in DOMAIN rows[n] /\ a[i] = rows[n][i]
        BY <1>4, <4>1
      <4>3. QED
        BY <2>1, <3>2, <4>1, <4>2 DEF LedgerInv, RowsAreTrue, TrueRow
    <3>3. QED
      BY <3>1, <3>2
  <2>2. QED
    BY <1>1, <2>1 DEF RowsAreTrue, TrueRow
<1>7. ToldIsRecorded'
  <2>1. ASSUME NEW c \in told
        PROVE  /\ c.node \in Nodes /\ c.attempt \in DOMAIN rows'[c.node]
               /\ Has(rows'[c.node][c.attempt], c.tool)
    <3>1. /\ c.node \in Nodes /\ c.attempt \in DOMAIN rows[c.node]
          /\ Has(rows[c.node][c.attempt], c.tool)
      BY <2>1 DEF LedgerInv, ToldIsRecorded, Has
    <3>2. CASE c.node # n
      BY <1>5, <3>1, <3>2
    <3>3. CASE c.node = n
      <4>1. c.attempt \in DOMAIN a /\ a[c.attempt] = rows[n][c.attempt] /\ rows'[c.node] = a
        BY <1>4, <1>5, <3>1, <3>3
      <4>2. QED
        BY <3>1, <3>3, <4>1
    <3>4. QED
      BY <3>2, <3>3
  <2>2. QED
    BY <1>1, <2>1 DEF ToldIsRecorded, Has
<1>8. RowInHand' /\ ~Succeeded'
  BY <1>1 DEF RowInHand, Succeeded, InRow
<1>9. ResultsAreReal'
  BY <1>1, <1>8 DEF LedgerInv, ResultsAreReal, NoResults
<1>10. QED
  BY <1>1, <1>4, <1>5, <1>6, <1>7, <1>8, <1>9 DEF LedgerInv

LEMMA LedgerStep ==
  ASSUME LedgerInv, EffectsInv, EffectsInv', UniqueIds, [Next]_vars
  PROVE  LedgerInv'
<1>1. CASE UNCHANGED vars
  <2>1. UNCHANGED <<rows, effects, ran, told, pc, at, calls, seen, result>>
    BY <1>1 DEF vars, durable, episode, ghosts
  <2>2. RowInHand' /\ ResultsAreReal' /\ RowsAreTrue' /\ ToldIsRecorded'
    BY <2>1 DEF LedgerInv, RowInHand, ResultsAreReal, RowsAreTrue, ToldIsRecorded, Succeeded,
                Rows, Attempt, Tool
  <2>3. QED
    BY <2>1, <2>2 DEF LedgerInv
<1>2. CASE Next
  BY <1>2, LedgerSessionSteps, LedgerLookUp, LedgerAnswered, LedgerRunTool, LedgerRecordEffect,
     LedgerRecordStarted, LedgerRecordCompleted, LedgerOpen
     DEF Next, Step, ToolStep, RecordTool
<1>3. QED
  BY <1>1, <1>2

(* The rows of the attempts say what the tools did, and no success that the     *)
(* model was told of is missing (LedgerIsTruth), when the provider gives every  *)
(* tool call its own id: with one id for all calls a row is written over.       *)
THEOREM LedgerIsAlwaysTruth ==
  ASSUME UniqueIds
  PROVE  Spec => []LedgerIsTruth
<1>1. Init => LedgerInv
  BY LedgerInit
<1>2. LedgerInv /\ EffectsInv /\ EffectsInv' /\ [Next]_vars => LedgerInv'
  BY LedgerStep
<1>3. LedgerInv => LedgerIsTruth
  BY DEF LedgerInv, RowsAreTrue, ToldIsRecorded, LedgerIsTruth
<1>4. QED
  BY <1>1, <1>2, <1>3, EffectsAlways, PTL DEF Spec

------------------------------------------------------------------------------
(* CompletedIsVerified                                                         *)

(* orchestration/graph.py:84 refuses a workflow with a dependency cycle: of any *)
(* nodes there is one that requires none of them                               *)
Acyclic == \A S \in SUBSET Nodes : S # {} => \E n \in S : Requires[n] \cap S = {}

Ongoing == {"QUEUED", "RUNNING", "COMPLETED"}

Events == [crashes : Nat, failures : Nat, decisions : Nat, approved : BOOLEAN]

NodesFitSession ==
  /\ node \in [Nodes -> Ongoing \cup {"PENDING_GATE", "FAILED"}]
  /\ session \in {"RUNNING", "WAITING_GATE", "COMPLETED", "FAILED"}
  /\ pc # "idle" => session = "RUNNING"
  /\ session = "RUNNING" => \A n \in Nodes : node[n] \in Ongoing
  /\ session = "WAITING_GATE" =>
       \A n \in Nodes : node[n] = "PENDING_GATE" =>
         \A m \in Nodes : m # n => node[m] \in Ongoing
  /\ session = "COMPLETED" => \A n \in Nodes : node[n] = "COMPLETED"
  /\ pc # "idle" => node[at] = "RUNNING"

HasRun(t) == \E n \in Nodes : ran[n][t] > 0

(* As long as no decision approves a node: a completed node left its artifact,  *)
(* and the last one leaves no required tool that has not run.                   *)
Verified ==
  /\ pc = "report" /\ result # "failed" => ArtifactExists
  /\ ~events.approved =>
       /\ \A n \in Expects : node[n] = "COMPLETED" => artifact
       /\ \/ \A t \in Required : HasRun(t)
          \/ \E n \in Nodes : node[n] # "COMPLETED"

VerifiedInv == NodesFitSession /\ Verified

LEMMA VerifiedInit ==
  ASSUME Nodes # {}
  PROVE  Init => VerifiedInv
BY DEF Init, VerifiedInv, NodesFitSession, Verified, Ongoing, ArtifactExists

LEMMA EventsCounted ==
  ASSUME events \in Events, [Next]_vars
  PROVE  /\ events' \in Events
         /\ ToolFails \/ Crash => events'.approved = events.approved
         /\ \A n \in Nodes, action \in {"APPROVE", "REVISE", "REJECT"} :
              Decide(n, action) => events'.approved = (events.approved \/ action = "APPROVE")
<1>1. ASSUME ToolFails \/ Crash
      PROVE  events' \in Events /\ events'.approved = events.approved
  <2>1. \/ events' = [events EXCEPT !.crashes = @ + 1]
        \/ events' = [events EXCEPT !.failures = @ + 1]
    BY <1>1 DEF ToolFails, Crash
  <2>2. QED
    BY <2>1 DEF Events
<1>2. ASSUME NEW n \in Nodes, NEW action \in {"APPROVE", "REVISE", "REJECT"}, Decide(n, action)
      PROVE  events' \in Events /\ events'.approved = (events.approved \/ action = "APPROVE")
  <2>1. events' = [events EXCEPT !.decisions = @ + 1, !.approved = @ \/ action = "APPROVE"]
    BY <1>2 DEF Decide
  <2>2. PICK b \in BOOLEAN : b = (events.approved \/ action = "APPROVE")
    OBVIOUS
  <2>3. events' = [events EXCEPT !.decisions = @ + 1, !.approved = b]
    BY <2>1, <2>2, Zenon
  <2>4. events' \in Events /\ events'.approved = b
    <3>1. CASE b = TRUE
      <4>1. events' = [events EXCEPT !.decisions = @ + 1, !.approved = TRUE]
        BY <2>3, <3>1
      <4>2. events' \in Events
        <5>1. /\ events.crashes \in Nat /\ events.failures \in Nat
              /\ events.decisions + 1 \in Nat
              /\ events = [crashes |-> events.crashes, failures |-> events.failures,
                           decisions |-> events.decisions, approved |-> events.approved]
          BY DEF Events
        <5>2. events' = [crashes |-> events.crashes, failures |-> events.failures,
                         decisions |-> events.decisions + 1, approved |-> TRUE]
          BY <4>1, <5>1
        <5>3. QED
          BY <5>1, <5>2 DEF Events
      <4>3. events'.approved = TRUE
        BY <4>1 DEF Events
      <4>4. QED
        BY <3>1, <4>2, <4>3, Zenon
    <3>2. CASE b = FALSE
      <4>1. events' = [events EXCEPT !.decisions = @ + 1, !.approved = FALSE]
        BY <2>3, <3>2
      <4>2. events' \in Events
        <5>1. /\ events.crashes \in Nat /\ events.failures \in Nat
              /\ events.decisions + 1 \in Nat
              /\ events = [crashes |-> events.crashes, failures |-> events.failures,
                           decisions |-> events.decisions, approved |-> events.approved]
          BY DEF Events
        <5>2. events' = [crashes |-> events.crashes, failures |-> events.failures,
                         decisions |-> events.decisions + 1, approved |-> FALSE]
          BY <4>1, <5>1
        <5>3. QED
          BY <5>1, <5>2 DEF Events
      <4>3. events'.approved = FALSE
        BY <4>1 DEF Events
      <4>4. QED
        BY <3>2, <4>2, <4>3, Zenon
    <3>3. QED
      BY <3>1, <3>2
  <2>5. QED
    BY <2>2, <2>4, Zenon
<1>3. CASE UNCHANGED events
  BY <1>1, <1>2, <1>3
<1>4. CASE UNCHANGED vars
  BY <1>3, <1>4 DEF vars
<1>5. CASE Step /\ ~ToolFails
  <2>1. UNCHANGED events
    BY <1>5 DEF Step, HarnessStep, ToolStep, RecordTool, ReportStep, Open, CompleteSession,
                TakeCalls, EndEpisode, IdleTurn, EpisodeFails, LookUp, RecordStarted, RunTool, Reuse,
                RecordEffect, RecordCompleted, Verify, Report, ReportError, ghosts
  <2>2. QED
    BY <1>3, <2>1
<1>6. QED
  BY <1>1, <1>2, <1>4, <1>5 DEF Next

(* a step within an episode                                                    *)
LEMMA WithinEpisode ==
  ASSUME VerifiedInv, EffectsInv, EffectsInv', UNCHANGED <<session, node, at>>,
         pc # "idle", pc' # "idle", events'.approved = events.approved,
         artifact => artifact',
         \A n \in Nodes, t \in Tools : ran[n][t] > 0 => ran'[n][t] > 0,
         pc' = "report" /\ result' # "failed" => ArtifactExists'
  PROVE  VerifiedInv'
<1>1. NodesFitSession'
  BY DEF VerifiedInv, NodesFitSession
<1>2. \A t \in Required : HasRun(t) => HasRun(t)'
  BY DEF HasRun
<1>3. Verified'
  BY <1>2 DEF VerifiedInv, Verified
<1>4. QED
  BY <1>1, <1>3 DEF VerifiedInv

LEMMA VerifiedToolSteps ==
  ASSUME VerifiedInv, EffectsInv, EffectsInv', events \in Events, HarnessStep \/ ToolStep \/ Verify
  PROVE  VerifiedInv'
<1>1. CASE HarnessStep
  <2>1. /\ UNCHANGED <<session, node, at, events, artifact, ran>>
        /\ pc # "idle" /\ pc' # "idle" /\ pc' # "report"
    BY <1>1 DEF HarnessStep, TakeCalls, EndEpisode, IdleTurn, EpisodeFails, durable, ghosts
  <2>2. QED
    BY <2>1, WithinEpisode
<1>2. CASE LookUp \/ RecordStarted \/ Reuse \/ RecordEffect \/ RecordCompleted
  <2>1. /\ UNCHANGED <<session, node, at, events, artifact, ran>>
        /\ pc # "idle" /\ pc' # "idle" /\ pc' # "report"
    BY <1>2 DEF LookUp, RecordStarted, Reuse, RecordEffect, RecordCompleted, durable, ghosts
  <2>2. QED
    BY <2>1, WithinEpisode
<1>3. CASE ToolFails
  <2>1. /\ UNCHANGED <<session, node, at, ran>>
        /\ artifact => artifact'
        /\ pc # "idle" /\ pc' # "idle" /\ pc' # "report"
    BY <1>3 DEF ToolFails, durable, ghosts
  <2>2. events'.approved = events.approved
    BY <1>3, EventsCounted DEF Next, Step, ToolStep, RecordTool
  <2>3. QED
    BY <2>1, <2>2, WithinEpisode
<1>4. CASE RunTool
  <2>1. Tool \in Tools /\ at \in Nodes
    BY <1>4, ToolInCall DEF EffectsInv, RunTool, InCall
  <2>2. /\ UNCHANGED <<session, node, at, events>> /\ (artifact => artifact')
        /\ pc # "idle" /\ pc' # "idle" /\ pc' # "report"
        /\ ran' = [ran EXCEPT ![at][Tool] = ran[at][Tool] + 1]
    BY <1>4 DEF RunTool, durable
  <2>3. ran \in [Nodes -> [Tools -> Nat]]
    BY DEF EffectsInv, EpisodeTypes
  <2>4. ran[at][Tool] + 1 \in Nat /\ ran[at][Tool] + 1 > 0
    BY <2>1, <2>3
  <2>5. /\ ran'[at][Tool] = ran[at][Tool] + 1
        /\ \A n \in Nodes, t \in Tools : (n # at \/ t # Tool) => ran'[n][t] = ran[n][t]
    BY <2>1, <2>2, <2>3, <2>4, EntryChanged
  <2>6. \A n \in Nodes, t \in Tools : ran[n][t] > 0 => ran'[n][t] > 0
    BY <2>4, <2>5
  <2>7. QED
    BY <2>2, <2>6, WithinEpisode
<1>5. CASE Verify
  <2>1. /\ UNCHANGED <<session, node, at, events, artifact, ran>>
        /\ pc # "idle" /\ pc' # "idle"
        /\ result' # "failed" => ArtifactExists
    BY <1>5 DEF Verify, durable, ghosts
  <2>2. ArtifactExists' = ArtifactExists
    BY <2>1 DEF ArtifactExists
  <2>3. QED
    BY <2>1, <2>2, WithinEpisode
<1>6. QED
  BY <1>1, <1>2, <1>3, <1>4, <1>5 DEF ToolStep, RecordTool

LEMMA VerifiedOpen ==
  ASSUME VerifiedInv, NEW n \in Nodes, Open(n)
  PROVE  VerifiedInv'
<1>1. /\ UNCHANGED <<session, artifact, ran, events>> /\ session = "RUNNING"
      /\ pc' = "model" /\ at' = n
      /\ node' = [m \in Nodes |-> IF m = n THEN "RUNNING" ELSE Recovered(m)]
      /\ Recovered(n) = "QUEUED"
  BY DEF Open, ghosts, Ready
<1>2. \A m \in Nodes : /\ node'[m] \in Ongoing
                       /\ node'[m] = "COMPLETED" => node[m] = "COMPLETED"
  BY <1>1 DEF Recovered, VerifiedInv, NodesFitSession, Ongoing
<1>3. NodesFitSession'
  BY <1>1, <1>2 DEF NodesFitSession
<1>4. Verified'
  BY <1>1, <1>2 DEF VerifiedInv, Verified, HasRun
<1>5. QED
  BY <1>3, <1>4 DEF VerifiedInv

(* with no node ready, all are done                                            *)
LEMMA VerifiedCompleteSession ==
  ASSUME VerifiedInv, Acyclic, CompleteSession
  PROVE  VerifiedInv'
<1>1. /\ UNCHANGED <<artifact, ran, events, pc>> /\ session = "RUNNING" /\ pc = "idle"
      /\ Ready = {} /\ session' = "COMPLETED" /\ node' = [n \in Nodes |-> Recovered(n)]
  BY DEF CompleteSession, ghosts, episode
<1>2. \A n \in Nodes : node[n] \in Ongoing
  BY <1>1 DEF VerifiedInv, NodesFitSession
<1>3. ASSUME NEW n \in Nodes, node[n] # "COMPLETED"
      PROVE  FALSE
  <2>1. PICK S \in SUBSET Nodes : S = {m \in Nodes : node[m] # "COMPLETED"}
    OBVIOUS
  <2>2. PICK m \in S : Requires[m] \cap S = {}
    BY <1>3, <2>1 DEF Acyclic
  <2>3. m \in Nodes /\ Requires[m] \subseteq Nodes /\ node[m] # "COMPLETED"
    BY <2>1, <2>2
  <2>4. \A r \in Requires[m] : node[r] = "COMPLETED"
    BY <2>1, <2>2, <2>3
  <2>5. Recovered(m) = "QUEUED"
    BY <1>2, <2>3 DEF Recovered, Ongoing
  <2>6. m \in Ready
    BY <2>3, <2>4, <2>5 DEF Ready
  <2>7. QED
    BY <1>1, <2>6
<1>4. \A n \in Nodes : node[n] = "COMPLETED" /\ node'[n] = "COMPLETED"
  BY <1>1, <1>3 DEF Recovered
<1>5. NodesFitSession'
  BY <1>1, <1>4 DEF NodesFitSession, Ongoing
<1>6. Verified'
  BY <1>1, <1>4 DEF VerifiedInv, Verified, HasRun
<1>7. QED
  BY <1>5, <1>6 DEF VerifiedInv

LEMMA VerifiedEnds ==
  ASSUME VerifiedInv, EffectsInv, events \in Events, ReportError \/ Crash
  PROVE  VerifiedInv'
<1>0. events'.approved = events.approved
  <2>1. CASE Crash
    BY <2>1, EventsCounted DEF Next
  <2>2. QED
    BY <2>1 DEF ReportError
<1>1. /\ UNCHANGED <<artifact, ran>> /\ pc' = "idle" /\ events'.approved = events.approved
  BY <1>0 DEF ReportError, Crash, ghosts, Idle
<1>2. CASE Crash
  <2>1. UNCHANGED <<session, node>>
    BY <1>2 DEF Crash, durable
  <2>2. QED
    BY <1>1, <2>1 DEF VerifiedInv, NodesFitSession, Verified, HasRun
<1>3. CASE ReportError
  <2>1. /\ pc = "error" /\ at \in Nodes /\ session' = "FAILED"
        /\ node' = [node EXCEPT ![at] = "FAILED"]
    BY <1>3 DEF ReportError, EffectsInv, EpisodeTypes
  <2>2. NodesFitSession'
    BY <1>1, <2>1 DEF VerifiedInv, NodesFitSession
  <2>3. node \in [Nodes -> Ongoing \cup {"PENDING_GATE", "FAILED"}]
    BY DEF VerifiedInv, NodesFitSession
  <2>4. /\ \A n \in Nodes : node'[n] = "COMPLETED" => node[n] = "COMPLETED"
        /\ node'[at] # "COMPLETED"
    BY <2>1, <2>3
  <2>5. Verified'
    BY <1>1, <2>1, <2>4 DEF VerifiedInv, Verified, HasRun
  <2>6. QED
    BY <2>2, <2>5 DEF VerifiedInv
<1>4. QED
  BY <1>2, <1>3

LEMMA VerifiedDecide ==
  ASSUME VerifiedInv, events \in Events, NEW n \in Nodes, NEW action \in {"APPROVE", "REVISE", "REJECT"},
         Decide(n, action)
  PROVE  VerifiedInv'
<1>1. /\ UNCHANGED <<artifact, ran, pc>> /\ pc = "idle" /\ session = "WAITING_GATE"
      /\ node[n] = "PENDING_GATE" /\ node' = [node EXCEPT ![n] = AfterDecision(action)]
      /\ session' = IF action = "REJECT" THEN "FAILED" ELSE "RUNNING"
  BY DEF Decide, ghosts, episode
<1>0. events'.approved = (events.approved \/ action = "APPROVE")
  BY EventsCounted DEF Next
<1>2. /\ node \in [Nodes -> Ongoing \cup {"PENDING_GATE", "FAILED"}]
      /\ \A m \in Nodes : m # n => node[m] \in Ongoing
  BY <1>1 DEF VerifiedInv, NodesFitSession
<1>3. /\ node'[n] = AfterDecision(action) /\ \A m \in Nodes : m # n => node'[m] = node[m]
      /\ node' \in [Nodes -> Ongoing \cup {"PENDING_GATE", "FAILED"}]
  BY <1>1, <1>2 DEF AfterDecision, Ongoing
<1>4. session' = "RUNNING" => node'[n] \in Ongoing
  BY <1>1, <1>3 DEF AfterDecision, Ongoing
<1>5. NodesFitSession'
  BY <1>1, <1>2, <1>3, <1>4 DEF NodesFitSession
<1>6. CASE action = "APPROVE"
  <2>1. events'.approved
    BY <1>0, <1>6
  <2>2. QED
    BY <1>1, <1>5, <2>1 DEF VerifiedInv, Verified
<1>7. CASE action # "APPROVE"
  <2>1. ~events'.approved => ~events.approved
    BY <1>0, <1>7
  <2>2. node'[n] # "COMPLETED"
    BY <1>3, <1>7 DEF AfterDecision
  <2>3. Verified'
    BY <1>1, <1>3, <2>1, <2>2 DEF VerifiedInv, Verified, HasRun
  <2>4. QED
    BY <1>5, <2>3 DEF VerifiedInv
<1>8. QED
  BY <1>6, <1>7

(* the gate passes only what the feedback passes                               *)
LEMMA FeedbackHalts ==
  ASSUME NEW outcome, Feedback = "REQUIRES_DECISION"
  PROVE  GateFn(<<outcome, Feedback>>) \in Halting
<1>1. DEFINE said == <<outcome, Feedback>>
             halts == {i \in DOMAIN said : said[i] \in Halting}
<1>2. DOMAIN said = {1, 2} /\ said[1] = outcome /\ said[2] = Feedback
  OBVIOUS
<1>3. 2 \in halts /\ halts \subseteq {1, 2}
  BY <1>2 DEF Halting
<1>4. \E i \in halts : \A j \in halts : i <= j
  BY <1>3
<1>5. said[CHOOSE i \in halts : \A j \in halts : i <= j] \in Halting
  BY <1>4
<1>6. halts # {}
  BY <1>3
<1>7. QED
  BY <1>5, <1>6 DEF GateFn

LEMMA VerifiedReport ==
  ASSUME VerifiedInv, EffectsInv, LedgerInv, NEW outcome \in HostGate, Report(outcome)
  PROVE  VerifiedInv'
<1>1. /\ UNCHANGED <<artifact, ran, events>> /\ pc = "report" /\ pc' = "idle" /\ at \in Nodes
  BY DEF Report, ghosts, Idle, EffectsInv, EpisodeTypes
<1>2. PICK gate : gate = GateFn(<<outcome, Feedback>>)
  OBVIOUS
<1>3. PICK status : status = CASE gate = "REQUIRES_DECISION" -> "PENDING_GATE"
                               [] gate = "BLOCK" -> "FAILED"
                               [] OTHER -> "COMPLETED"
  OBVIOUS
<1>4. /\ node' = [node EXCEPT ![at] = status]
      /\ session' = CASE gate = "REQUIRES_DECISION" -> "WAITING_GATE"
                       [] gate = "BLOCK" -> "FAILED"
                       [] OTHER -> "RUNNING"
  BY <1>2, <1>3 DEF Report
<1>5. /\ node \in [Nodes -> Ongoing \cup {"PENDING_GATE", "FAILED"}] /\ session = "RUNNING"
      /\ \A n \in Nodes : node[n] \in Ongoing
  BY <1>1 DEF VerifiedInv, NodesFitSession
<1>6. status \in {"PENDING_GATE", "FAILED", "COMPLETED"}
  BY <1>3
<1>7. /\ node' \in [Nodes -> Ongoing \cup {"PENDING_GATE", "FAILED"}]
      /\ node'[at] = status /\ \A n \in Nodes : n # at => node'[n] = node[n]
  BY <1>1, <1>4, <1>5, <1>6 DEF Ongoing
<1>8. /\ session' = "RUNNING" => status = "COMPLETED"
      /\ session' = "WAITING_GATE" => status = "PENDING_GATE"
      /\ session' \in {"RUNNING", "WAITING_GATE", "FAILED"}
  BY <1>3, <1>4
<1>9. NodesFitSession'
  BY <1>1, <1>5, <1>6, <1>7, <1>8 DEF NodesFitSession, Ongoing
<1>10. CASE status # "COMPLETED"
  <2>1. Verified'
    BY <1>1, <1>7, <1>10 DEF VerifiedInv, Verified, HasRun
  <2>2. QED
    BY <1>9, <2>1 DEF VerifiedInv
<1>11. CASE status = "COMPLETED"
  <2>1. gate \notin Halting
    BY <1>3, <1>11 DEF Halting
  <2>2. Feedback # "REQUIRES_DECISION"
    BY <1>2, <2>1, FeedbackHalts
  <2>3. result # "failed" /\ (Missing = {} \/ Pending # {})
    BY <2>2 DEF Feedback
  <2>4. at \in Expects => artifact
    BY <1>1, <2>3 DEF VerifiedInv, Verified, ArtifactExists
  <2>5. CASE Missing = {}
    <3>1. ASSUME NEW t \in Required
          PROVE  HasRun(t)
      <4>1. t \in Completed
        BY <2>5 DEF Missing
      <4>2. PICK n \in Nodes : \E i \in DOMAIN rows[n] : \E id \in DOMAIN rows[n][i] :
              rows[n][i][id] = [tool |-> t, status |-> "SUCCEEDED"]
        BY <4>1 DEF Completed
      <4>3. \E i \in DOMAIN rows[n] : \E id \in DOMAIN rows[n][i] :
              rows[n][i][id].status = "SUCCEEDED" /\ rows[n][i][id].tool = t
        BY <4>2
      <4>4. ran[n][t] > 0
        BY <4>3 DEF LedgerInv, RowsAreTrue
      <4>5. QED
        BY <4>4 DEF HasRun
    <3>2. \A t \in Required : HasRun(t)'
      BY <1>1, <3>1 DEF HasRun
    <3>3. QED
      BY <1>1, <1>7, <1>9, <2>4, <3>2 DEF VerifiedInv, Verified
  <2>6. CASE Pending # {}
    <3>1. PICK n \in Nodes : n # at /\ node[n] \in {"QUEUED", "RUNNING"}
      BY <2>6 DEF Pending
    <3>2. node'[n] # "COMPLETED"
      BY <1>7, <3>1
    <3>3. QED
      BY <1>1, <1>7, <1>9, <2>4, <3>2 DEF VerifiedInv, Verified
  <2>7. QED
    BY <2>3, <2>5, <2>6
<1>12. QED
  BY <1>10, <1>11

LEMMA VerifiedStep ==
  ASSUME VerifiedInv, EffectsInv, EffectsInv', LedgerInv, events \in Events, Acyclic, [Next]_vars
  PROVE  VerifiedInv'
<1>1. CASE UNCHANGED vars
  <2>1. UNCHANGED <<session, node, pc, at, artifact, ran, events, result>>
    BY <1>1 DEF vars, durable, episode, ghosts
  <2>2. QED
    BY <2>1 DEF VerifiedInv, NodesFitSession, Verified, HasRun, ArtifactExists
<1>2. CASE Next
  BY <1>2, VerifiedOpen, VerifiedCompleteSession, VerifiedToolSteps, VerifiedEnds, VerifiedReport,
     VerifiedDecide
     DEF Next, Step, ReportStep
<1>3. QED
  BY <1>1, <1>2

(* A session that completes without an approval has run every required tool     *)
(* with success and left the artifact its nodes expect (CompletedIsVerified),    *)
(* for any acyclic graph, answers of the model, verdicts of the host's gates     *)
(* and crashes, when every tool call has its own id.                             *)
THEOREM CompletedIsAlwaysVerified ==
  ASSUME UniqueIds, Acyclic, Nodes # {}
  PROVE  Spec => []CompletedIsVerified
<1>1. Init => LedgerInv /\ VerifiedInv /\ events \in Events
  <2>1. Init => events \in Events
    BY DEF Init, Events
  <2>2. QED
    BY <2>1, LedgerInit, VerifiedInit
<1>2. LedgerInv /\ VerifiedInv /\ events \in Events /\ EffectsInv /\ EffectsInv' /\ [Next]_vars
        => (LedgerInv /\ VerifiedInv /\ events \in Events)'
  BY LedgerStep, VerifiedStep, EventsCounted
<1>3. VerifiedInv => CompletedIsVerified
  <2>1. SUFFICES ASSUME VerifiedInv, session = "COMPLETED", ~events.approved
                 PROVE  /\ \A t \in Required : \E n \in Nodes : ran[n][t] > 0
                        /\ Expects # {} => artifact
    BY DEF CompletedIsVerified
  <2>2. \A n \in Nodes : node[n] = "COMPLETED"
    BY <2>1 DEF VerifiedInv, NodesFitSession
  <2>3. QED
    BY <2>1, <2>2 DEF VerifiedInv, Verified, HasRun
<1>4. QED
  BY <1>1, <1>2, <1>3, EffectsAlways, PTL DEF Spec

------------------------------------------------------------------------------
(* The calls of tools (ToolExecution) *)

CallSteps == {"idle", "host", "process", "ended", "killed"}

Entries == [request : Requests, outcome : Outcomes, done : BOOLEAN,
            process : {"none", "alive", "exited", "reaped", "killed"}, holds : BOOLEAN]

(* What an entry of the log says by itself.                                    *)
Sound(e) ==
  /\ e.outcome = "success" /\ Effective(e.request) => e.done
  /\ e.outcome = "failure" /\ e.done =>
       LetThrough(e.request) /\ Registration(e.request).handler \in {"image", "host", "process"}
  /\ e.process # "none" =>
       LetThrough(e.request) /\ Registration(e.request).handler = "process"
  /\ e.process \in {"exited", "reaped"} => e.done
  /\ e.outcome \in {"success", "failure"} => e.process # "alive"
  /\ e.outcome = "success" => e.process \in {"none", "reaped"} /\ ~e.holds

(* What the current call waits for.                                            *)
Awaits(where, e) ==
  /\ e.outcome = "none" /\ LetThrough(e.request)
  /\ where = "host" =>
       Registration(e.request).handler = "host" /\ e.process = "none" /\ ~e.holds
  /\ where # "host" => Registration(e.request).handler = "process"
  /\ where = "process" => e.process \in {"alive", "exited", "reaped"}
  /\ where = "ended" => e.process = "reaped"
  /\ where = "killed" => e.process \in {"killed", "exited", "reaped"}

(* A success that the ledger knows, or that is told from it, is in the log.    *)
ToldBefore(f, n) ==
  \E j \in 1..n : log[j].outcome = "success" /\ Fingerprint(log[j].request) = f

LogInv ==
  /\ log \in Seq(Entries)
  /\ \A i \in 1..Len(log) :
       /\ Sound(log[i])
       /\ log[i].outcome = "none" => i = Len(log) /\ at_call # "idle"
       /\ log[i].outcome = "reused" => ToldBefore(Fingerprint(log[i].request), i - 1)
  /\ \A f \in ledger : ToldBefore(f, Len(log))

ToolInv ==
  /\ LogInv
  /\ at_call \in CallSteps
  /\ at_call # "idle" => log # <<>> /\ Awaits(at_call, log[Len(log)])

LEMMA InitTool == ToolInit => ToolInv
BY DEF ToolInit, ToolInv, LogInv, CallSteps

(* Calls that have one fingerprint differ only in what redaction hides.        *)
LEMMA FingerprintHides ==
  ASSUME NEW r, NEW s, Fingerprint(r) = Fingerprint(s)
  PROVE  Alike(r, s)
<1>1. r.tool = s.tool /\ r.node = s.node /\ r.role = s.role /\ Redacted(r.args) = Redacted(s.args)
  BY DEF Fingerprint
<1>2. DOMAIN r.args = DOMAIN s.args
  BY <1>1 DEF Redacted
<1>3. ASSUME NEW k \in DOMAIN r.args
      PROVE  \/ r.args[k] = s.args[k] \/ k \in SecretKeys
             \/ {r.args[k], s.args[k]} \subseteq Urls \cup {"<redacted-url>"}
  <2> SUFFICES ASSUME k \notin SecretKeys
               PROVE  r.args[k] = s.args[k]
                        \/ {r.args[k], s.args[k]} \subseteq Urls \cup {"<redacted-url>"}
    OBVIOUS
  <2>1. /\ Redacted(r.args)[k] = (IF r.args[k] \in Urls THEN "<redacted-url>" ELSE r.args[k])
        /\ Redacted(s.args)[k] = (IF s.args[k] \in Urls THEN "<redacted-url>" ELSE s.args[k])
    BY <1>2 DEF Redacted
  <2>2. QED
    BY <1>1, <2>1
<1>4. QED
  BY <1>1, <1>2, <1>3 DEF Alike

LEMMA SoundStays ==
  ASSUME UNCHANGED environment
  PROVE  \A e, where : (Sound(e)' <=> Sound(e)) /\ (Awaits(where, e)' <=> Awaits(where, e))
BY DEF Sound, Awaits, Effective, LetThrough, Denied, Registered, Registration

(* A call is added to the log, or an entry of it changes.                      *)
LEMMA Appended ==
  ASSUME ToolInv, at_call = "idle", NEW e \in Entries, log' = Append(log, e), UNCHANGED environment,
         Sound(e), e.outcome = "none" => at_call' # "idle",
         e.outcome = "reused" => Fingerprint(e.request) \in ledger,
         \A f \in ledger' : f \in ledger \/ (e.outcome = "success" /\ f = Fingerprint(e.request))
  PROVE  LogInv' /\ Len(log') = Len(log) + 1 /\ log'[Len(log')] = e
<1>1. /\ log' \in Seq(Entries) /\ Len(log') = Len(log) + 1 /\ log'[Len(log')] = e
      /\ Len(log) \in Nat /\ \A i \in 1..Len(log) : log'[i] = log[i]
  BY DEF ToolInv, LogInv
<1>2. ASSUME NEW f, NEW n \in 0..Len(log), ToldBefore(f, n) PROVE ToldBefore(f, n)'
  BY <1>1, <1>2 DEF ToldBefore, Fingerprint, Redacted
<1>3. ASSUME NEW i \in 1..Len(log')
      PROVE  /\ Sound(log'[i])
             /\ log'[i].outcome = "none" => i = Len(log') /\ at_call' # "idle"
             /\ log'[i].outcome = "reused" => ToldBefore(Fingerprint(log[i].request), i - 1)'
  <2>1. CASE i \in 1..Len(log)
    <3>1. /\ Sound(log[i]) /\ log[i].outcome # "none" /\ log'[i] = log[i]
          /\ log[i].outcome = "reused" => ToldBefore(Fingerprint(log[i].request), i - 1)
      BY <1>1, <2>1 DEF ToolInv, LogInv
    <3>2. Fingerprint(log[i].request)' = Fingerprint(log[i].request) /\ i - 1 \in 0..Len(log)
      BY <2>1, <3>1 DEF Fingerprint, Redacted
    <3>3. QED
      BY <1>1, <1>2, <2>1, <3>1, <3>2
  <2>2. CASE i = Len(log) + 1
    <3>1. e.outcome = "reused" => ToldBefore(Fingerprint(e.request), Len(log))
      BY DEF ToolInv, LogInv
    <3>2. Fingerprint(log[i].request)' = Fingerprint(e.request) /\ log'[i] = e /\ i - 1 = Len(log)
      BY <1>1, <2>2 DEF Fingerprint, Redacted
    <3>3. QED
      BY <1>1, <1>2, <2>2, <3>1, <3>2
  <2>3. QED
    BY <1>1, <2>1, <2>2
<1>4. ASSUME NEW f \in ledger' PROVE ToldBefore(f, Len(log))'
  <2>1. CASE f \in ledger
    <3>1. ToldBefore(f, Len(log))
      BY <2>1 DEF ToolInv, LogInv
    <3>2. QED
      BY <1>1, <3>1 DEF ToldBefore
  <2>2. CASE e.outcome = "success" /\ f = Fingerprint(e.request)
    BY <1>1, <2>2 DEF ToldBefore
  <2>3. QED
    BY <2>1, <2>2
<1>5. QED
  BY <1>1, <1>3, <1>4, SoundStays DEF LogInv

LEMMA Changed ==
  ASSUME ToolInv, NEW k \in 1..Len(log), NEW e \in Entries, log' = [log EXCEPT ![k] = e],
         UNCHANGED environment, Sound(e), e.request = log[k].request,
         log[k].outcome \in {"success", "reused"} => e.outcome = log[k].outcome,
         e.outcome = "reused" => log[k].outcome = "reused",
         e.outcome = "none" => log[k].outcome = "none",
         at_call' # "idle" => at_call # "idle",
         at_call' = "idle" => at_call = "idle" \/ (k = Len(log) /\ e.outcome # "none"),
         \A f \in ledger' : f \in ledger \/ (e.outcome = "success" /\ f = Fingerprint(e.request))
  PROVE  LogInv' /\ Len(log') = Len(log) /\ \A i \in 1..Len(log) : log'[i] = IF i = k THEN e ELSE log[i]
<1>1. /\ log' \in Seq(Entries) /\ Len(log') = Len(log) /\ Len(log) \in Nat
      /\ \A i \in 1..Len(log) : log'[i] = IF i = k THEN e ELSE log[i]
  BY DEF ToolInv, LogInv
<1>n. Len(log) \in Nat
  BY <1>1
<1>2. ASSUME NEW f, NEW n \in 0..Len(log), ToldBefore(f, n) PROVE ToldBefore(f, n)'
  <2>1. PICK j \in 1..n : log[j].outcome = "success" /\ Fingerprint(log[j].request) = f
    BY <1>2 DEF ToldBefore
  <2>2. log'[j].outcome = "success" /\ log'[j].request = log[j].request
    <3>1. j \in 1..Len(log)
      BY <1>n
    <3>2. log'[j] = IF j = k THEN e ELSE log[j]
      BY <1>1, <3>1
    <3>3. QED
      BY <2>1, <3>2
  <2>3. Fingerprint(log[j].request)' = Fingerprint(log[j].request)
    BY <2>2 DEF Fingerprint, Redacted
  <2>4. (log[j].outcome = "success" /\ Fingerprint(log[j].request) = f)'
    BY <2>1, <2>2, <2>3
  <2>5. QED
    BY <2>4 DEF ToldBefore
<1>3. ASSUME NEW i \in 1..Len(log)
      PROVE  /\ Sound(log'[i])
             /\ log'[i].outcome = "none" => i = Len(log') /\ at_call' # "idle"
             /\ log'[i].outcome = "reused" => ToldBefore(Fingerprint(log[i].request), i - 1)'
  <2>1. /\ Sound(log[i]) /\ (log[i].outcome = "none" => i = Len(log) /\ at_call # "idle")
        /\ log[i].outcome = "reused" => ToldBefore(Fingerprint(log[i].request), i - 1)
    BY DEF ToolInv, LogInv
  <2>2. log'[i].request = log[i].request
    BY <1>1
  <2>3. Fingerprint(log[i].request)' = Fingerprint(log[i].request) /\ i - 1 \in 0..Len(log)
    BY <2>2 DEF Fingerprint, Redacted
  <2>4. log'[i].outcome = "reused" => ToldBefore(Fingerprint(log[i].request), i - 1)'
    BY <1>1, <1>2, <2>1, <2>3
  <2>5. Sound(log'[i]) /\ (log'[i].outcome = "none" => i = Len(log') /\ at_call' # "idle")
    BY <1>1, <2>1
  <2>6. QED
    BY <2>4, <2>5
<1>4. ASSUME NEW f \in ledger' PROVE ToldBefore(f, Len(log))'
  <2>1. CASE f \in ledger
    <3>1. ToldBefore(f, Len(log))
      BY <2>1 DEF ToolInv, LogInv
    <3>2. PICK n \in 0..Len(log) : n = Len(log)
      BY <1>n
    <3>3. ToldBefore(f, n)' /\ n = Len(log')
      BY <1>1, <1>2, <3>1, <3>2
    <3>4. QED
      BY <3>3 DEF ToldBefore
  <2>2. CASE e.outcome = "success" /\ f = Fingerprint(e.request)
    <3>1. log'[k].outcome = "success" /\ log'[k].request = e.request
      BY <1>1, <2>2
    <3>2. Fingerprint(log[k].request)' = Fingerprint(log[k].request)
      BY <3>1 DEF Fingerprint, Redacted
    <3>3. k \in 1..Len(log') /\ (log[k].outcome = "success" /\ Fingerprint(log[k].request) = f)'
      BY <1>1, <2>2, <3>1, <3>2
    <3>4. QED
      BY <3>3 DEF ToldBefore
  <2>3. QED
    BY <2>1, <2>2
<1>5. QED
  BY <1>1, <1>3, <1>4, SoundStays DEF LogInv

(* A call that returns in one step.                                            *)
LEMMA CallReturns ==
  ASSUME ToolInv, NEW r \in Requests, Requested(r), NEW e \in Entries, log' = Append(log, e),
         e.request = r, e.outcome \in {"success", "failure", "reused"}, e.process = "none",
         e.outcome = "success" /\ Effective(r) => e.done,
         e.outcome = "failure" /\ e.done => LetThrough(r) /\ Registration(r).handler = "image",
         ~e.holds, e.outcome = "reused" => Fingerprint(r) \in ledger,
         \A f \in ledger' : f \in ledger \/ (e.outcome = "success" /\ f = Fingerprint(r)),
         UNCHANGED <<environment, at_call>>
  PROVE  ToolInv'
<1>1. Sound(e) /\ at_call = "idle"
  BY DEF Sound, Requested
<1>2. LogInv'
  BY <1>1, Appended
<1>3. QED
  BY <1>1, <1>2 DEF ToolInv, CallSteps

LEMMA OneStepCalls ==
  ASSUME ToolInv, NEW r \in Requests,
         \/ Reuses(r) \/ Refuses(r) \/ Writes(r) \/ Reads(r) \/ Lists(r) \/ LooksFor(r)
         \/ TellsTime(r) \/ Searches(r) \/ Generates(r) \/ RefusesProcess(r)
  PROVE  ToolInv'
<1> DEFINE h == Registration(r).handler
<1>1. CASE Reuses(r)
  <2>1. Entry(r, "reused", FALSE) \in Entries
    BY DEF Entry, Entries, Outcomes
  <2>2. QED
    BY <1>1, <2>1, CallReturns DEF Reuses, Entry
<1>2. ASSUME NEW success \in BOOLEAN, NEW done \in BOOLEAN, Requested(r), Returns(r, success, done),
             success /\ Effective(r) => done, ~success /\ done => LetThrough(r) /\ h = "image"
      PROVE  ToolInv'
  <2> DEFINE o == IF success THEN "success" ELSE "failure"
             e == Entry(r, o, done)
  <2>1. o \in {"success", "failure"} /\ (o = "success" <=> success)
    OBVIOUS
  <2>2. /\ log' = Append(log, e) /\ UNCHANGED <<environment, at_call>>
        /\ \A f \in ledger' : f \in ledger \/ (o = "success" /\ f = Fingerprint(r))
    BY <1>2 DEF Returns
  <2> HIDE DEF o
  <2>3. /\ e \in Entries /\ e.request = r /\ e.outcome = o /\ e.done = done
        /\ e.process = "none" /\ ~e.holds
    BY <2>1 DEF Entry, Entries, Outcomes
  <2> HIDE DEF e
  <2>4. QED
    BY <1>2, <2>1, <2>2, <2>3, CallReturns
<1>3. CASE Refuses(r)
  BY <1>2, <1>3 DEF Refuses, New
<1>4. CASE Writes(r)
  BY <1>2, <1>4 DEF Writes, Handles, New
<1>5. CASE Reads(r)
  BY <1>2, <1>5 DEF Reads, Handles, New, Effective
<1>6. CASE Lists(r)
  BY <1>2, <1>6 DEF Lists, Handles, New, Effective
<1>7. CASE LooksFor(r)
  BY <1>2, <1>7 DEF LooksFor, Handles, New, Effective, Contained
<1>8. CASE TellsTime(r)
  BY <1>2, <1>8 DEF TellsTime, Handles, New, Effective
<1>9. CASE Searches(r)
  <2>1. PICK answered \in BOOLEAN :
          Returns(r, ~environment.live \/ (environment.keys /\ answered), FALSE)
    BY <1>9 DEF Searches
  <2>2. (~environment.live \/ (environment.keys /\ answered)) \in BOOLEAN
    OBVIOUS
  <2>3. Requested(r) /\ ~Effective(r)
    BY <1>9 DEF Searches, Handles, New, Effective
  <2>4. QED
    BY <1>2, <2>1, <2>2, <2>3
<1>10. CASE Generates(r)
  <2>1. PICK made, answered, saved \in BOOLEAN :
          /\ answered => made
          /\ saved => answered
          /\ Returns(r, ~environment.live \/ saved \/ (answered /\ r.args["save_to"] = ""), made)
    BY <1>10 DEF Generates
  <2> DEFINE success == ~environment.live \/ saved \/ (answered /\ r.args["save_to"] = "")
  <2>2. success \in BOOLEAN /\ (success /\ environment.live => made)
    BY <2>1
  <2>3. Requested(r) /\ LetThrough(r) /\ h = "image" /\ (Effective(r) => environment.live)
    BY <1>10 DEF Generates, Handles, New, Effective
  <2>4. Returns(r, success, made)
    BY <2>1
  <2> HIDE DEF success
  <2>5. QED
    BY <1>2, <2>2, <2>3, <2>4
<1>11. CASE RefusesProcess(r)
  BY <1>2, <1>11 DEF RefusesProcess, Handles, New
<1>12. QED
  BY <1>1, <1>3, <1>4, <1>5, <1>6, <1>7, <1>8, <1>9, <1>10, <1>11

(* An entry with some of its fields changed.                                   *)
EntryOf(rq, o, d, p, h) ==
  [request |-> rq, outcome |-> o, done |-> d, process |-> p, holds |-> h]

LEMMA EntryWith ==
  ASSUME NEW e, NEW x, NEW y, e = EntryOf(e.request, e.outcome, e.done, e.process, e.holds)
  PROVE /\ [e EXCEPT !.done = x] = EntryOf(e.request, e.outcome, x, e.process, e.holds)
        /\ [e EXCEPT !.holds = x] = EntryOf(e.request, e.outcome, e.done, e.process, x)
        /\ [e EXCEPT !.process = y, !.done = x] = EntryOf(e.request, e.outcome, x, y, e.holds)
        /\ [e EXCEPT !.process = y, !.holds = x] = EntryOf(e.request, e.outcome, e.done, y, x)
<1> DEFINE rq == e.request  o == e.outcome  d == e.done  p == e.process  h == e.holds
           r == EntryOf(rq, o, d, p, h)
           s == EntryOf(rq, o, d, y, h)
<1>0. e = r
  OBVIOUS
<1> HIDE DEF rq, o, d, p, h
<1>1. /\ [r EXCEPT !.done = x] = EntryOf(rq, o, x, p, h)
      /\ [r EXCEPT !.holds = x] = EntryOf(rq, o, d, p, x)
      /\ [r EXCEPT !.process = y] = s
  BY DEF EntryOf
<1>2. /\ [s EXCEPT !.done = x] = EntryOf(rq, o, x, y, h)
      /\ [s EXCEPT !.holds = x] = EntryOf(rq, o, d, y, x)
  BY DEF EntryOf
<1> HIDE DEF r, s
<1>3. [e EXCEPT !.process = y, !.done = x] = EntryOf(rq, o, x, y, h)
  BY <1>0, <1>1, <1>2
<1>4. [e EXCEPT !.process = y, !.holds = x] = EntryOf(rq, o, d, y, x)
  BY <1>0, <1>1, <1>2
<1>5. QED
  BY <1>0, <1>1, <1>3, <1>4 DEF rq, o, d, p, h

(* A call that begins to wait.                                                 *)
LEMMA CallBegins ==
  ASSUME ToolInv, NEW r \in Requests, HostHandlerBegins(r) \/ StartsProcess(r)
  PROVE  ToolInv'
<1>1. ASSUME NEW where \in {"host", "process"}, NEW process \in {"none", "alive"},
             NEW holds \in BOOLEAN, Begins(r, where, process, holds), Handles(r, where),
             where = "host" => process = "none" /\ ~holds, where = "process" => process = "alive"
      PROVE  ToolInv'
  <2> DEFINE e == [request |-> r, outcome |-> "none", done |-> FALSE, process |-> process,
                   holds |-> holds]
  <2>0. [Entry(r, "none", FALSE) EXCEPT !.process = process, !.holds = holds] = e
    <3> DEFINE b == Entry(r, "none", FALSE)
    <3>1. /\ b = EntryOf(b.request, b.outcome, b.done, b.process, b.holds)
          /\ b.request = r /\ b.outcome = "none" /\ b.done = FALSE
      BY DEF Entry, EntryOf
    <3> HIDE DEF b
    <3>2. [b EXCEPT !.process = process, !.holds = holds]
            = EntryOf(b.request, b.outcome, b.done, process, holds)
      BY <3>1, EntryWith
    <3>3. QED
      BY <3>1, <3>2 DEF b, EntryOf
  <2>1. /\ log' = Append(log, e) /\ at_call' = where /\ at_call = "idle"
        /\ UNCHANGED <<environment, ledger>>
    <3>1. at_call = "idle"
      BY <1>1 DEF Handles, New, Requested
    <3>2. QED
      BY <1>1, <2>0, <3>1 DEF Begins
  <2>2. e \in Entries
    BY DEF Entries, Outcomes
  <2>3. e.outcome = "none" /\ e.request = r /\ e.process = process /\ e.holds = holds
    OBVIOUS
  <2> HIDE DEF e
  <2>4. Sound(e) /\ Awaits(where, e)
    BY <1>1, <2>3 DEF Sound, Awaits, Handles
  <2>5. LogInv' /\ Len(log') = Len(log) + 1 /\ log'[Len(log')] = e
    BY <2>1, <2>2, <2>3, <2>4, Appended
  <2>6. Awaits(where, e)'
    BY <2>1, <2>4, SoundStays
  <2>7. Len(log) \in Nat /\ log' # <<>>
    BY <2>5 DEF ToolInv, LogInv
  <2>8. QED
    BY <2>1, <2>5, <2>6, <2>7 DEF ToolInv, CallSteps
<1>2. CASE HostHandlerBegins(r)
  BY <1>1, <1>2 DEF HostHandlerBegins
<1>3. CASE StartsProcess(r)
  BY <1>1, <1>3 DEF StartsProcess
<1>4. QED
  BY <1>2, <1>3

(* The current call moves on or returns.                                       *)
LEMMA CallMoves ==
  ASSUME ToolInv, at_call # "idle", NEW e \in Entries, log' = [log EXCEPT ![Len(log)] = e],
         UNCHANGED environment, e.request = Current.request, Sound(e), e.outcome # "reused",
         at_call' \in CallSteps, at_call' = "idle" <=> e.outcome # "none",
         at_call' # "idle" => Awaits(at_call', e),
         \A f \in ledger' : f \in ledger \/ (e.outcome = "success" /\ f = Fingerprint(e.request))
  PROVE  ToolInv'
<1>1. /\ log \in Seq(Entries) /\ log # <<>> /\ Len(log) \in Nat /\ Len(log) \in 1..Len(log)
      /\ log[Len(log)].outcome = "none"
  BY DEF ToolInv, LogInv, Awaits
<1>2. LogInv' /\ Len(log') = Len(log) /\ \A i \in 1..Len(log) : log'[i] = IF i = Len(log) THEN e ELSE log[i]
  BY <1>1, Changed DEF Current
<1>3. log'[Len(log')] = e /\ log' # <<>>
  BY <1>1, <1>2
<1>4. at_call' # "idle" => Awaits(at_call, e)'
  BY SoundStays
<1>5. QED
  BY <1>2, <1>3, <1>4 DEF ToolInv

LEMMA CurrentCall ==
  ASSUME ToolInv, at_call # "idle"
  PROVE  /\ Current \in Entries /\ Sound(Current) /\ Awaits(at_call, Current)
         /\ Current = [request |-> Current.request, outcome |-> Current.outcome,
                       done |-> Current.done, process |-> Current.process,
                       holds |-> Current.holds]
         /\ log \in Seq(Entries) /\ Len(log) \in 1..Len(log)
<1>1. /\ log \in Seq(Entries) /\ log # <<>> /\ Len(log) \in 1..Len(log)
      /\ Awaits(at_call, log[Len(log)])
  BY DEF ToolInv, LogInv
<1>2. Current \in Entries /\ Sound(Current)
  BY <1>1 DEF ToolInv, LogInv, Current
<1>3. QED
  BY <1>1, <1>2 DEF Current, Entries

LEMMA CallFinishes ==
  ASSUME ToolInv, at_call # "idle", NEW success \in BOOLEAN, Finishes(success),
         Current.process # "alive",
         success => Current.process \in {"none", "reaped"} /\ ~Current.holds,
         success /\ Effective(Current.request) => Current.done
  PROVE  ToolInv'
<1> DEFINE o == IF success THEN "success" ELSE "failure"
           e == [request |-> Current.request, outcome |-> o, done |-> Current.done,
                 process |-> Current.process, holds |-> Current.holds]
<1>0. o \in {"success", "failure"} /\ (o = "success" <=> success)
  OBVIOUS
<1>1. Current \in Entries /\ Sound(Current) /\ Awaits(at_call, Current) /\ log \in Seq(Entries)
  BY CurrentCall
<1>2. [Current EXCEPT !.outcome = o] = e
  BY CurrentCall
<1>3. /\ log' = [log EXCEPT ![Len(log)] = e] /\ at_call' = "idle" /\ UNCHANGED environment
      /\ \A f \in ledger' : f \in ledger \/ (o = "success" /\ f = Fingerprint(Current.request))
  BY <1>2 DEF Finishes, Set
<1> HIDE DEF o
<1>4. e \in Entries
  BY <1>0, <1>1 DEF Entries, Outcomes
<1>5. /\ e.request = Current.request /\ e.outcome = o /\ e.done = Current.done
      /\ e.process = Current.process /\ e.holds = Current.holds
  OBVIOUS
<1> HIDE DEF e
<1>6. Sound(e)
  <2>1. /\ LetThrough(Current.request)
        /\ Registration(Current.request).handler \in {"host", "process"}
    BY <1>1 DEF Awaits
  <2>2. QED
    BY <1>0, <1>1, <1>5, <2>1 DEF Sound
<1>7. QED
  BY <1>0, <1>3, <1>4, <1>5, <1>6, CallMoves DEF CallSteps

LEMMA CallGoesOn ==
  ASSUME ToolInv,
         \/ HostHandlerActs \/ \E success \in BOOLEAN : HostHandlerEnds(success)
         \/ ProcessReturns \/ TimeoutFires \/ CleanupEnds \/ CallIsCancelled
  PROVE  ToolInv'
<1>0. at_call # "idle"
  BY DEF HostHandlerActs, HostHandlerEnds, ProcessReturns, TimeoutFires, CleanupEnds, CallIsCancelled
<1>1. /\ Current \in Entries /\ Sound(Current) /\ Awaits(at_call, Current)
      /\ Current = [request |-> Current.request, outcome |-> Current.outcome,
                    done |-> Current.done, process |-> Current.process, holds |-> Current.holds]
      /\ log \in Seq(Entries) /\ Len(log) \in 1..Len(log)
  BY <1>0, CurrentCall
<1>2. CASE HostHandlerActs
  <2> DEFINE e == [request |-> Current.request, outcome |-> Current.outcome, done |-> TRUE,
                   process |-> Current.process, holds |-> Current.holds]
  <2>1. [Current EXCEPT !.done = TRUE] = e
    <3>1. Current = EntryOf(Current.request, Current.outcome, Current.done, Current.process, Current.holds)
      BY <1>1 DEF EntryOf
    <3>2. [Current EXCEPT !.done = TRUE]
            = EntryOf(Current.request, Current.outcome, TRUE, Current.process, Current.holds)
      BY <3>1, EntryWith
    <3>3. QED
      BY <3>2 DEF EntryOf
  <2>2. /\ log' = [log EXCEPT ![Len(log)] = e] /\ at_call = "host"
        /\ UNCHANGED <<environment, at_call, ledger>>
    BY <1>2, <2>1 DEF HostHandlerActs, Set
  <2>3. e \in Entries
    BY <1>1 DEF Entries
  <2>4. /\ e.request = Current.request /\ e.outcome = Current.outcome /\ e.done
        /\ e.process = Current.process /\ e.holds = Current.holds
    OBVIOUS
  <2> HIDE DEF e
  <2>5. Sound(e) /\ Awaits(at_call, e) /\ e.outcome = "none"
    BY <1>1, <2>2, <2>4 DEF Sound, Awaits
  <2>6. QED
    BY <2>2, <2>3, <2>4, <2>5, <1>0, CallMoves DEF CallSteps
<1>3. CASE \E success \in BOOLEAN : HostHandlerEnds(success)
  <2>1. PICK success \in BOOLEAN :
          at_call = "host" /\ (success => Current.done) /\ Finishes(success)
    BY <1>3 DEF HostHandlerEnds
  <2>2. Current.process = "none" /\ ~Current.holds
    BY <1>1, <2>1 DEF Awaits
  <2>3. QED
    BY <1>0, <2>1, <2>2, CallFinishes
<1>4. CASE ProcessReturns
  <2>1. /\ at_call = "process" /\ Finishes(TRUE) /\ ~Current.holds
        /\ Current.process \in {"reaped", "killed"}
    BY <1>4 DEF ProcessReturns, OutputComplete
  <2>2. Current.process = "reaped" /\ Current.done
    BY <1>1, <2>1 DEF Awaits, Sound
  <2>3. QED
    BY <1>0, <2>1, <2>2, CallFinishes
<1>5. CASE TimeoutFires
  <2>1. /\ at_call = "process"
        /\ at_call' = IF Current.process = "reaped" THEN "ended" ELSE "killed"
        /\ log' = IF Current.process = "alive"
                  THEN [log EXCEPT ![Len(log)].process = "killed"] ELSE log
        /\ UNCHANGED <<environment, ledger>>
    BY <1>5 DEF TimeoutFires
  <2>2. Current.process \in {"alive", "exited", "reaped"}
    BY <1>1, <2>1 DEF Awaits
  <2> DEFINE p == IF Current.process = "alive" THEN "killed" ELSE Current.process
             e == [request |-> Current.request, outcome |-> Current.outcome,
                   done |-> Current.done, process |-> p, holds |-> Current.holds]
  <2>3. log' = [log EXCEPT ![Len(log)] = e]
    <3>1. CASE Current.process = "alive"
      <4>1. [Current EXCEPT !.process = "killed"] = e
        BY <1>1, <3>1
      <4>2. QED
        BY <2>1, <3>1, <4>1 DEF Current
    <3>2. CASE Current.process # "alive"
      <4>1. Current = e
        BY <1>1, <3>2
      <4>2. log = [log EXCEPT ![Len(log)] = log[Len(log)]]
        BY <1>1
      <4>3. QED
        BY <2>1, <3>2, <4>1, <4>2 DEF Current
    <3>3. QED
      BY <3>1, <3>2
  <2>4. p \in {"killed", "exited", "reaped"} /\ (Current.process = "reaped" <=> p = "reaped")
        /\ (p = "exited" => Current.process = "exited")
    BY <2>2
  <2> HIDE DEF p
  <2>5. e \in Entries
    BY <1>1, <2>4 DEF Entries
  <2>6. /\ e.request = Current.request /\ e.outcome = Current.outcome /\ e.done = Current.done
        /\ e.process = p /\ e.holds = Current.holds
    OBVIOUS
  <2> HIDE DEF e
  <2>7. Sound(e) /\ Awaits(at_call', e) /\ e.outcome = "none"
    BY <1>1, <2>1, <2>4, <2>6 DEF Sound, Awaits
  <2>8. QED
    BY <1>0, <2>1, <2>3, <2>5, <2>6, <2>7, CallMoves DEF CallSteps
<1>6. CASE CleanupEnds
  <2>1. CASE at_call = "ended" /\ Finishes(OutputComplete)
    <3>1. Current.process = "reaped" /\ Current.done /\ OutputComplete \in BOOLEAN
          /\ (OutputComplete => ~Current.holds)
      BY <1>1, <2>1 DEF Awaits, Sound, OutputComplete
    <3>2. QED
      BY <1>0, <2>1, <3>1, CallFinishes
  <2>2. CASE at_call = "killed" /\ Finishes(FALSE)
    <3>1. Current.process # "alive"
      BY <1>1, <2>2 DEF Awaits
    <3>2. QED
      BY <1>0, <2>2, <3>1, CallFinishes
  <2>3. QED
    BY <1>6, <2>1, <2>2 DEF CleanupEnds
<1>7. CASE CallIsCancelled
  <2> DEFINE e == [request |-> Current.request, outcome |-> "cancelled", done |-> Current.done,
                   process |-> Current.process, holds |-> Current.holds]
  <2>1. [Current EXCEPT !.outcome = "cancelled"] = e
    BY <1>1
  <2>2. /\ log' = [log EXCEPT ![Len(log)] = e] /\ at_call' = "idle"
        /\ UNCHANGED <<environment, ledger>>
    BY <1>7, <2>1 DEF CallIsCancelled, Set
  <2>3. e \in Entries
    BY <1>1 DEF Entries, Outcomes
  <2>4. /\ e.request = Current.request /\ e.outcome = "cancelled" /\ e.done = Current.done
        /\ e.process = Current.process /\ e.holds = Current.holds
    OBVIOUS
  <2> HIDE DEF e
  <2>5. Sound(e)
    BY <1>1, <2>4 DEF Sound
  <2>6. QED
    BY <1>0, <2>2, <2>3, <2>4, <2>5, CallMoves DEF CallSteps
<1>8. QED
  BY <1>2, <1>3, <1>4, <1>5, <1>6, <1>7

(* A process moves on beside the calls.                                        *)
LEMMA ProcessGoesOn ==
  ASSUME ToolInv, NEW k \in DOMAIN log, ProcessExits(k) \/ ExitIsNoticed(k) \/ HolderEnds(k)
  PROVE  ToolInv'
<1>1. /\ log \in Seq(Entries) /\ k \in 1..Len(log) /\ log[k] \in Entries /\ Sound(log[k])
      /\ log[k] = [request |-> log[k].request, outcome |-> log[k].outcome, done |-> log[k].done,
                   process |-> log[k].process, holds |-> log[k].holds]
      /\ Len(log) \in Nat
  <2>1. log \in Seq(Entries) /\ k \in 1..Len(log) /\ log[k] \in Entries /\ Len(log) \in Nat
    BY DEF ToolInv, LogInv
  <2>2. QED
    BY <2>1 DEF ToolInv, LogInv, Entries
<1>2. ASSUME NEW e \in Entries, log' = [log EXCEPT ![k] = e], e.request = log[k].request,
             e.outcome = log[k].outcome, Sound(e), UNCHANGED <<environment, at_call, ledger>>,
             \A where : Awaits(where, log[k]) => Awaits(where, e)
      PROVE  ToolInv'
  <2>1. LogInv' /\ Len(log') = Len(log)
        /\ \A i \in 1..Len(log) : log'[i] = IF i = k THEN e ELSE log[i]
    <3>1. /\ k \in 1..Len(log) /\ environment' = environment
          /\ \A f \in ledger' : f \in ledger
          /\ at_call' # "idle" => at_call # "idle"
          /\ at_call' = "idle" => at_call = "idle"
      BY <1>1, <1>2
    <3>2. log[k].outcome \in {"success", "reused"} => e.outcome = log[k].outcome
      BY <1>2
    <3>3. /\ e.outcome = "reused" => log[k].outcome = "reused"
          /\ e.outcome = "none" => log[k].outcome = "none"
      BY <1>2
    <3>4. QED
      BY <1>2, <3>1, <3>2, <3>3, Changed
  <2>2. ASSUME at_call # "idle" PROVE log' # <<>> /\ Awaits(at_call, log[Len(log)])'
    <3>1. log # <<>> /\ Awaits(at_call, log[Len(log)]) /\ Len(log) \in 1..Len(log)
      BY <1>1, <2>2 DEF ToolInv
    <3>2. Awaits(at_call, log'[Len(log')])
      BY <1>2, <2>1, <3>1
    <3>3. QED
      BY <1>2, <2>1, <3>1, <3>2, SoundStays
  <2>3. QED
    BY <1>2, <2>1, <2>2 DEF ToolInv
<1>3. ASSUME NEW from \in {"alive", "exited"}, NEW to \in {"exited", "reaped"},
             from = "exited" => to = "reaped", ProcessMoves(k, from, to, TRUE)
      PROVE  ToolInv'
  <2> DEFINE e == [request |-> log[k].request, outcome |-> log[k].outcome, done |-> TRUE,
                   process |-> to, holds |-> log[k].holds]
  <2>1. [log[k] EXCEPT !.process = to, !.done = TRUE] = e
    <3>1. log[k] = EntryOf(log[k].request, log[k].outcome, log[k].done, log[k].process, log[k].holds)
      BY <1>1 DEF EntryOf
    <3>2. [log[k] EXCEPT !.process = to, !.done = TRUE]
            = EntryOf(log[k].request, log[k].outcome, TRUE, to, log[k].holds)
      BY <3>1, EntryWith
    <3>3. QED
      BY <3>2 DEF EntryOf
  <2>2. log' = [log EXCEPT ![k] = e]
    <3>1. log' = [log EXCEPT ![k] = [log[k] EXCEPT !.process = to, !.done = TRUE]]
      BY <1>1, <1>3 DEF ProcessMoves
    <3>2. QED
      BY <2>1, <3>1
  <2>3. log[k].process = from /\ UNCHANGED <<environment, at_call, ledger>>
    BY <1>3 DEF ProcessMoves
  <2>4. e \in Entries
    BY <1>1 DEF Entries
  <2>5. /\ e.request = log[k].request /\ e.outcome = log[k].outcome /\ e.done
        /\ e.process = to /\ e.holds = log[k].holds
    OBVIOUS
  <2> HIDE DEF e
  <2>6. Sound(e)
    BY <1>1, <1>3, <2>3, <2>5 DEF Sound
  <2>7. \A where : Awaits(where, log[k]) => Awaits(where, e)
    BY <1>3, <2>3, <2>5 DEF Awaits
  <2>8. QED
    BY <1>2, <2>2, <2>3, <2>4, <2>5, <2>6, <2>7
<1>4. ASSUME HolderEnds(k) PROVE ToolInv'
  <2> DEFINE e == [request |-> log[k].request, outcome |-> log[k].outcome, done |-> log[k].done,
                   process |-> log[k].process, holds |-> FALSE]
  <2>1. [log[k] EXCEPT !.holds = FALSE] = e
    <3>1. log[k] = EntryOf(log[k].request, log[k].outcome, log[k].done, log[k].process, log[k].holds)
      BY <1>1 DEF EntryOf
    <3>2. [log[k] EXCEPT !.holds = FALSE]
            = EntryOf(log[k].request, log[k].outcome, log[k].done, log[k].process, FALSE)
      BY <3>1, EntryWith
    <3>3. QED
      BY <3>2 DEF EntryOf
  <2>2. log' = [log EXCEPT ![k] = e] /\ UNCHANGED <<environment, at_call, ledger>>
    BY <1>1, <1>4, <2>1 DEF HolderEnds
  <2>3. e \in Entries
    BY <1>1 DEF Entries
  <2>4. /\ e.request = log[k].request /\ e.outcome = log[k].outcome /\ e.done = log[k].done
        /\ e.process = log[k].process /\ ~e.holds
    OBVIOUS
  <2> HIDE DEF e
  <2>5. Sound(e) /\ \A where : Awaits(where, log[k]) => Awaits(where, e)
    BY <1>1, <2>4 DEF Sound, Awaits
  <2>6. QED
    BY <1>2, <2>2, <2>3, <2>4, <2>5
<1>5. QED
  BY <1>3, <1>4 DEF ProcessExits, ExitIsNoticed

LEMMA StepTool ==
  ASSUME ToolInv, [ToolNext]_toolVars
  PROVE  ToolInv'
<1>1. CASE UNCHANGED toolVars
  BY <1>1 DEF toolVars, ToolInv, LogInv, ToldBefore, Fingerprint, Redacted, Sound, Awaits, Effective,
              LetThrough, Denied, Registered, Registration
<1>2. CASE ToolNext
  BY <1>2, OneStepCalls, CallBegins, CallGoesOn, ProcessGoesOn DEF ToolNext
<1>3. QED
  BY <1>1, <1>2

(* For any tools, requests and environment, and however handlers, processes,  *)
(* timeouts and cancellations interleave (ToolRegistry.run_tool_call,          *)
(* run_process, execute_tool_round): what an agent is told is what has         *)
(* happened.                                                                   *)
THEOREM AgentsAreToldTheTruth == ToolSpec => []ResultsAreTrue
<1>1. ToolInv => ResultsAreTrue
  <2> SUFFICES ASSUME ToolInv, NEW i \in 1..Len(log)
               PROVE  /\ log[i].outcome = "success" /\ Effective(log[i].request) => log[i].done
                      /\ log[i].outcome = "reused" =>
                           \E j \in 1..i - 1 :
                             log[j].outcome = "success" /\ Alike(log[j].request, log[i].request)
                      /\ log[i].outcome = "failure" /\ log[i].done =>
                           /\ LetThrough(log[i].request)
                           /\ Registration(log[i].request).handler \in {"image", "host", "process"}
    BY DEF ResultsAreTrue, ToolInv, LogInv
  <2>1. Sound(log[i])
    BY DEF ToolInv, LogInv
  <2>2. ASSUME log[i].outcome = "reused"
        PROVE  \E j \in 1..i - 1 :
                 log[j].outcome = "success" /\ Alike(log[j].request, log[i].request)
    BY <2>2, FingerprintHides DEF ToolInv, LogInv, ToldBefore
  <2>3. QED
    BY <2>1, <2>2 DEF Sound
<1>2. QED
  BY InitTool, StepTool, <1>1, PTL DEF ToolSpec

(* A call of process.run that returns leaves no process behind, for any moment *)
(* at which its timeout may fire (run_process).                                *)
THEOREM NoProcessOutlivesItsCall == ToolSpec => []ProcessesEndWithTheirCall
<1>1. ToolInv => ProcessesEndWithTheirCall
  BY DEF ToolInv, LogInv, Sound, ProcessesEndWithTheirCall
<1>2. QED
  BY InitTool, StepTool, <1>1, PTL DEF ToolSpec

------------------------------------------------------------------------------
(* ModelDialogue.  What a model is sent is built message by message (Wire, a   *)
(* recursive function), so a fact about it is shown by the messages there are:  *)
(* were it false, there would be a first message at which it fails.             *)

HIDE NodeExecutionAssumption

(* A set of numbers has a least one.                                           *)
LEMMA LeastNumber ==
  ASSUME NEW T \in SUBSET Nat, T # {}
  PROVE  \E x \in T : \A y \in T : x <= y
<1> DEFINE B == {0..x : x \in T}
<1>1. B \subseteq FiniteSubsetsOf(Nat) /\ B # {}
  <2>1. \A x \in T : 0..x \in SUBSET Nat /\ IsFiniteSet(0..x)
    BY FS_Interval
  <2>2. QED
    BY <2>1 DEF FiniteSubsetsOf
<1>2. \E b \in B : \A c \in B : <<c, b>> \notin StrictSubsetOrdering(Nat)
  <2>1. IsWellFoundedOn(StrictSubsetOrdering(Nat), FiniteSubsetsOf(Nat))
    BY FS_StrictSubsetOrderingWellFounded
  <2> HIDE DEF B
  <2>2. QED
    BY <1>1, <2>1, WFMin
<1>3. PICK x \in T : \A y \in T : <<0..y, 0..x>> \notin StrictSubsetOrdering(Nat)
  BY <1>2
<1>4. ASSUME NEW y \in T, y < x
      PROVE  FALSE
  <2>1. x \in Nat /\ y \in Nat
    OBVIOUS
  <2>2. 0..y \subseteq 0..x /\ x \in 0..x /\ x \notin 0..y /\ 0..x \subseteq Nat
    BY <1>4, <2>1
  <2>3. <<0..y, 0..x>> \in StrictSubsetOrdering(Nat)
    BY <2>2 DEF StrictSubsetOrdering
  <2>4. QED
    BY <1>3, <2>3
<1>5. QED
  BY <1>4

(* the wire of the first messages of d, one after the other                     *)
Steps(f, d, n) == f = [i \in 0..n |-> IF i = 0 THEN <<>> ELSE f[i - 1] \o Sent(d[i])]

LEMMA StepsExist ==
  ASSUME NEW d, NEW n \in Nat
  PROVE  \E f : Steps(f, d, n)
<1> DEFINE T == {k \in Nat : ~ \E f : Steps(f, d, k)}
<1>1. ASSUME NEW k \in T, \A j \in T : k <= j
      PROVE  FALSE
  <2>1. CASE k = 0
    <3>1. 0..0 = {0}
      OBVIOUS
    <3>2. Steps([i \in 0..0 |-> <<>>], d, 0)
      BY <3>1 DEF Steps
    <3>3. QED
      BY <2>1, <3>2
  <2>2. CASE k # 0
    <3>1. k - 1 \in Nat /\ k - 1 \notin T
      BY <1>1, <2>2
    <3>2. PICK f : Steps(f, d, k - 1)
      BY <3>1
    <3> DEFINE g == [i \in 0..k |-> IF i = k THEN f[k - 1] \o Sent(d[k]) ELSE f[i]]
    <3>3. ASSUME NEW i \in 0..k
          PROVE  g[i] = IF i = 0 THEN <<>> ELSE g[i - 1] \o Sent(d[i])
      <4>1. CASE i = k
        <5>1. i - 1 \in 0..k /\ i - 1 # k
          BY <2>2, <4>1
        <5>2. QED
          BY <2>2, <4>1, <5>1
      <4>2. CASE i # k
        <5>1. i \in 0..k - 1 /\ (i # 0 => i - 1 \in 0..k /\ i - 1 # k)
          BY <4>2
        <5>2. g[i] = f[i] /\ (i # 0 => g[i - 1] = f[i - 1])
          BY <4>2, <5>1
        <5>3. f[i] = IF i = 0 THEN <<>> ELSE f[i - 1] \o Sent(d[i])
          BY <3>2, <5>1 DEF Steps
        <5> HIDE DEF g
        <5>4. QED
          BY <5>2, <5>3
      <4>3. QED
        BY <4>1, <4>2
    <3>4. g = [i \in 0..k |-> g[i]]
      OBVIOUS
    <3> HIDE DEF g
    <3>5. Steps(g, d, k)
      BY <3>3, <3>4 DEF Steps
    <3>6. QED
      BY <3>5
  <2>3. QED
    BY <2>1, <2>2
<1>2. T = {}
  <2> HIDE DEF T
  <2>1. T \in SUBSET Nat
    BY DEF T
  <2>2. QED
    BY <1>1, <2>1, LeastNumber
<1>3. QED
  BY <1>2

LEMMA StepsAgree ==
  ASSUME NEW d, NEW e, NEW n \in Nat, NEW m \in Nat, n <= m,
         \A i \in 1..n : d[i] = e[i],
         NEW f, NEW g, Steps(f, d, n), Steps(g, e, m)
  PROVE  f[n] = g[n]
<1> DEFINE T == {k \in 0..n : f[k] # g[k]}
<1>1. ASSUME NEW k \in T, \A j \in T : k <= j
      PROVE  FALSE
  <2>1. k \in 0..n /\ k \in 0..m
    OBVIOUS
  <2>2. /\ f[k] = IF k = 0 THEN <<>> ELSE f[k - 1] \o Sent(d[k])
        /\ g[k] = IF k = 0 THEN <<>> ELSE g[k - 1] \o Sent(e[k])
    BY <2>1 DEF Steps
  <2>3. CASE k = 0
    BY <2>2, <2>3
  <2>4. CASE k # 0
    <3>1. k - 1 \in 0..n /\ k - 1 \notin T /\ k \in 1..n
      BY <1>1, <2>1, <2>4
    <3>2. f[k - 1] = g[k - 1] /\ d[k] = e[k]
      BY <3>1
    <3>3. QED
      BY <2>2, <2>4, <3>2
  <2>5. QED
    BY <2>3, <2>4
<1>2. T = {}
  <2> HIDE DEF T
  <2>1. T \in SUBSET Nat
    BY DEF T
  <2>2. QED
    BY <1>1, <2>1, LeastNumber
<1>3. QED
  BY <1>2

LEMMA WireSteps ==
  ASSUME NEW d, Len(d) \in Nat
  PROVE  \E f : Steps(f, d, Len(d)) /\ Wire(d) = f[Len(d)]
<1> DEFINE f == CHOOSE f : Steps(f, d, Len(d))
<1>1. Steps(f, d, Len(d))
  BY StepsExist
<1>2. Wire(d) = f[Len(d)]
  BY DEF Wire, Steps
<1>3. QED
  BY <1>1, <1>2

(* A message that is added to a dialogue is added to the wire.                  *)
LEMMA WireAppends ==
  ASSUME NEW M, NEW d \in Seq(M), NEW m
  PROVE  Wire(Append(d, m)) = Wire(d) \o Sent(m)
<1> DEFINE n == Len(d)
           e == Append(d, m)
<1>1. d \in Seq(M \cup {m}) /\ m \in M \cup {m}
  OBVIOUS
<1>2. n \in Nat /\ Len(e) = n + 1 /\ e[n + 1] = m /\ \A i \in 1..n : e[i] = d[i]
  BY <1>1
<1>3. PICK f : Steps(f, d, n) /\ Wire(d) = f[n]
  BY <1>2, WireSteps
<1> HIDE DEF n, e
<1>4. PICK g : Steps(g, e, n + 1) /\ Wire(e) = g[n + 1]
  <2>1. Len(e) \in Nat
    BY <1>2
  <2>2. QED
    BY <1>2, <2>1, WireSteps
<1>5. f[n] = g[n]
  <2>1. n \in Nat /\ n + 1 \in Nat /\ n <= n + 1 /\ \A i \in 1..n : d[i] = e[i]
    BY <1>2
  <2>2. Steps(f, d, n) /\ Steps(g, e, n + 1)
    BY <1>3, <1>4
  <2>3. QED
    BY <2>1, <2>2, StepsAgree, SMTT(60)
<1>6. g[n + 1] = g[n] \o Sent(m)
  <2>1. n + 1 \in 0..n + 1 /\ n + 1 # 0 /\ n + 1 - 1 = n
    BY <1>2
  <2>2. g[n + 1] = g[n + 1 - 1] \o Sent(e[n + 1])
    BY <1>4, <2>1 DEF Steps
  <2>3. QED
    BY <1>2, <2>1, <2>2
<1>7. QED
  BY <1>3, <1>4, <1>5, <1>6 DEF e

------------------------------------------------------------------------------
IsSeq(s) == s \in Seq(Range(s))

(* a member's answer that has not been acted on is the last message              *)
AwaitsResults == Member /\ stage = "answered"

Fine(w, i) == (w[i].calls # <<>> => AnsweredAt(w, i)) /\ CalledBefore(w, i)
Settled(w, n) == \A i \in 1..n : Fine(w, i)

DialogueInv ==
  /\ IsSeq(dialogue) /\ IsSeq(Wire(dialogue)) /\ IsSeq(answer.calls)
  /\ \A j, k \in 1..Len(answer.calls) : answer.calls[j].id = answer.calls[k].id => j = k
  /\ stage \in {"new", "asked", "answered"} /\ ~AwaitsResults =>
       Settled(Wire(dialogue), Len(Wire(dialogue)))
  /\ AwaitsResults =>
       /\ Len(Wire(dialogue)) > 0
       /\ Wire(dialogue)[Len(Wire(dialogue))] = FromModel(answer.calls)
       /\ Settled(Wire(dialogue), Len(Wire(dialogue)) - 1)

(* What is behind message i of a wire is not changed by what is added to the      *)
(* wire, once there is a message behind it that is no result.                    *)
LEMMA BehindStays ==
  ASSUME NEW A, NEW w \in Seq(A), NEW s \in Seq(A), NEW i \in 1..Len(w),
         NEW j \in i + 1..Len(w) + 1, j <= Len(w \o s), (w \o s)[j].role # "tool"
  PROVE  Behind(w \o s, i) = Behind(w, i)
<1>1. /\ w \o s \in Seq(A) /\ Len(w \o s) = Len(w) + Len(s)
      /\ Len(w) \in Nat /\ Len(s) \in Nat
      /\ \A k \in 1..Len(w) : (w \o s)[k] = w[k]
  OBVIOUS
<1>2. ASSUME NEW k \in Behind(w \o s, i)
      PROVE  k \in Behind(w, i)
  <2>1. k \in i + 1..Len(w) + Len(s) /\ \A l \in i + 1..k : (w \o s)[l].role = "tool"
    BY <1>1 DEF Behind
  <2>2. ~(j <= k)
    BY <2>1
  <2>3. k \in i + 1..Len(w)
    BY <1>1, <2>1, <2>2
  <2>4. \A l \in i + 1..k : w[l].role = "tool"
    BY <1>1, <2>1, <2>3
  <2>5. QED
    BY <2>3, <2>4 DEF Behind
<1>3. ASSUME NEW k \in Behind(w, i)
      PROVE  k \in Behind(w \o s, i)
  <2>1. k \in i + 1..Len(w) /\ \A l \in i + 1..k : w[l].role = "tool"
    BY DEF Behind
  <2>2. k \in i + 1..Len(w \o s) /\ \A l \in i + 1..k : (w \o s)[l].role = "tool"
    BY <1>1, <2>1
  <2>3. QED
    BY <2>2 DEF Behind
<1>4. QED
  BY <1>2, <1>3

LEMMA BehindIsBehind ==
  ASSUME NEW A, NEW w \in Seq(A), NEW i \in 1..Len(w)
  PROVE  Behind(w, i) \subseteq i + 1..Len(w)
BY DEF Behind

(* So a message that is answered stays answered, and a result has its call.      *)
LEMMA AnsweredStays ==
  ASSUME NEW A, NEW w \in Seq(A), NEW s \in Seq(A), NEW i \in 1..Len(w),
         Behind(w \o s, i) = Behind(w, i), AnsweredAt(w, i)
  PROVE  AnsweredAt(w \o s, i)
<1>1. /\ Len(w \o s) = Len(w) + Len(s) /\ Len(w) \in Nat /\ Len(s) \in Nat
      /\ \A k \in 1..Len(w) : (w \o s)[k] = w[k]
  OBVIOUS
<1>2. Behind(w, i) \subseteq 1..Len(w)
  BY BehindIsBehind
<1>3. Unanswered(w \o s, i) = Unanswered(w, i)
  BY <1>1, <1>2 DEF Unanswered
<1>4. i + 1 \in 1..Len(w) /\ i + 1 \in 1..Len(w \o s)
  BY <1>1 DEF AnsweredAt
<1>5. QED
  BY <1>1, <1>3, <1>4 DEF AnsweredAt

LEMMA CalledStays ==
  ASSUME NEW A, NEW w \in Seq(A), NEW s \in Seq(A), NEW i \in 1..Len(w), CalledBefore(w, i)
  PROVE  CalledBefore(w \o s, i)
<1>1. /\ Len(w \o s) = Len(w) + Len(s) /\ Len(w) \in Nat /\ Len(s) \in Nat
      /\ \A k \in 1..Len(w) : (w \o s)[k] = w[k]
  OBVIOUS
<1>2. ASSUME NEW h \in 1..i - 1, i \in Behind(w, h)
      PROVE  i \in Behind(w \o s, h) /\ (w \o s)[h] = w[h]
  <2>1. i \in h + 1..Len(w) /\ \A l \in h + 1..i : w[l].role = "tool"
    BY <1>2 DEF Behind
  <2>2. i \in h + 1..Len(w \o s) /\ \A l \in h + 1..i : (w \o s)[l].role = "tool"
    BY <1>1, <2>1
  <2>3. QED
    BY <1>1, <2>2 DEF Behind
<1>3. QED
  BY <1>1, <1>2 DEF CalledBefore

LEMMA SequencesJoin ==
  ASSUME NEW s, NEW t, IsSeq(s), IsSeq(t)
  PROVE  IsSeq(s \o t)
<1> DEFINE M == Range(s) \cup Range(t)
<1>1. s \in Seq(M) /\ t \in Seq(M)
  BY SeqMonotonic DEF IsSeq
<1> HIDE DEF M
<1>2. s \o t \in Seq(M)
  BY <1>1
<1>3. QED
  BY <1>2, SeqOfRange DEF IsSeq

LEMMA ResultlessMessage ==
  ASSUME NEW m, m.results = <<>>
  PROVE  ResultsOf(m) = {}
BY DEF ResultsOf

LEMMA OneMessage ==
  ASSUME NEW m
  PROVE  IsSeq(<<m>>)
BY DEF IsSeq, Range

(* An answer added to a wire on which every message is settled leaves it so.     *)
LEMMA AnswerAdded ==
  ASSUME NEW A, NEW w \in Seq(A), NEW m \in A, m.role # "tool", m.results = <<>>,
         Settled(w, Len(w))
  PROVE  /\ Settled(w \o <<m>>, Len(w))
         /\ CalledBefore(w \o <<m>>, Len(w) + 1)
<1>1. /\ <<m>> \in Seq(A) /\ Len(w) \in Nat /\ Len(w \o <<m>>) = Len(w) + 1
      /\ (w \o <<m>>)[Len(w) + 1] = m
      /\ \A k \in 1..Len(w) : (w \o <<m>>)[k] = w[k]
  OBVIOUS
<1>2. ASSUME NEW i \in 1..Len(w)
      PROVE  Fine(w \o <<m>>, i)
  <2>1. /\ Len(w) + 1 \in i + 1..Len(w) + 1 /\ Len(w) + 1 <= Len(w \o <<m>>)
        /\ (w \o <<m>>)[Len(w) + 1].role # "tool" /\ <<m>> \in Seq(A)
    BY <1>1
  <2>2. Behind(w \o <<m>>, i) = Behind(w, i)
    BY <2>1, BehindStays
  <2>3. Fine(w, i)
    BY DEF Settled
  <2>4. AnsweredAt(w, i) => AnsweredAt(w \o <<m>>, i)
    BY <1>1, <2>2, AnsweredStays
  <2>5. CalledBefore(w \o <<m>>, i)
    BY <1>1, <2>3, CalledStays DEF Fine
  <2>6. QED
    BY <1>1, <2>3, <2>4, <2>5 DEF Fine
<1>3. ResultsOf((w \o <<m>>)[Len(w) + 1]) = {}
  BY <1>1 DEF ResultsOf
<1>4. QED
  BY <1>2, <1>3 DEF Settled, CalledBefore

(* The results of the calls that were taken, added behind the message that calls. *)
LEMMA ResultsAdded ==
  ASSUME NEW A, NEW v \in Seq(A), NEW r \in Seq(A), NEW C, NEW c \in Seq(C),
         NEW n \in 1..Len(c),
         n = IF Member /\ strategy = "submit" THEN 1 ELSE Len(c),
         \A j, k \in 1..Len(c) : c[j].id = c[k].id => j = k,
         Len(v) > 0, v[Len(v)] = FromModel(c),
         r = [j \in 1..n |-> FromTools(<<c[j].id>>)],
         Settled(v, Len(v) - 1)
  PROVE  Settled(v \o r, Len(v \o r))
<1> DEFINE p == Len(v)
           w == v \o r
<1>1. /\ p \in Nat /\ p > 0 /\ Len(r) = n /\ Len(w) = p + n /\ n \in Nat /\ Len(c) \in Nat
      /\ \A k \in 1..p : w[k] = v[k]
      /\ \A k \in 1..n : w[p + k] = r[k]
  <2>1. Len(r) = n
    OBVIOUS
  <2>2. QED
    BY <2>1
<1>2. w[p] = FromModel(c) /\ \A j \in 1..n : w[p + j] = FromTools(<<c[j].id>>)
  <2>1. \A j \in 1..n : r[j] = FromTools(<<c[j].id>>)
    OBVIOUS
  <2>2. p \in 1..p
    BY <1>1
  <2>3. QED
    BY <1>1, <2>1, <2>2
<1> HIDE DEF p, w
<1>3. Behind(w, p) = p + 1..p + n
  <2>1. ASSUME NEW k \in p + 1..p + n
        PROVE  w[k].role = "tool"
    <3>1. k - p \in 1..n /\ p + (k - p) = k
      BY <1>1
    <3>2. QED
      BY <1>2, <3>1 DEF FromTools
  <2>2. \A k \in p + 1..p + n : p + 1..k \subseteq p + 1..p + n
    BY <1>1
  <2>3. QED
    BY <1>1, <2>1, <2>2 DEF Behind
<1>4. ASSUME NEW i \in 1..p - 1
      PROVE  Fine(w, i)
  <2>1. i \in 1..Len(v) /\ p \in i + 1..Len(v) + 1 /\ p <= Len(v \o r) /\ (v \o r)[p].role # "tool"
    BY <1>1, <1>2 DEF p, w, FromModel
  <2>2. Behind(w, i) = Behind(v, i)
    BY <2>1, BehindStays DEF w
  <2>3. Fine(v, i) /\ w[i] = v[i]
    BY <1>1, <2>1 DEF Settled, p
  <2>4. AnsweredAt(v, i) => AnsweredAt(w, i)
    BY <2>1, <2>2, AnsweredStays DEF w
  <2>5. CalledBefore(w, i)
    BY <2>1, <2>3, CalledStays DEF Fine, w
  <2>6. QED
    BY <2>3, <2>4, <2>5 DEF Fine
<1>5. Fine(w, p)
  <2>1. w[p].calls = c /\ w[p].results = <<>> /\ DOMAIN c = 1..Len(c)
    BY <1>2 DEF FromModel
  <2>2. ASSUME NEW k \in p + 1..p + n
        PROVE  ResultsOf(w[k]) = {c[k - p].id}
    <3>1. k - p \in 1..n /\ p + (k - p) = k
      BY <1>1
    <3>2. w[k].results = <<c[k - p].id>>
      BY <1>2, <3>1 DEF FromTools
    <3>3. QED
      BY <3>2 DEF ResultsOf
  <2>3. ASSUME NEW j \in 1..Len(c)
        PROVE  (j \in Unanswered(w, p)) <=> (j > n)
    <3>1. (j \in Unanswered(w, p)) <=> \A k \in p + 1..p + n : c[j].id # c[k - p].id
      <4>1. Unanswered(w, p) =
              {l \in 1..Len(c) : \A k \in p + 1..p + n : c[l].id \notin ResultsOf(w[k])}
        BY <1>3, <2>1 DEF Unanswered
      <4>2. ASSUME NEW k \in p + 1..p + n
            PROVE  c[j].id \notin ResultsOf(w[k]) <=> c[j].id # c[k - p].id
        <5>1. ResultsOf(w[k]) = {c[k - p].id}
          BY <2>2
        <5>2. QED
          BY <5>1
      <4>3. (j \in Unanswered(w, p)) <=> \A k \in p + 1..p + n : c[j].id \notin ResultsOf(w[k])
        BY <4>1, Zenon
      <4>4. QED
        BY <4>2, <4>3
    <3>2. ASSUME j <= n
          PROVE  j \notin Unanswered(w, p)
      <4>1. p + j \in p + 1..p + n /\ (p + j) - p = j
        BY <1>1, <3>2
      <4>2. QED
        BY <3>1, <4>1
    <3>3. ASSUME j > n, NEW k \in p + 1..p + n
          PROVE  c[j].id # c[k - p].id
      <4>1. k - p \in 1..Len(c) /\ k - p # j
        BY <1>1, <3>3
      <4>2. QED
        BY <4>1
    <3>4. QED
      BY <1>1, <3>1, <3>2, <3>3
  <2>4. Unanswered(w, p) = n + 1..Len(c)
    <3>1. Unanswered(w, p) \subseteq 1..Len(c)
      BY <2>1 DEF Unanswered
    <3>2. n + 1..Len(c) \subseteq 1..Len(c) /\ \A j \in 1..Len(c) : (j > n) <=> (j \in n + 1..Len(c))
      BY <1>1
    <3>3. QED
      BY <2>3, <3>1, <3>2
  <2>5. Unanswered(w, p) = IF Member /\ strategy = "submit" THEN 2..Len(w[p].calls) ELSE {}
    <3>1. CASE Member /\ strategy = "submit"
      BY <2>1, <2>4, <3>1
    <3>2. CASE ~(Member /\ strategy = "submit")
      <4>1. n = Len(c) /\ n + 1..Len(c) = {}
        BY <1>1, <3>2
      <4>2. QED
        BY <2>4, <3>2, <4>1
    <3>3. QED
      BY <3>1, <3>2
  <2>6. p + 1 \in 1..Len(w) /\ w[p + 1].results = <<w[p].calls[1].id>>
    <3>1. 1 \in 1..n
      BY <1>1
    <3>2. w[p + 1] = FromTools(<<c[1].id>>)
      BY <1>2, <3>1
    <3>3. w[p + 1].results = <<c[1].id>>
      BY <3>2 DEF FromTools
    <3>4. p + 1 \in 1..Len(w)
      BY <1>1
    <3>5. QED
      BY <2>1, <3>3, <3>4
  <2>7. CalledBefore(w, p)
    <3>1. ResultsOf(w[p]) = {}
      BY <2>1, ResultlessMessage
    <3>2. QED
      BY <3>1 DEF CalledBefore
  <2>8. QED
    BY <2>5, <2>6, <2>7 DEF Fine, AnsweredAt
<1>6. ASSUME NEW i \in p + 1..p + n
      PROVE  Fine(w, i)
  <2>1. i - p \in 1..n /\ i - p \in 1..Len(c) /\ p + (i - p) = i /\ p \in 1..i - 1
    BY <1>1
  <2>2. w[i].calls = <<>> /\ w[i].results = <<c[i - p].id>>
    <3>1. w[p + (i - p)] = FromTools(<<c[i - p].id>>)
      BY <1>2, <2>1
    <3>2. w[i] = FromTools(<<c[i - p].id>>)
      BY <2>1, <3>1
    <3>3. QED
      BY <3>2 DEF FromTools
  <2>3. ResultsOf(w[i]) = {c[i - p].id}
    BY <2>2 DEF ResultsOf
  <2>4. c[i - p].id \in CallsOf(w[p])
    BY <1>2, <2>1 DEF CallsOf, FromModel
  <2>5. QED
    BY <1>3, <2>1, <2>2, <2>3, <2>4 DEF Fine, CalledBefore
<1>7. 1..Len(w) = 1..p - 1 \cup {p} \cup p + 1..p + n
  BY <1>1
<1>8. QED
  BY <1>4, <1>5, <1>6, <1>7 DEF Settled, w

(* The wire a dialogue begins with.                                           *)
LEMMA FirstWire == Wire(<<FromUser>>) = <<FromUser>>
<1>1. Wire(<<>>) = <<>>
  <2>1. Len(<<>>) = 0 /\ 0 \in Nat
    OBVIOUS
  <2>2. PICK f : Steps(f, <<>>, 0) /\ Wire(<<>>) = f[0]
    BY <2>1, WireSteps
  <2>3. 0 \in 0..0
    OBVIOUS
  <2>4. QED
    BY <2>2, <2>3 DEF Steps
<1>2. Sent(FromUser) = <<FromUser>>
  BY DEF Sent, FromUser
<1>3. <<>> \in Seq({}) /\ Append(<<>>, FromUser) = <<FromUser>>
  OBVIOUS
<1>4. Wire(Append(<<>>, FromUser)) = Wire(<<>>) \o Sent(FromUser)
  BY <1>3, WireAppends
<1>5. QED
  BY <1>1, <1>2, <1>3, <1>4

LEMMA DialogueStarts == DialogueInit => DialogueInv
<1> SUFFICES ASSUME DialogueInit PROVE DialogueInv
  OBVIOUS
<1>1. dialogue = <<FromUser>> /\ Wire(dialogue) = <<FromUser>> /\ answer.calls = <<>> /\ stage = "new"
  BY FirstWire DEF DialogueInit, NoAnswer
<1>2. IsSeq(<<FromUser>>) /\ IsSeq(<<>>)
  BY OneMessage DEF IsSeq
<1>3. Settled(<<FromUser>>, 1)
  <2>1. FromUser.calls = <<>> /\ FromUser.results = <<>>
    BY DEF FromUser
  <2>2. \A i \in 1..1 : <<FromUser>>[i] = FromUser
    OBVIOUS
  <2>3. QED
    BY <2>1, <2>2, ResultlessMessage DEF Settled, Fine, CalledBefore
<1>4. Len(<<FromUser>>) = 1 /\ Len(<<>>) = 0 /\ 1..0 = {} /\ ~AwaitsResults
  BY <1>1 DEF AwaitsResults
<1>5. QED
  BY <1>1, <1>2, <1>3, <1>4 DEF DialogueInv

(* What a message becomes on the wire is a sequence, of at least one.            *)
LEMMA SentAnswer ==
  ASSUME NEW c
  PROVE  Sent(FromModel(c)) = <<FromModel(c)>>
BY DEF Sent, FromModel

LEMMA SentResults ==
  ASSUME NEW n \in Nat, n > 0, NEW ids, ids \in Seq(Range(ids)), Len(ids) = n
  PROVE  /\ Sent(FromTools(ids)) = [j \in 1..n |-> FromTools(<<ids[j]>>)]
         /\ IsSeq(Sent(FromTools(ids)))
<1>1. ids # <<>> /\ FromTools(ids).results = ids
  BY DEF FromTools
<1>2. Sent(FromTools(ids)) = [j \in 1..n |-> FromTools(<<ids[j]>>)]
  BY <1>1 DEF Sent
<1>3. [j \in 1..n |-> FromTools(<<ids[j]>>)] \in Seq({FromTools(<<ids[j]>>) : j \in 1..n})
  OBVIOUS
<1>4. QED
  BY <1>2, <1>3, SeqOfRange DEF IsSeq

(* Whether a message is settled depends on the loop alone.                      *)
LEMMA SameLoop ==
  ASSUME UNCHANGED <<speaker, strategy>>, NEW n, Settled(Wire(dialogue'), n)
  PROVE  Settled(Wire(dialogue), n)'
BY DEF Settled, Fine, AnsweredAt, CalledBefore, Unanswered, Behind, Member, ResultsOf, CallsOf

(* A dialogue that has ended, or goes on as it was, keeps the invariant.        *)
LEMMA DialogueKept ==
  ASSUME DialogueInv, UNCHANGED <<speaker, strategy, dialogue, answer>>,
         \/ stage' \notin {"new", "asked", "answered"}
         \/ stage \in {"new", "asked"} /\ stage' \in {"new", "asked"}
         \/ stage' = stage
  PROVE  DialogueInv'
<1>1. Wire(dialogue') = Wire(dialogue) /\ dialogue' = dialogue /\ answer' = answer
  OBVIOUS
<1>2. \A n : Settled(Wire(dialogue), n) => Settled(Wire(dialogue), n)'
  <2>1. SUFFICES ASSUME NEW n, Settled(Wire(dialogue), n)
                PROVE  Settled(Wire(dialogue), n)'
    OBVIOUS
  <2>2. Settled(Wire(dialogue'), n)
    BY <1>1, <2>1
  <2>3. QED
    BY <2>2, SameLoop
<1>3. CASE stage' \notin {"new", "asked", "answered"}
  BY <1>1, <1>3 DEF DialogueInv, AwaitsResults
<1>4. CASE stage \in {"new", "asked"} /\ stage' \in {"new", "asked"}
  BY <1>1, <1>2, <1>4 DEF DialogueInv, AwaitsResults, Member
<1>5. CASE stage' = stage
  BY <1>1, <1>2, <1>5 DEF DialogueInv, AwaitsResults, Member
<1>6. QED
  BY <1>3, <1>4, <1>5

(* What is written into a dialogue is written onto its wire.                   *)
LEMMA WrittenToWire ==
  ASSUME IsSeq(dialogue), IsSeq(Wire(dialogue)), NEW m, IsSeq(Sent(m))
  PROVE  /\ IsSeq(Append(dialogue, m))
         /\ Wire(Append(dialogue, m)) = Wire(dialogue) \o Sent(m)
         /\ IsSeq(Wire(dialogue) \o Sent(m))
<1>1. Append(dialogue, m) = dialogue \o <<m>>
  BY AppendIsConcat DEF IsSeq
<1>2. IsSeq(Append(dialogue, m))
  BY <1>1, OneMessage, SequencesJoin
<1>3. Wire(Append(dialogue, m)) = Wire(dialogue) \o Sent(m)
  BY WireAppends DEF IsSeq
<1>4. QED
  BY <1>2, <1>3, SequencesJoin

LEMMA AnswerWritten ==
  ASSUME IsSeq(dialogue), IsSeq(Wire(dialogue)), Settled(Wire(dialogue), Len(Wire(dialogue))),
         NEW c, NEW d, d = Append(dialogue, FromModel(c))
  PROVE  /\ IsSeq(d) /\ IsSeq(Wire(d)) /\ Len(Wire(d)) = Len(Wire(dialogue)) + 1
         /\ Len(Wire(d)) \in Nat /\ Len(Wire(d)) > 0
         /\ Wire(d)[Len(Wire(d))] = FromModel(c)
         /\ Settled(Wire(d), Len(Wire(d)) - 1)
         /\ CalledBefore(Wire(d), Len(Wire(d)))
<1> DEFINE w == Wire(dialogue)
           A == Range(w) \cup {FromModel(c)}
<1>1. Sent(FromModel(c)) = <<FromModel(c)>> /\ IsSeq(<<FromModel(c)>>)
  BY SentAnswer, OneMessage
<1>2. IsSeq(d) /\ Wire(d) = w \o <<FromModel(c)>> /\ IsSeq(Wire(d))
  BY <1>1, WrittenToWire
<1>3. w \in Seq(A) /\ FromModel(c) \in A
  BY SeqMonotonic DEF IsSeq
<1> HIDE DEF A
<1>4. FromModel(c).role # "tool" /\ FromModel(c).results = <<>>
  BY DEF FromModel
<1>5. Settled(Wire(d), Len(w)) /\ CalledBefore(Wire(d), Len(w) + 1)
  BY <1>2, <1>3, <1>4, AnswerAdded
<1> HIDE DEF w
<1>6. Len(w) \in Nat /\ Len(Wire(d)) = Len(w) + 1 /\ Wire(d)[Len(w) + 1] = FromModel(c)
  BY <1>2, <1>3
<1>7. Len(Wire(d)) - 1 = Len(w) /\ Len(Wire(d)) \in Nat /\ Len(Wire(d)) > 0
  BY <1>6
<1>8. QED
  BY <1>2, <1>5, <1>6, <1>7 DEF w

LEMMA SettledSoFar ==
  ASSUME DialogueInv, stage \in {"new", "asked", "answered"}, ~AwaitsResults
  PROVE  /\ IsSeq(dialogue) /\ IsSeq(Wire(dialogue))
         /\ Settled(Wire(dialogue), Len(Wire(dialogue)))
BY DEF DialogueInv

LEMMA CallsWritten ==
  ASSUME NEW k \in Nat, NEW names \in [1..k -> Written]
  PROVE  /\ IsSeq(Calls(names))
         /\ \A i, j \in 1..Len(Calls(names)) : Calls(names)[i].id = Calls(names)[j].id => i = j
<1> DEFINE c == Calls(names)
           S == {c[i] : i \in 1..k}
<1>1. c = [i \in 1..k |-> c[i]] /\ \A i \in 1..k : c[i].id = <<Len(dialogue), i>>
  BY DEF Calls
<1> HIDE DEF c
<1>2. c \in Seq(S) /\ Len(c) = k
  BY <1>1
<1>3. QED
  BY <1>1, <1>2, SeqOfRange DEF IsSeq, c

LEMMA ModelAnswersKeeps ==
  ASSUME DialogueInv, NEW k \in Nat, NEW names \in [1..k -> Written], NEW submits,
         ModelAnswers(names, submits)
  PROVE  DialogueInv'
<1>1. /\ stage = "asked" /\ stage' = "answered" /\ answer'.calls = Calls(names)
      /\ dialogue' = Told(Calls(names))
      /\ UNCHANGED <<speaker, strategy>>
  BY DEF ModelAnswers
<1>2. /\ IsSeq(answer'.calls)
      /\ \A i, j \in 1..Len(answer'.calls) : answer'.calls[i].id = answer'.calls[j].id => i = j
  BY <1>1, CallsWritten
<1>3. /\ IsSeq(dialogue) /\ IsSeq(Wire(dialogue))
      /\ Settled(Wire(dialogue), Len(Wire(dialogue)))
  BY <1>1, SettledSoFar DEF AwaitsResults
<1>4. CASE Member
  <2>1. dialogue' = Append(dialogue, FromModel(answer'.calls))
    BY <1>1, <1>4 DEF Told, Member
  <2>2. /\ IsSeq(dialogue') /\ IsSeq(Wire(dialogue')) /\ Len(Wire(dialogue')) > 0
        /\ Wire(dialogue')[Len(Wire(dialogue'))] = FromModel(answer'.calls)
        /\ Settled(Wire(dialogue'), Len(Wire(dialogue')) - 1)
    BY <1>3, <2>1, AnswerWritten
  <2>3. Settled(Wire(dialogue), Len(Wire(dialogue)) - 1)'
    <3>1. \A n : Settled(Wire(dialogue'), n) => Settled(Wire(dialogue), n)'
      BY <1>1, SameLoop
    <3>2. QED
      BY <2>2, <3>1 DEF Settled
  <2>4. AwaitsResults'
    BY <1>1, <1>4 DEF AwaitsResults, Member
  <2>5. QED
    BY <1>2, <2>2, <2>3, <2>4 DEF DialogueInv, IsSeq
<1>5. CASE ~Member
  <2>1. dialogue' = dialogue /\ ~AwaitsResults'
    BY <1>1, <1>5 DEF Told, Member, AwaitsResults
  <2>2. Settled(Wire(dialogue), Len(Wire(dialogue)))'
    <3>1. \A n : Settled(Wire(dialogue'), n) => Settled(Wire(dialogue), n)'
      BY <1>1, SameLoop
    <3>2. QED
      BY <1>3, <2>1, <3>1 DEF Settled
  <2>3. QED
    BY <1>2, <1>3, <2>1, <2>2 DEF DialogueInv, IsSeq
<1>6. QED
  BY <1>4, <1>5

LEMMA IdlesKeeps ==
  ASSUME DialogueInv, Idles
  PROVE  DialogueInv'
<1>1. /\ stage = "answered" /\ ~Member /\ stage' = "asked"
      /\ dialogue' = Append(dialogue, FromModel(<<>>))
      /\ UNCHANGED <<speaker, strategy, answer>>
  BY DEF Idles
<1>2. /\ IsSeq(dialogue) /\ IsSeq(Wire(dialogue))
      /\ Settled(Wire(dialogue), Len(Wire(dialogue)))
  BY <1>1, SettledSoFar DEF AwaitsResults
<1>3. /\ IsSeq(dialogue') /\ IsSeq(Wire(dialogue'))
      /\ Len(Wire(dialogue')) \in Nat /\ Len(Wire(dialogue')) > 0
      /\ Wire(dialogue')[Len(Wire(dialogue'))] = FromModel(<<>>)
      /\ Settled(Wire(dialogue'), Len(Wire(dialogue')) - 1)
      /\ CalledBefore(Wire(dialogue'), Len(Wire(dialogue')))
  BY <1>1, <1>2, AnswerWritten
<1>4. Settled(Wire(dialogue'), Len(Wire(dialogue')))
  <2> DEFINE w == Wire(dialogue')
             n == Len(w)
  <2>1. Fine(w, n)
    BY <1>3 DEF Fine, FromModel
  <2> HIDE DEF w, n
  <2>2. n \in Nat /\ n > 0 /\ Settled(w, n - 1)
    BY <1>3 DEF w, n
  <2>3. 1..n = 1..n - 1 \cup {n}
    BY <2>2
  <2>4. Settled(w, n)
    BY <2>1, <2>2, <2>3 DEF Settled
  <2>5. QED
    BY <2>4 DEF n, w
<1>5. Settled(Wire(dialogue), Len(Wire(dialogue)))'
  <2>1. \A n : Settled(Wire(dialogue'), n) => Settled(Wire(dialogue), n)'
    BY <1>1, SameLoop
  <2>2. QED
    BY <1>4, <2>1
<1>6. ~AwaitsResults'
  BY <1>1 DEF AwaitsResults
<1>7. QED
  BY <1>1, <1>3, <1>5, <1>6 DEF DialogueInv, IsSeq

(* The calls that are taken are the first of those that the last message calls.  *)
LEMMA ActsOnCallsKeeps ==
  ASSUME DialogueInv, ActsOnCalls
  PROVE  DialogueInv'
<1> DEFINE t == Taken
           c == IF Member THEN answer.calls ELSE Taken
           n == IF Member /\ strategy = "submit" THEN 1 ELSE Len(c)
           ids == [i \in DOMAIN t |-> t[i].id]
<1>1. /\ stage = "answered" /\ answer.calls # <<>> /\ stage' = "asked"
      /\ dialogue' = Append(Noted, FromTools(ids))
      /\ UNCHANGED <<speaker, strategy, answer>>
  BY DEF ActsOnCalls, Acting, Calling
<1>2. /\ IsSeq(answer.calls) /\ IsSeq(dialogue) /\ IsSeq(Wire(dialogue))
      /\ \A j, k \in 1..Len(answer.calls) : answer.calls[j].id = answer.calls[k].id => j = k
  BY DEF DialogueInv
<1>3. /\ c \in Seq(Range(answer.calls)) /\ n \in 1..Len(c) /\ n \in Nat
      /\ \A j, k \in 1..Len(c) : c[j].id = c[k].id => j = k
      /\ t \in Seq(Range(answer.calls)) /\ Len(t) = n /\ \A i \in 1..n : t[i] = c[i]
  <2>1. /\ answer.calls \in Seq(Range(answer.calls)) /\ Len(answer.calls) \in Nat
        /\ Len(answer.calls) > 0 /\ answer.calls[1] \in Range(answer.calls)
        /\ Head(answer.calls) = answer.calls[1]
    BY <1>1, <1>2 DEF IsSeq
  <2>2. CASE strategy = "submit"
    <3>1. t = <<answer.calls[1]>>
      BY <2>1, <2>2 DEF Taken
    <3>2. t \in Seq(Range(answer.calls)) /\ Len(t) = 1 /\ t[1] = answer.calls[1]
      BY <2>1, <3>1
    <3>3. CASE Member
      <4>1. c = answer.calls /\ n = 1
        BY <2>2, <3>3
      <4>2. QED
        BY <1>2, <2>1, <3>2, <4>1
    <3>4. CASE ~Member
      <4>1. c = t /\ n = 1 /\ Len(c) = 1
        BY <3>2, <3>4
      <4> HIDE DEF c, n, t
      <4>2. /\ 1 \in 1..Len(c) /\ \A j, k \in 1..Len(c) : j = k
            /\ \A i \in 1..n : t[i] = c[i]
        BY <4>1
      <4>3. QED
        BY <3>2, <4>1, <4>2
    <3>5. QED
      BY <3>3, <3>4
  <2>3. CASE strategy # "submit"
    <3>1. t = answer.calls /\ c = answer.calls /\ n = Len(answer.calls)
      BY <2>3 DEF Taken
    <3>2. QED
      BY <1>2, <2>1, <3>1
  <2>4. QED
    BY <2>2, <2>3
<1> HIDE DEF t, c, n
<1>4. /\ DOMAIN t = 1..n /\ ids \in Seq(Range(ids)) /\ Len(ids) = n /\ n > 0
      /\ \A i \in 1..n : ids[i] = c[i].id
  <2>1. DOMAIN t = 1..n
    BY <1>3
  <2>2. ids = [i \in 1..n |-> c[i].id]
    BY <1>3, <2>1
  <2> HIDE DEF ids
  <2> DEFINE S == {c[i].id : i \in 1..n}
  <2>3. ids \in Seq(S) /\ Len(ids) = n /\ \A i \in 1..n : ids[i] = c[i].id
    <3>1. n \in Nat /\ \A i \in 1..n : c[i].id \in S
      BY <1>3
    <3> HIDE DEF S
    <3>2. QED
      BY <2>2, <3>1
  <2>4. ids \in Seq(Range(ids))
    BY <2>3, SeqOfRange
  <2>5. QED
    BY <1>3, <2>1, <2>3, <2>4
<1> HIDE DEF ids
<1> DEFINE r == Sent(FromTools(ids))
<1>5. r = [j \in 1..n |-> FromTools(<<c[j].id>>)] /\ IsSeq(r)
  <2>1. r = [j \in 1..n |-> FromTools(<<ids[j]>>)] /\ IsSeq(r)
    BY <1>3, <1>4, SentResults
  <2>2. QED
    BY <1>4, <2>1
<1> DEFINE v == Wire(Noted)
<1>6. /\ IsSeq(Noted) /\ IsSeq(v) /\ Len(v) > 0 /\ v[Len(v)] = FromModel(c)
      /\ Settled(v, Len(v) - 1)
  <2>1. CASE Member
    <3>1. Noted = dialogue /\ c = answer.calls /\ AwaitsResults
      BY <1>1, <2>1 DEF Noted, c, AwaitsResults
    <3>2. QED
      BY <1>2, <3>1 DEF DialogueInv
  <2>2. CASE ~Member
    <3>1. Noted = Append(dialogue, FromModel(c))
      BY <2>2 DEF Noted, c
    <3>2. Settled(Wire(dialogue), Len(Wire(dialogue)))
      BY <1>1, <2>2, SettledSoFar DEF AwaitsResults
    <3>3. QED
      BY <1>2, <3>1, <3>2, AnswerWritten
  <2>3. QED
    BY <2>1, <2>2
<1>7. /\ IsSeq(dialogue') /\ Wire(dialogue') = v \o r /\ IsSeq(v \o r)
  <2>1. Append(Noted, FromTools(ids)) = Noted \o <<FromTools(ids)>>
    BY <1>6, AppendIsConcat DEF IsSeq
  <2>2. IsSeq(Append(Noted, FromTools(ids)))
    BY <1>6, <2>1, OneMessage, SequencesJoin
  <2>3. Wire(Append(Noted, FromTools(ids))) = v \o r
    BY <1>6, WireAppends DEF IsSeq
  <2>4. QED
    BY <1>1, <1>5, <1>6, <2>2, <2>3, SequencesJoin
<1>8. Settled(v \o r, Len(v \o r))
  <2> DEFINE A == Range(v) \cup Range(r)
  <2>1. Range(v) \subseteq A /\ Range(r) \subseteq A
    OBVIOUS
  <2> HIDE DEF A, v, r
  <2>2. v \in Seq(A) /\ r \in Seq(A)
    BY <1>5, <1>6, <2>1, SeqMonotonic DEF IsSeq
  <2>3. n = IF Member /\ strategy = "submit" THEN 1 ELSE Len(c)
    BY DEF n
  <2>4. QED
    BY <1>3, <1>5, <1>6, <2>2, <2>3, ResultsAdded
<1>9. Settled(Wire(dialogue), Len(Wire(dialogue)))'
  <2>1. \A k : Settled(Wire(dialogue'), k) => Settled(Wire(dialogue), k)'
    BY <1>1, SameLoop
  <2> HIDE DEF v, r
  <2>2. QED
    BY <1>7, <1>8, <2>1
<1>10. ~AwaitsResults'
  BY <1>1 DEF AwaitsResults
<1> HIDE DEF v, r
<1>11. QED
  BY <1>1, <1>2, <1>7, <1>9, <1>10 DEF DialogueInv, IsSeq

LEMMA DialogueSteps == DialogueInv /\ [DialogueNext]_dialogueVars => DialogueInv'
<1> SUFFICES ASSUME DialogueInv, [DialogueNext]_dialogueVars
             PROVE  DialogueInv'
  OBVIOUS
<1>1. CASE NodeAsks
  BY <1>1, DialogueKept DEF NodeAsks, Ends
<1>2. ASSUME NEW s \in Selections, MemberAsks(s) \/ MemberLacksTools(s)
      PROVE  DialogueInv'
  BY <1>2, DialogueKept DEF MemberAsks, MemberLacksTools, Ends
<1>3. ASSUME NEW n \in 0..MaxCalls, NEW names \in [1..n -> Written], NEW submits \in BOOLEAN,
             ModelAnswers(names, submits)
      PROVE  DialogueInv'
  <2>1. n \in Nat
    BY ModelDialogueAssumption
  <2>2. QED
    BY <1>3, <2>1, ModelAnswersKeeps
<1>4. CASE ModelFails \/ CallsWithoutTools \/ Submits \/ AnswersPlainly
  BY <1>4, DialogueKept DEF ModelFails, CallsWithoutTools, Submits, AnswersPlainly, Ends
<1>5. CASE Idles
  BY <1>5, IdlesKeeps
<1>6. CASE Unauthorized \/ RecordFails \/ OutOfTurns
  BY <1>6, DialogueKept DEF Unauthorized, RecordFails, OutOfTurns, Ends
<1>7. CASE ActsOnCalls
  BY <1>7, ActsOnCallsKeeps
<1>8. CASE DialogueOver \/ UNCHANGED dialogueVars
  BY <1>8, DialogueKept DEF DialogueOver, dialogueVars
<1>9. QED
  BY <1>1, <1>2, <1>3, <1>4, <1>5, <1>6, <1>7, <1>8 DEF DialogueNext

(* Whatever a model calls and whenever, in any loop and with any tools, names   *)
(* and number of turns, what it is sent next has the result of every call behind *)
(* the message that makes it, and the result of nothing else; of a member that   *)
(* takes one action per turn, the result of the first call (subagent_spawn.py,   *)
(* collaboration_member_strategy.py, openai_compatible_support.py).            *)
THEOREM CallsAreAnswered == DialogueSpec => []EveryCallIsAnswered
<1>1. DialogueInv => EveryCallIsAnswered
  BY DEF DialogueInv, AwaitsResults, EveryCallIsAnswered, Settled, Fine
<1>2. QED
  BY <1>1, DialogueStarts, DialogueSteps, PTL DEF DialogueSpec

------------------------------------------------------------------------------
(* The names of tools (ModelDialogue!ProviderNames, a recursive function too).   *)

(* A name is made unique by the first number that is free.                      *)
LEMMA UniqueIsNew ==
  ASSUME NEW P, Nat \subseteq P, NEW name \in Seq(P), NEW used, IsFiniteSet(used)
  PROVE  Unique(name, used) \notin used /\ Unique(name, used) \in Seq(P)
<1>1. CASE name \notin used
  BY <1>1 DEF Unique
<1>2. CASE name \in used
  <2> DEFINE c == Cardinality(used)
             K == 2..c + 2
             N(k) == Append(name, k)
             T == {k \in K : N(k) \notin used}
  <2>1. c \in Nat
    BY FS_CardinalityType
  <2> HIDE DEF c
  <2>2. /\ \A k \in K : N(k) \in Seq(P)
        /\ \A j, k \in K : N(j) = N(k) => j = k
    <3>1. ASSUME NEW k \in K
          PROVE  N(k) \in Seq(P) /\ N(k)[Len(name) + 1] = k
      <4>1. k \in P
        BY <2>1
      <4>2. QED
        BY <4>1
    <3>2. QED
      BY <3>1
  <2>3. T # {}
    <3>1. SUFFICES ASSUME T = {} PROVE FALSE
      OBVIOUS
    <3> DEFINE f == [k \in K |-> N(k)]
    <3>2. \A k \in K : N(k) \in used
      BY <3>1
    <3>3. f \in [K -> used] /\ \A k \in K : f[k] = N(k)
      BY <3>2
    <3>4. IsFiniteSet(K) /\ Cardinality(K) = c + 1
      BY <2>1, FS_Interval
    <3>5. c < Cardinality(K)
      BY <2>1, <3>4
    <3> HIDE DEF f, K
    <3>6. \E j, k \in K : j # k /\ f[j] = f[k]
      BY <3>3, <3>4, <3>5, FS_PigeonHole DEF c
    <3>7. QED
      BY <2>2, <3>3, <3>6
  <2>4. PICK k \in T : \A j \in T : k <= j
    <3>1. T \in SUBSET Nat
      BY <2>1
    <3> HIDE DEF T
    <3>2. QED
      BY <2>3, <3>1, LeastNumber
  <2>5. /\ k \in K /\ N(k) \notin used
        /\ \A j \in 2..k - 1 : N(j) \in used
    <3>1. \A j \in 2..k - 1 : j \in K /\ ~(k <= j)
      BY <2>1, <2>4
    <3>2. QED
      BY <2>4, <3>1
  <2> DEFINE Free(l) == N(l) \notin used /\ \A j \in 2..l - 1 : N(j) \in used
             l == CHOOSE x \in K : Free(x)
  <2>6. \E x \in K : Free(x)
    BY <2>5
  <2>7. Unique(name, used) = N(l)
    BY <1>2 DEF Unique, c
  <2> HIDE DEF K, N
  <2>8. l \in K /\ Free(l)
    BY <2>6
  <2>9. QED
    BY <2>2, <2>7, <2>8
<1>3. QED
  BY <1>1, <1>2

(* the names of the first tools of o, one after the other                       *)
Names(f, o, n) ==
  f = [i \in 0..n |-> IF i = 0 THEN <<>>
                      ELSE Append(f[i - 1], Unique(Cleaned[o[i]], Range(f[i - 1])))]

LEMMA NamesExist ==
  ASSUME NEW o, NEW n \in Nat
  PROVE  \E f : Names(f, o, n)
<1> DEFINE T == {k \in Nat : ~ \E f : Names(f, o, k)}
<1>1. ASSUME NEW k \in T, \A j \in T : k <= j
      PROVE  FALSE
  <2>1. CASE k = 0
    <3>1. 0..0 = {0}
      OBVIOUS
    <3>2. Names([i \in 0..0 |-> <<>>], o, 0)
      BY <3>1 DEF Names
    <3>3. QED
      BY <2>1, <3>2
  <2>2. CASE k # 0
    <3>1. k - 1 \in Nat /\ k - 1 \notin T
      BY <1>1, <2>2
    <3>2. PICK f : Names(f, o, k - 1)
      BY <3>1
    <3> DEFINE Longer(h, i) == Append(h[i - 1], Unique(Cleaned[o[i]], Range(h[i - 1])))
               g == [i \in 0..k |-> IF i = k THEN Longer(f, k) ELSE f[i]]
    <3>3. ASSUME NEW i \in 0..k
          PROVE  g[i] = IF i = 0 THEN <<>> ELSE Longer(g, i)
      <4>1. CASE i = k
        <5>1. i - 1 \in 0..k /\ i - 1 # k
          BY <2>2, <4>1
        <5>2. g[i] = Longer(f, k) /\ g[i - 1] = f[k - 1]
          BY <4>1, <5>1
        <5> HIDE DEF g
        <5>3. QED
          BY <2>2, <4>1, <5>2
      <4>2. CASE i # k
        <5>1. i \in 0..k - 1 /\ (i # 0 => i - 1 \in 0..k /\ i - 1 # k)
          BY <4>2
        <5>2. g[i] = f[i] /\ (i # 0 => g[i - 1] = f[i - 1])
          BY <4>2, <5>1
        <5>3. f[i] = IF i = 0 THEN <<>> ELSE Longer(f, i)
          BY <3>2, <5>1 DEF Names
        <5> HIDE DEF g
        <5>4. QED
          BY <5>2, <5>3
      <4>3. QED
        BY <4>1, <4>2
    <3>4. g = [i \in 0..k |-> g[i]]
      OBVIOUS
    <3> HIDE DEF g
    <3>5. Names(g, o, k)
      BY <3>3, <3>4 DEF Names
    <3>6. QED
      BY <3>5
  <2>3. QED
    BY <2>1, <2>2
<1>2. T = {}
  <2> HIDE DEF T
  <2>1. T \in SUBSET Nat
    BY DEF T
  <2>2. QED
    BY <1>1, <2>1, LeastNumber
<1>3. QED
  BY <1>2

LEMMA NamesSteps ==
  ASSUME NEW o, Len(o) \in Nat
  PROVE  \E f : Names(f, o, Len(o)) /\ ProviderNames(o) = f[Len(o)]
<1> DEFINE f == CHOOSE f : Names(f, o, Len(o))
<1>1. Names(f, o, Len(o))
  BY NamesExist
<1>2. ProviderNames(o) = f[Len(o)]
  BY DEF ProviderNames, Names
<1>3. QED
  BY <1>1, <1>2

(* names that can be given a number, and n names that differ                     *)
Proper(P, o, n) == Nat \subseteq P /\ \A i \in 1..n : Cleaned[o[i]] \in Seq(P)
Differ(P, s, n) ==
  s \in Seq(Seq(P)) /\ Len(s) = n /\ \A j, k \in 1..n : s[j] = s[k] => j = k

(* Each of the first names is another one.                                     *)
LEMMA NamesDiffer ==
  ASSUME NEW P, NEW n \in Nat, NEW o, Proper(P, o, n), NEW f, Names(f, o, n), NEW i \in 0..n
  PROVE  Differ(P, f[i], i)
<1> DEFINE Ok(l) == Differ(P, f[l], l)
           T == {l \in 0..n : ~Ok(l)}
<1>1. ASSUME NEW l \in T, \A j \in T : l <= j
      PROVE  FALSE
  <2>1. l \in 0..n
    OBVIOUS
  <2>2. CASE l = 0
    <3>1. f[l] = <<>>
      BY <2>1, <2>2 DEF Names
    <3>2. Ok(l)
      BY <2>2, <3>1 DEF Differ
    <3>3. QED
      BY <3>2
  <2>3. CASE l # 0
    <3> DEFINE s == f[l - 1]
               u == Unique(Cleaned[o[l]], Range(s))
    <3>1. l - 1 \in 0..n /\ l - 1 \notin T /\ l \in 1..n
      BY <1>1, <2>1, <2>3
    <3>2. Ok(l - 1)
      BY <3>1
    <3>3. f[l] = Append(s, u)
      BY <2>1, <2>3 DEF Names
    <3> HIDE DEF s
    <3>4. s \in Seq(Seq(P)) /\ Len(s) = l - 1 /\ \A j, k \in 1..l - 1 : s[j] = s[k] => j = k
      BY <3>2 DEF s, Differ
    <3>5. IsFiniteSet(Range(s))
      <4>1. s \in Surjection(1..l - 1, Range(s))
        BY <3>4 DEF Surjection, Range
      <4>2. IsFiniteSet(1..l - 1)
        BY <2>1, FS_Interval
      <4>3. QED
        BY <4>1, <4>2, FS_Surjection
    <3>6. u \notin Range(s) /\ u \in Seq(P)
      BY <3>1, <3>5, UniqueIsNew DEF Proper
    <3> HIDE DEF u
    <3>7. \A j \in 1..l - 1 : s[j] # u
      BY <3>4, <3>6 DEF Range
    <3>8. f[l] \in Seq(Seq(P)) /\ Len(f[l]) = l /\ f[l][l] = u /\ \A j \in 1..l - 1 : f[l][j] = s[j]
      BY <2>1, <3>1, <3>3, <3>4, <3>6
    <3>9. ASSUME NEW j \in 1..l, NEW k \in 1..l, f[l][j] = f[l][k]
          PROVE  j = k
      <4>1. \A x \in 1..l : x = l \/ x \in 1..l - 1
        BY <2>1
      <4>2. QED
        BY <3>4, <3>7, <3>8, <3>9, <4>1
    <3>10. QED
      BY <3>8, <3>9 DEF Differ
  <2>4. QED
    BY <2>2, <2>3
<1>2. T = {}
  <2> HIDE DEF T
  <2>1. T \in SUBSET Nat
    BY DEF T
  <2>2. QED
    BY <1>1, <2>1, LeastNumber
<1>3. QED
  BY <1>2

(* Whatever the names of the tools are, and however many of them become one when *)
(* their illegal characters go, the provider is given a name for each that no     *)
(* other has, and the tool found under it is the tool it was given for            *)
(* (openai_compatible_support.py: provider_tool_name_map, parse_tool_call).      *)
THEOREM ToolsAreFoundByName ==
  ASSUME NEW P, \A t \in DOMAIN Cleaned : Cleaned[t] \in Seq(P), NEW o \in Seq(DOMAIN Cleaned)
  PROVE  /\ Len(ProviderNames(o)) = Len(o) /\ IsInjective(ProviderNames(o))
         /\ \A i \in 1..Len(o) : ToolNamed(o, ProviderNames(o)[i]) = o[i]
<1> DEFINE Q == P \cup Nat
           names == ProviderNames(o)
           n == Len(o)
<1>1. n \in Nat /\ DOMAIN o = 1..n
  OBVIOUS
<1>2. \A i \in 1..n : Cleaned[o[i]] \in Seq(Q)
  <2>1. \A t \in DOMAIN Cleaned : Cleaned[t] \in Seq(Q)
    BY SeqMonotonic
  <2>2. QED
    BY <2>1
<1> HIDE DEF Q
<1>3. PICK f : Names(f, o, n) /\ names = f[n]
  BY <1>1, NamesSteps
<1>4. names \in Seq(Seq(Q)) /\ Len(names) = n /\ \A j, k \in 1..n : names[j] = names[k] => j = k
  <2>1. Proper(Q, o, n) /\ n \in 0..n
    BY <1>1, <1>2 DEF Proper, Q
  <2> HIDE DEF n, names
  <2>2. Names(f, o, n)
    BY <1>3
  <2>3. Differ(Q, f[n], n)
    BY <1>1, <2>1, <2>2, NamesDiffer
  <2>4. QED
    BY <1>3, <2>3 DEF Differ
<1>5. DOMAIN names = 1..n
  BY <1>4
<1>6. ASSUME NEW i \in 1..n
      PROVE  ToolNamed(o, names[i]) = o[i]
  <2> DEFINE under == {j \in DOMAIN o : names[j] = names[i]}
  <2> HIDE DEF names, n
  <2>1. under = {i}
    BY <1>1, <1>4
  <2>2. (CHOOSE j \in under : \A k \in under : k <= j) = i
    <3>1. \E j \in under : \A k \in under : k <= j
      BY <1>1, <2>1
    <3>2. (CHOOSE j \in under : \A k \in under : k <= j) \in under
      BY <3>1
    <3>3. QED
      BY <2>1, <3>2
  <2>3. under # {}
    BY <2>1
  <2>4. QED
    BY <2>2, <2>3 DEF ToolNamed, names
<1>7. QED
  BY <1>4, <1>5, <1>6 DEF IsInjective
==============================================================================
