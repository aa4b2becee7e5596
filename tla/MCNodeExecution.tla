--------------------------- MODULE MCNodeExecution ---------------------------
(* An execution from four sides: its episode, its lease, the dialogue with a   *)
(* model, and the tools it calls.                                            *)
(*                                                                          *)
(* Two nodes, of which the second waits for the first.  Either may write the  *)
(* artifact, which the second is to leave; only the first may look for it.    *)
(*                                                                          *)
(* Two processes and a node; a ttl of three seconds and a second clock that    *)
(* is five ticks ahead, the most KeptLeaseHolds allows.                       *)
(*                                                                          *)
(* Names of tools that become one when they are cleaned, and one that is the   *)
(* number which tells them apart.                                            *)
(*                                                                          *)
(* Every handler; a tool that only some may call, one that is disabled and     *)
(* one that is not registered.                                               *)
EXTENDS NodeExecution, ExecutionLease, ModelDialogue, ToolExecution

VARIABLE side   \* the side that is explored

TwoNodes == 1..2
Chain == [n \in TwoNodes |-> {m \in TwoNodes : m < n}]
TwoTools == {"write", "exists"}
ToolsOf == [n \in TwoNodes |-> IF n = 1 THEN TwoTools ELSE {"write"}]
OnlyWrite == {"write"}
Second == {2}
SomeAnswers == {<<>>, <<"write">>, <<"exists", "write">>}

TwoProcesses == 1..2
OneNode == {1}
Clocks == [w \in TwoProcesses |-> IF w = 1 THEN 0 ELSE 5]

SomeOffers == {<<>>, <<"a">>, <<"ab", "a_b", "a_b_2">>}
SomeSelections == {<<>>, <<"a_b", "ab">>, <<"a">>}
CleanNames ==
  [t \in {"a", "ab", "a_b", "a_b_2"} |->
    CASE t = "a" -> <<"a">> [] t = "a_b_2" -> <<"a_b", 2>> [] OTHER -> <<"a_b">>]

SomeHostTools ==
  [t \in {"fetch", "off"} |->
    IF t = "fetch" THEN [Anyone("host") EXCEPT !.nodes = {1}, !.roles = {"writer"}]
    ELSE [Anyone("host") EXCEPT !.enabled = FALSE]]

Ask(tool, args) == [tool |-> tool, args |-> args, node |-> 1, role |-> "writer"]
Only(key, values) == {[k \in {key} |-> v] : v \in values}
SomeUrls == {"http://a", "http://b"}
SomeSecrets == {"token"}
SomeRequests ==
  {Ask("artifact.write_text", args) : args \in Only("path", {"post", "outside"})}
  \cup {Ask(t, args) : t \in {"artifact.read_text", "artifact.exists", "off", "unknown"},
                      args \in Only("path", {"post"})}
  \cup {Ask("search.web", args) : args \in Only("query", {"cats", "http://a"})}
  \cup {Ask("image.generate", args) : args \in Only("save_to", {"", "post"})}
  \cup {Ask("process.run", args) : args \in Only("cwd", {"."})}
  \cup {Ask("artifact.list", args) : args \in Only("path", {"."})} \cup {Ask("time.now", <<>>)}
  \cup {Ask("fetch", [url |-> u, token |-> u]) : u \in SomeUrls}
  \cup {[Ask("fetch", [url |-> "http://a", token |-> "x"]) EXCEPT !.role = "critic"]}

(* the sides that are not explored have one initial state                     *)
ExecutionInit ==
  /\ side \in {"episode", "lease", "dialogue", "tools"}
  /\ Init /\ LeaseInit /\ DialogueInit /\ ToolInit
  /\ side # "episode" => harness = "drain"
  /\ side # "dialogue" => speaker = "direct" /\ strategy = "drain" /\ tools = <<>>
  /\ side # "tools" => environment = [live |-> TRUE, approved |-> {}, keys |-> TRUE, commands |-> TRUE]

ExecutionVars == <<side, vars, leaseVars, dialogueVars, toolVars>>

ExecutionNext ==
  \/ side = "episode" /\ Next /\ UNCHANGED <<side, leaseVars, dialogueVars, toolVars>>
  \/ side = "lease" /\ LeaseNext /\ UNCHANGED <<side, vars, dialogueVars, toolVars>>
  \/ side = "dialogue" /\ DialogueNext /\ UNCHANGED <<side, vars, leaseVars, toolVars>>
  \/ side = "tools" /\ ToolNext /\ UNCHANGED <<side, vars, leaseVars, dialogueVars>>

(* the fairness of NodeExecution!FairSpec                                     *)
ExecutionSpec ==
  /\ ExecutionInit /\ [][ExecutionNext]_ExecutionVars
  /\ WF_vars(side = "episode" /\ Step)

(* RunEnds, of the side on which an episode goes on: a model that goes on      *)
(* calling tools, or never submits, does not keep the session running.          *)
EpisodeEnds == side = "episode" => RunEnds
==============================================================================
