---------------------------- MODULE ToolExecution ----------------------------
(***************************************************************************)
(* The calls of tools: what the registry lets through (tools/registry.py),    *)
(* what the handlers of the built-in tools do (artifact_tools.py,             *)
(* external_tools.py, process_tools.py) and what an agent is told of it, with *)
(* the ledger in which its loop finds the calls that succeeded before         *)
(* (agent_tools.py, whose puts are in NodeExecution.tla).                     *)
(*                                                                          *)
(* A handler that never awaits runs in one step, however long it takes: the   *)
(* timeout of the registry cannot end it.  That is every built-in one but     *)
(* process.run, which has a timeout of its own.  A handler that a host has    *)
(* registered may await, and its effect may come before or after.             *)
(***************************************************************************)
EXTENDS Naturals, Sequences, FiniteSets, TLC

CONSTANTS
  HostTools,   \* the tools a host registers: handler, policy, whether enabled
  Requests,    \* what agents may ask for: a tool, its arguments, a node, a role
  SecretKeys,  \* the names of arguments that hold a secret
  Urls,        \* the values of arguments that are URLs
  MaxRequests  \* bound: calls

(* register_builtin_tools                                                     *)
Anyone(handler) ==
  [handler |-> handler, approval |-> FALSE, nodes |-> {}, roles |-> {}, enabled |-> TRUE]

Builtin ==
  [t \in {"artifact.write_json", "artifact.write_text"} |-> Anyone("write")]
  @@ [t \in {"artifact.read_json", "artifact.read_text"} |-> Anyone("read")]
  @@ ("artifact.list" :> Anyone("list"))
  @@ ("artifact.exists" :> Anyone("exists"))
  @@ ("time.now" :> Anyone("time"))
  @@ ("search.web" :> Anyone("search"))
  @@ ("image.generate" :> Anyone("image"))
  @@ ("process.run" :> [Anyone("process") EXCEPT !.approval = TRUE])

Registry == Builtin @@ HostTools

(* A name is registered once, and what a host registers may await.              *)
ASSUME ToolExecutionAssumption ==
  /\ MaxRequests \in Nat
  /\ DOMAIN HostTools \cap DOMAIN Builtin = {}
  /\ \A t \in DOMAIN HostTools :
       /\ HostTools[t].handler = "host"
       /\ HostTools[t].approval \in BOOLEAN /\ HostTools[t].enabled \in BOOLEAN

VARIABLES
  environment,  \* ExecutionEnvironment: live, the tools approved, keys, commands
  log,          \* the calls so far; the last is the current one, if there is one
  at_call,      \* where that is: idle, or what its handler waits for
  files,        \* the files under artifact_root
  ledger        \* fingerprints of the calls that succeeded

toolVars == <<environment, log, at_call, files, ledger>>

Outcomes == {"none", "reused", "success", "failure", "cancelled"}

(* build_goal_tool_runtime: the network and dry_run are one switch             *)
Environments ==
  [live : BOOLEAN, approved : SUBSET {t \in DOMAIN Registry : Registry[t].approval}, keys : BOOLEAN, commands : BOOLEAN]

ToolInit ==
  /\ environment \in Environments
  /\ log = <<>> /\ at_call = "idle" /\ files = {} /\ ledger = {}

------------------------------------------------------------------------------
(* The identity of a call *)

(* _redact_for_fingerprint                                                    *)
Redacted(args) ==
  [k \in DOMAIN args |-> CASE k \in SecretKeys -> "<redacted>"
                           [] args[k] \in Urls -> "<redacted-url>"
                           [] OTHER -> args[k]]

(* variant: the arguments are left out                                        *)
FingerprintOfTool(r) == <<r.tool, r.node, r.role>>

(* _tool_effect_fingerprint; dry_run and artifact_root are those of the host     *)
Fingerprint(r) == <<r.tool, Redacted(r.args), r.node, r.role>>

------------------------------------------------------------------------------
(* The registry *)

Registered(r) == r.tool \in DOMAIN Registry
Registration(r) == Registry[r.tool]

(* _policy_denial                                                             *)
Denied(r) ==
  \/ Registration(r).nodes # {} /\ r.node \notin Registration(r).nodes
  \/ Registration(r).roles # {} /\ r.role \notin Registration(r).roles
  \/ Registration(r).approval /\ r.tool \notin environment.approved

LetThrough(r) == Registered(r) /\ Registration(r).enabled /\ ~Denied(r)

(* a call: what came of it, whether its effect has happened, its process, and      *)
(* whether a process that one has started holds its output                       *)
Entry(r, outcome, done) ==
  [request |-> r, outcome |-> outcome, done |-> done, process |-> "none", holds |-> FALSE]

Requested(r) == at_call = "idle" /\ Len(log) < MaxRequests /\ r \in Requests
New(r) == Requested(r) /\ Fingerprint(r) \notin ledger

Returns(r, success, done) ==
  /\ log' = Append(log, Entry(r, IF success THEN "success" ELSE "failure", done))
  /\ ledger' = IF success THEN ledger \cup {Fingerprint(r)} ELSE ledger
  /\ UNCHANGED <<environment, at_call>>

(* a success that the ledger knows is told again                               *)
Reuses(r) ==
  /\ Requested(r) /\ Fingerprint(r) \in ledger
  /\ log' = Append(log, Entry(r, "reused", FALSE))
  /\ UNCHANGED <<environment, at_call, files, ledger>>

(* run_tool_call: no such tool, a disabled one, one that is denied             *)
Refuses(r) ==
  /\ New(r) /\ ~LetThrough(r)
  /\ Returns(r, FALSE, FALSE) /\ UNCHANGED files

------------------------------------------------------------------------------
(* Handlers that never await *)

Handles(r, handler) == New(r) /\ LetThrough(r) /\ Registration(r).handler = handler

(* safe_artifact_path                                                         *)
Contained(r, key) == r.args[key] # "outside"

(* write_json_artifact, write_text_artifact: in a dry run as well.  The file        *)
(* system may refuse.                                                         *)
Writes(r) ==
  /\ Handles(r, "write")
  /\ \E written \in BOOLEAN :
       /\ written => Contained(r, "path")
       /\ files' = IF written THEN files \cup {r.args["path"]} ELSE files
       /\ Returns(r, written, written)

(* read_json_artifact, read_text_artifact; a file may be of another kind          *)
Reads(r) ==
  /\ Handles(r, "read")
  /\ \E readable \in BOOLEAN :
       /\ readable => Contained(r, "path") /\ r.args["path"] \in files
       /\ Returns(r, readable, FALSE)
  /\ UNCHANGED files

(* list_artifacts: the directory may be missing, or hold a symbolic link          *)
Lists(r) ==
  /\ Handles(r, "list")
  /\ \E listed \in BOOLEAN :
       /\ listed => Contained(r, "path")
       /\ Returns(r, listed, FALSE)
  /\ UNCHANGED files

(* artifact_exists                                                            *)
LooksFor(r) ==
  /\ Handles(r, "exists") /\ Returns(r, Contained(r, "path"), FALSE) /\ UNCHANGED files

(* time_now                                                                   *)
TellsTime(r) ==
  Handles(r, "time") /\ Returns(r, DOMAIN r.args = {}, FALSE) /\ UNCHANGED files

(* search_web: nothing is asked in a dry run, without a key or a network         *)
Searches(r) ==
  /\ Handles(r, "search")
  /\ \E answered \in BOOLEAN :
       Returns(r, ~environment.live \/ (environment.keys /\ answered), FALSE)
  /\ UNCHANGED files

(* generate_image: the request may fail before or after the image is made; an     *)
(* image that is to be saved is downloaded from where the answer says, which may  *)
(* be nowhere, a host that is not allowed, or fail.                              *)
ImageTried(r) ==
  environment.live /\ environment.keys /\ (r.args["save_to"] # "" => Contained(r, "save_to"))

Generates(r) ==
  /\ Handles(r, "image")
  /\ \E made, answered, saved \in BOOLEAN :
       /\ made => ImageTried(r)
       /\ answered => made
       /\ saved => answered /\ r.args["save_to"] # ""
       /\ Returns(r, ~environment.live \/ saved \/ (answered /\ r.args["save_to"] = ""), made)
       /\ files' = IF saved THEN files \cup {r.args["save_to"]} ELSE files

------------------------------------------------------------------------------
(* Handlers that await *)

Current == log[Len(log)]
Set(entry) == log' = [log EXCEPT ![Len(log)] = entry]

Begins(r, where, process, holds) ==
  /\ log' = Append(log, [Entry(r, "none", FALSE) EXCEPT !.process = process, !.holds = holds])
  /\ at_call' = where
  /\ UNCHANGED <<environment, files, ledger>>

(* The current call returns.                                                  *)
Finishes(success) ==
  /\ Set([Current EXCEPT !.outcome = IF success THEN "success" ELSE "failure"])
  /\ ledger' = IF success THEN ledger \cup {Fingerprint(Current.request)} ELSE ledger
  /\ at_call' = "idle"
  /\ UNCHANGED <<environment, files>>

(* a handler of the host: it has its effect, and then returns, raises or is cut   *)
(* off by the timeout                                                         *)
HostHandlerBegins(r) == Handles(r, "host") /\ Begins(r, "host", "none", FALSE)

HostHandlerActs ==
  /\ at_call = "host" /\ ~Current.done
  /\ Set([Current EXCEPT !.done = TRUE])
  /\ UNCHANGED <<environment, at_call, files, ledger>>

HostHandlerEnds(success) ==
  /\ at_call = "host" /\ (success => Current.done) /\ Finishes(success)

(* run_process: an argv that is not allowed, a cwd that is outside                *)
ProcessAllowed(r) == environment.commands /\ Contained(r, "cwd")

RefusesProcess(r) ==
  /\ Handles(r, "process") /\ ~ProcessAllowed(r)
  /\ Returns(r, FALSE, FALSE) /\ UNCHANGED files

(* The process may leave one behind that holds its output open.                  *)
StartsProcess(r) ==
  /\ Handles(r, "process") /\ ProcessAllowed(r)
  /\ \E holds \in BOOLEAN : Begins(r, "process", "alive", holds)

(* A process ends by itself, done; the event loop notices later; the one it left    *)
(* behind ends some time.  None of it waits for the call.                         *)
ProcessMoves(i, from, to, done) ==
  /\ log[i].process = from
  /\ log' = [log EXCEPT ![i].process = to, ![i].done = done]
  /\ UNCHANGED <<environment, at_call, files, ledger>>

ProcessExits(i) == ProcessMoves(i, "alive", "exited", TRUE)
ExitIsNoticed(i) == ProcessMoves(i, "exited", "reaped", TRUE)
HolderEnds(i) ==
  /\ log[i].holds /\ log' = [log EXCEPT ![i].holds = FALSE]
  /\ UNCHANGED <<environment, at_call, files, ledger>>

(* communicate() is over: the process has ended and nobody holds its output        *)
OutputComplete == Current.process \in {"reaped", "killed"} /\ ~Current.holds

ProcessReturns == at_call = "process" /\ OutputComplete /\ Finishes(TRUE)

(* variant: the process is not killed                                          *)
TimeoutGivesUp ==
  /\ at_call = "process" /\ ~OutputComplete /\ Finishes(FALSE)

(* The timeout: a process whose end has not been noticed is killed, which does      *)
(* nothing to one that has ended, and counts as killed by the timeout.  What        *)
(* was written until then is waited for a little longer.                          *)
TimeoutFires ==
  /\ at_call = "process" /\ ~OutputComplete
  /\ at_call' = IF Current.process = "reaped" THEN "ended" ELSE "killed"
  /\ log' = IF Current.process = "alive"
            THEN [log EXCEPT ![Len(log)].process = "killed"] ELSE log
  /\ UNCHANGED <<environment, files, ledger>>

(* _communicate_after_process_timeout; a process that is killed has not succeeded   *)
CleanupEnds ==
  \/ /\ at_call = "ended"
     /\ Finishes(OutputComplete)
  \/ /\ at_call = "killed" /\ (OutputComplete \/ Current.holds)
     /\ Finishes(FALSE)

(* The agent's task is cancelled, for it has lost its lease: what it waits for is    *)
(* left where it is.                                                           *)
CallIsCancelled ==
  /\ at_call # "idle"
  /\ Set([Current EXCEPT !.outcome = "cancelled"]) /\ at_call' = "idle"
  /\ UNCHANGED <<environment, files, ledger>>

ToolNext ==
  \/ \E r \in Requests :
       \/ Reuses(r) \/ Refuses(r) \/ Writes(r) \/ Reads(r) \/ Lists(r) \/ LooksFor(r) \/ TellsTime(r) \/ Searches(r)
       \/ Generates(r) \/ HostHandlerBegins(r) \/ RefusesProcess(r) \/ StartsProcess(r)
  \/ HostHandlerActs \/ \E success \in BOOLEAN : HostHandlerEnds(success)
  \/ \E i \in DOMAIN log : ProcessExits(i) \/ ExitIsNoticed(i) \/ HolderEnds(i)
  \/ ProcessReturns \/ TimeoutFires \/ CleanupEnds \/ CallIsCancelled

ToolSpec == ToolInit /\ [][ToolNext]_toolVars

------------------------------------------------------------------------------
(* The handlers whose success means an effect; an image is made unless the run is    *)
(* dry.                                                                        *)
Effective(r) ==
  \/ Registration(r).handler \in {"write", "host", "process"}
  \/ Registration(r).handler = "image" /\ environment.live

(* calls that differ in nothing but what redaction hides                        *)
Alike(r, s) ==
  /\ r.tool = s.tool /\ r.node = s.node /\ r.role = s.role
  /\ DOMAIN r.args = DOMAIN s.args
  /\ \A k \in DOMAIN r.args :
       \/ r.args[k] = s.args[k] \/ k \in SecretKeys
       \/ {r.args[k], s.args[k]} \subseteq Urls \cup {"<redacted-url>"}

(* What an agent is told is what has happened.  A success has had its effect;    *)
(* one that is told from the ledger is that of a call before it that was the     *)
(* same, up to the secrets and URLs that the fingerprint hides (two calls with    *)
(* different URLs are one call to it: registry.py:295).  A failure, which the     *)
(* ledger does not know and the model may try again, has had an effect only if    *)
(* an image was made that could not be fetched or saved, a process or a handler   *)
(* of the host was too slow, or that handler raised.                             *)
ResultsAreTrue ==
  \A i \in DOMAIN log :
    LET e == log[i] IN
      /\ e.outcome = "success" /\ Effective(e.request) => e.done
      /\ e.outcome = "reused" =>
           \E j \in 1..i - 1 : log[j].outcome = "success" /\ Alike(log[j].request, e.request)
      /\ e.outcome = "failure" /\ e.done =>
           LetThrough(e.request) /\ Registration(e.request).handler \in {"image", "host", "process"}

(* A call of process.run that returns leaves no process behind, and one that it     *)
(* reports as a success has ended by itself: the timeout may fall on any moment   *)
(* of the process's end.  Only a call that is cancelled leaves its process        *)
(* running, and what the process itself left behind survives only a failure.       *)
ProcessesEndWithTheirCall ==
  \A i \in DOMAIN log :
    LET e == log[i] IN
      /\ e.outcome \in {"success", "failure"} => e.process # "alive"
      /\ e.outcome = "success" => e.process \in {"none", "reaped"} /\ ~e.holds
==============================================================================
