------------------------------ MODULE QueuedRun ------------------------------
(***************************************************************************)
(* Queued goal sessions from the command line to the episode in memory: a     *)
(* client creates a session and publishes its id in two calls; worker         *)
(* processes poll in QueueExecutionHost.run_loop (runtime_worker.py), build a  *)
(* runtime for every delivery, drive the session, and acknowledge; the        *)
(* observers of the runtime write the episode of a session that ended into    *)
(* the memory store (memory/).                                                *)
(*                                                                          *)
(* The queue is what the adapters promise (RedisStreamQueue and               *)
(* InMemoryQueue have them in full): a delivery that is not settled in time    *)
(* is made again, and a delivery that is over settles nothing.  How a session  *)
(* is driven is in ControlPlane; here a run has an outcome.                   *)
(***************************************************************************)
EXTENDS Naturals, Sequences, FiniteSets

CONSTANTS
  Ids,             \* session ids
  Hosts,           \* worker processes
  MaxDeliveries,   \* max_delivery_attempts of a broker
  Iterations,      \* max_iterations, if it is given
  IdleCycles,      \* max_idle_cycles, if it is given
  MaxFaults        \* bound: deaths of a process, stops, failing memory writes

NoHost == 0

ASSUME QueuedRunAssumption ==
  /\ IsFiniteSet(Ids) /\ NoHost \notin Hosts
  /\ MaxDeliveries \in Nat \ {0}
  /\ Iterations \in Nat \ {0} /\ IdleCycles \in Nat \ {0} /\ MaxFaults \in Nat

VARIABLES
  config,     \* how the processes are started; a limit that is not given is 0
  status,     \* RuntimeSession.status, "NONE" before it is created
  client,     \* the next call of the client for each session
  queue,      \* pending messages of the broker, or of a host's transient queue
  flight,     \* deliveries that are not settled: [host, id, attempt]
  dead,       \* sessions with a dead letter
  dropped,    \* sessions of which a message was dropped without retry
  given,      \* sessions whose message a process dropped or made a dead letter, by process
  host,       \* each process: where run_loop is, its counters, its observers
  episodes,   \* the episodes of each session in the memory store
  lost,       \* sessions whose episode the store did not take, by process
  cut,        \* sessions whose episode a death or the store prevented
  faults

runVars == <<config, status, client, queue, flight, dead, dropped, given, host, episodes,
             lost, cut, faults>>

Ended == {"COMPLETED", "FAILED"}
Transient == config.source = "transient"

(* the queue a host polls: the broker, or one of its own *)
Polled(h) == IF Transient THEN h ELSE NoHost

(* A process before its first poll.  run: the message it holds, observers: the  *)
(* episode projectors on its emitter.                                         *)
Fresh == [pc |-> "begin", id |-> "none", attempt |-> 0, iterations |-> 0, idle |-> 0,
          errors |-> 0, observers |-> 0, last |-> "none"]

(* worker_loop_source_error, worker_loop_bound_error, worker_daemon_*: the loop  *)
(* takes ids or a broker, and is bounded; the daemon takes a broker            *)
Accepted(c) == c.source = "transient" => c.iterations > 0 \/ c.idle > 0

QueuedRunInit ==
  /\ config \in {c \in [source : {"transient", "broker"}, retry : BOOLEAN, traced : BOOLEAN,
                          iterations : {0, Iterations}, idle : {0, IdleCycles}] : Accepted(c)}
  /\ status = [i \in Ids |-> IF Transient THEN "QUEUED" ELSE "NONE"]
  /\ client = [i \in Ids |-> IF Transient THEN "gone" ELSE "create"]
  /\ queue = [h \in Hosts \cup {NoHost} |-> <<>>]
  /\ flight = {} /\ dead = {} /\ dropped = {}
  /\ host = [h \in Hosts |-> Fresh]
  /\ episodes = [i \in Ids |-> <<>>]
  /\ lost = [h \in Hosts |-> {}] /\ given = [h \in Hosts |-> {}]
  /\ cut = {} /\ faults = 0

------------------------------------------------------------------------------
(* The client: goal --enqueue-only *)

CreateQueued(i) ==
  /\ client[i] = "create"
  /\ status' = [status EXCEPT ![i] = "QUEUED"]
  /\ client' = [client EXCEPT ![i] = "publish"]
  /\ UNCHANGED <<config, queue, flight, dead, dropped, given, host, episodes, lost, cut, faults>>

Publish(i) ==
  /\ client[i] = "publish"
  /\ queue' = [queue EXCEPT ![NoHost] = Append(@, [id |-> i, attempt |-> 0])]
  /\ client' = [client EXCEPT ![i] = "gone"]
  /\ UNCHANGED <<config, status, flight, dead, dropped, given, host, episodes, lost, cut, faults>>

ClientDies(i) ==
  /\ client[i] = "publish" /\ faults < MaxFaults
  /\ client' = [client EXCEPT ![i] = "dead"]
  /\ faults' = faults + 1
  /\ UNCHANGED <<config, status, queue, flight, dead, dropped, given, host, episodes, lost, cut>>

------------------------------------------------------------------------------
(* What a settled or expired delivery leaves in the queue *)

(* variant: retries without end, for a broker too *)
NoBudget(next) == FALSE

(* _should_dead_letter; the transient queue of a loop has no budget *)
Over(next) == ~Transient /\ next >= MaxDeliveries

(* bound: only the budget of a broker tells higher attempts apart *)
NextAttempt(attempt) == IF attempt < MaxDeliveries THEN attempt + 1 ELSE attempt

(* the message once more, with the next attempt, or a dead letter *)
Again(q, i, attempt) ==
  LET next == NextAttempt(attempt) IN
  IF Over(next) THEN
    /\ dead' = dead \cup {i}
    /\ queue' = queue
  ELSE
    /\ queue' = [queue EXCEPT ![q] = Append(@, [id |-> i, attempt |-> next])]
    /\ dead' = dead

(* the visibility of a delivery of the broker ends, whether its host is alive *)
DeliveryExpires(d) ==
  /\ ~Transient /\ d \in flight
  /\ flight' = flight \ {d}
  /\ Again(NoHost, d.id, d.attempt)
  /\ UNCHANGED <<config, status, client, dropped, given, host, episodes, lost, cut, faults>>

Delivery(h) == [host |-> h, id |-> host[h].id, attempt |-> host[h].attempt]

------------------------------------------------------------------------------
(* run_loop *)

(* run_loop_with_transient_queue, run_loop_with_queue_adapter *)
BeginLoop(h) ==
  /\ host[h].pc = "begin"
  /\ IF Transient
     THEN \E order \in [1..Cardinality(Ids) -> Ids] :
            /\ \A i \in Ids : \E k \in DOMAIN order : order[k] = i
            /\ queue' = [queue EXCEPT ![h] =
                           [k \in DOMAIN order |-> [id |-> order[k], attempt |-> 0]]]
     ELSE queue' = queue
  /\ host' = [host EXCEPT ![h].pc = "check"]
  /\ UNCHANGED <<config, status, client, flight, dead, dropped, given, episodes, lost, cut, faults>>

(* the loop returns; the command closes its queue *)
Leave(h, reason) ==
  /\ host' = [host EXCEPT ![h].pc = "left", ![h].last = reason]
  /\ queue' = IF Transient THEN [queue EXCEPT ![h] = <<>>] ELSE queue
  /\ UNCHANGED <<config, status, client, flight, dead, dropped, given, episodes, lost, cut>>

(* SIGINT or SIGTERM sets a flag, which the loop reads between two deliveries *)
StopAt == {"check", "after"}

Stop(h) ==
  /\ host[h].pc \in StopAt /\ faults < MaxFaults
  /\ faults' = faults + 1
  /\ Leave(h, "stop_requested")

(* run_once: a message, of which a delivery begins *)
Take(h) ==
  /\ host[h].pc = "check" /\ queue[Polled(h)] # <<>>
  /\ LET m == Head(queue[Polled(h)]) IN
       /\ queue' = [queue EXCEPT ![Polled(h)] = Tail(@)]
       /\ flight' = flight \cup {[host |-> h, id |-> m.id, attempt |-> m.attempt]}
       /\ host' = [host EXCEPT ![h].pc = "build", ![h].id = m.id, ![h].attempt = m.attempt]
  /\ UNCHANGED <<config, status, client, dead, dropped, given, episodes, lost, cut, faults>>

(* or none within the timeout; the counters only matter to the bounds *)
Idle(h) ==
  /\ host[h].pc = "check" /\ queue[Polled(h)] = <<>>
  /\ host' = [host EXCEPT ![h].pc = "after",
                          ![h].iterations = IF config.iterations = 0 THEN 0 ELSE @ + 1,
                          ![h].idle = IF config.idle = 0 THEN 0 ELSE @ + 1]
  /\ UNCHANGED <<config, status, client, queue, flight, dead, dropped, given, episodes, lost, cut,
                 faults>>

(* the bounds, in the order of the loop; a daemon has none for idle cycles *)
IterationsDone(h) == config.iterations > 0 /\ host[h].iterations >= config.iterations
IdleDone(h) == config.idle > 0 /\ host[h].idle >= config.idle

Bounds(h) ==
  /\ host[h].pc = "after" /\ faults' = faults
  /\ \/ IterationsDone(h) /\ Leave(h, "max_iterations")
     \/ ~IterationsDone(h) /\ IdleDone(h) /\ Leave(h, "max_idle_cycles")
     \/ /\ ~IterationsDone(h) /\ ~IdleDone(h)
        /\ host' = [host EXCEPT ![h].pc = "check"]
        /\ UNCHANGED <<config, status, client, queue, flight, dead, dropped, given, episodes, lost,
                       cut>>

------------------------------------------------------------------------------
(* A delivery *)

MaxObservers == 2   \* bound: three projectors do what two do

(* QueuedGoalSessionOrchestrator.run_session builds a runtime for the delivery. *)
(* With a trace the emitter is the same one, which gets another projector;     *)
(* without it the emitter is new.                                             *)
Build(h) ==
  /\ host[h].pc = "build"
  /\ host' = [host EXCEPT ![h].pc = "run",
                          ![h].observers = IF ~config.traced THEN 1
                                           ELSE IF @ = MaxObservers THEN @ ELSE @ + 1]
  /\ UNCHANGED <<config, status, client, queue, flight, dead, dropped, given, episodes, lost, cut,
                 faults>>

(* run_session: a session that ended is left alone *)
AlreadyEnded(h) ==
  /\ host[h].pc = "run" /\ status[host[h].id] \in Ended
  /\ host' = [host EXCEPT ![h].pc = "ack"]
  /\ UNCHANGED <<config, status, client, queue, flight, dead, dropped, given, episodes, lost, cut,
                 faults>>

(* One that waits for a gate raises, and so does any call on the way; what was  *)
(* done before stays.                                                         *)
Raises(h) ==
  /\ host[h].pc = "run" /\ status[host[h].id] \notin Ended
  /\ status' = [status EXCEPT ![host[h].id] = IF @ = "QUEUED" THEN "RUNNING" ELSE @]
  /\ host' = [host EXCEPT ![h].pc = "nack"]
  /\ UNCHANGED <<config, client, queue, flight, dead, dropped, given, episodes, lost, cut, faults>>

Pauses(h) ==
  /\ host[h].pc = "run" /\ status[host[h].id] \in {"QUEUED", "RUNNING"}
  /\ status' = [status EXCEPT ![host[h].id] = "WAITING_GATE"]
  /\ host' = [host EXCEPT ![h].pc = "ack"]
  /\ UNCHANGED <<config, client, queue, flight, dead, dropped, given, episodes, lost, cut, faults>>

(* _session_transition: the put, after which the event is emitted; the version  *)
(* of the row lets one process end a session                                  *)
Ends(h, s) ==
  /\ host[h].pc = "run" /\ status[host[h].id] \in {"QUEUED", "RUNNING"}
  /\ status' = [status EXCEPT ![host[h].id] = s]
  /\ host' = [host EXCEPT ![h].pc = "emit"]
  /\ UNCHANGED <<config, client, queue, flight, dead, dropped, given, episodes, lost, cut, faults>>

(* variant: no lookup of the idempotency key *)
AppendAlways(entries, kind) == Append(entries, kind)

(* MemoryWriteAuthority.append: an entry with the idempotency key, which is the  *)
(* session and the kind of the event, is not written again                    *)
AppendOnce(entries, kind) ==
  IF \E k \in DOMAIN entries : entries[k] = kind THEN entries ELSE Append(entries, kind)

(* the projectors, one after the other, as no write of theirs suspends *)
Projected(entries, kind, n) ==
  LET upTo[k \in 0..n] == IF k = 0 THEN entries ELSE AppendOnce(upTo[k - 1], kind)
  IN upTo[n]

(* Emitter.emit: every observer is called; the failure of a critical one is      *)
(* raised when all have returned.  Of the writes the first n fail.              *)
Emit(h, n) ==
  /\ host[h].pc = "emit" /\ n <= host[h].observers
  /\ n > 0 => faults < MaxFaults
  /\ faults' = IF n > 0 THEN faults + 1 ELSE faults
  /\ LET i == host[h].id IN
       /\ episodes' = [episodes EXCEPT ![i] = Projected(@, status[i], host[h].observers - n)]
       /\ IF n = host[h].observers
          THEN lost' = [lost EXCEPT ![h] = @ \cup {i}] /\ cut' = cut \cup {i}
          ELSE UNCHANGED <<lost, cut>>
  /\ host' = [host EXCEPT ![h].pc = IF n > 0 THEN "nack" ELSE "ack"]
  /\ UNCHANGED <<config, status, client, queue, flight, dead, dropped, given>>

(* the counters after a delivery *)
Counted(h, errors) ==
  [host[h] EXCEPT !.pc = "after", !.id = "none", !.attempt = 0, !.idle = 0,
                  !.iterations = IF config.iterations = 0 THEN 0 ELSE @ + 1,
                  !.errors = errors]

(* a delivery that expired settles nothing *)
Ack(h) ==
  /\ host[h].pc = "ack"
  /\ flight' = flight \ {Delivery(h)}
  /\ host' = [host EXCEPT ![h] = Counted(h, host[h].errors)]
  /\ UNCHANGED <<config, status, client, queue, dead, dropped, given, episodes, lost, cut, faults>>

(* variant: only a delivery that is made again is counted as an error *)
ErrorIfRetried(h) == IF config.retry THEN 1 ELSE host[h].errors

(* errors decide the exit code; more than one is as good as one *)
ErrorsAfterNack(h) == 1

(* A delivery that is over settles nothing.  One that is not is made again, is a  *)
(* dead letter, or without retry is dropped; the last two give the message up.   *)
GivesUp(h) == ~config.retry \/ Over(NextAttempt(host[h].attempt))

Nack(h) ==
  /\ host[h].pc = "nack"
  /\ host' = [host EXCEPT ![h] = Counted(h, ErrorsAfterNack(h))]
  /\ flight' = flight \ {Delivery(h)}
  /\ given' = IF Delivery(h) \in flight /\ GivesUp(h)
              THEN [given EXCEPT ![h] = @ \cup {host[h].id}] ELSE given
  /\ IF Delivery(h) \notin flight THEN UNCHANGED <<queue, dead, dropped>>
     ELSE IF config.retry
     THEN Again(Polled(h), host[h].id, host[h].attempt) /\ dropped' = dropped
     ELSE dropped' = dropped \cup {host[h].id} /\ UNCHANGED <<queue, dead>>
  /\ UNCHANGED <<config, status, client, episodes, lost, cut, faults>>

------------------------------------------------------------------------------
(* Processes *)

(* what a transient queue holds is gone with its process *)
Dies(h) ==
  /\ host[h].pc \notin {"begin", "left", "died"} /\ faults < MaxFaults
  /\ faults' = faults + 1
  /\ host' = [host EXCEPT ![h] = [Fresh EXCEPT !.pc = "died"]]
  /\ cut' = IF host[h].pc = "emit" THEN cut \cup {host[h].id} ELSE cut
  /\ flight' = IF Transient THEN {d \in flight : d.host # h}
               ELSE {IF d.host = h THEN [d EXCEPT !.host = NoHost] ELSE d : d \in flight}
  /\ queue' = IF Transient THEN [queue EXCEPT ![h] = <<>>] ELSE queue
  /\ UNCHANGED <<config, status, client, dead, dropped, given, episodes, lost>>

(* a supervisor starts a process of the broker again *)
Restart(h) ==
  /\ ~Transient /\ host[h].pc \in {"left", "died"}
  /\ host' = [host EXCEPT ![h] = Fresh]
  /\ lost' = [lost EXCEPT ![h] = {}] /\ given' = [given EXCEPT ![h] = {}]
  /\ UNCHANGED <<config, status, client, queue, flight, dead, dropped, episodes, cut, faults>>

LoopStep(h) == BeginLoop(h) \/ Take(h) \/ Idle(h) \/ Bounds(h)

DeliveryStep(h) ==
  \/ Build(h) \/ AlreadyEnded(h) \/ Raises(h) \/ Pauses(h) \/ \E s \in Ended : Ends(h, s)
  \/ \E n \in 0..host[h].observers : Emit(h, n)
  \/ Ack(h) \/ Nack(h)

HostStep(h) == LoopStep(h) \/ DeliveryStep(h)

QueuedRunNext ==
  \/ \E i \in Ids : CreateQueued(i) \/ Publish(i) \/ ClientDies(i)
  \/ \E d \in flight : DeliveryExpires(d)
  \/ \E h \in Hosts : HostStep(h) \/ Stop(h) \/ Dies(h) \/ Restart(h)

QueuedRunSpec == QueuedRunInit /\ [][QueuedRunNext]_runVars

------------------------------------------------------------------------------
(* Properties *)

(* A session that ended has one episode in memory, of the status it ended with,  *)
(* however often it was delivered and however many projectors an emitter has     *)
(* gathered, unless the process died or the store failed right after the        *)
(* session's last put (EpisodeProjectorObserver, MemoryWriteAuthority.append).   *)
EpisodeOfEverySession ==
  \A i \in Ids :
    /\ Len(episodes[i]) <= 1
    /\ Len(episodes[i]) = 1 => episodes[i][1] = status[i]
    /\ \/ status[i] \notin Ended \/ i \in cut
       \/ \E h \in Hosts : host[h].pc = "emit" /\ host[h].id = i
       \/ Len(episodes[i]) = 1

(* A loop that returns holds no delivery.  When it returns 0 it has dropped no   *)
(* message, has made none a dead letter (the broker may have, of a delivery that *)
(* expired under it), and has lost no episode; and when it had the sessions from *)
(* its command line and found nothing more to do, each of them ended or waits    *)
(* for a decision (run_once, run_loop, worker_loop_exit_contract).              *)
CleanExit ==
  \A h \in Hosts : host[h].pc = "left" =>
    /\ \A d \in flight : d.host # h
    /\ host[h].errors = 0 => given[h] = {} /\ lost[h] = {}
    /\ Transient /\ host[h].errors = 0 /\ host[h].last = "max_idle_cycles" =>
         \A i \in Ids : status[i] \in Ended \cup {"WAITING_GATE"}

Settled(i) == status[i] \in Ended \cup {"WAITING_GATE"} \/ i \in dead \/ i \in dropped

(* A session that was published to a broker ends, waits for a decision, or has a   *)
(* dead letter to replay, whatever its runs raise and whichever process dies.     *)
SessionsSettle ==
  \A i \in Ids : (~Transient /\ client[i] = "gone") ~> Settled(i)
==============================================================================
