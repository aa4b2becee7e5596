----------------------------- MODULE InMemoryQueue -----------------------------
(***************************************************************************)
(* InMemoryQueueAdapter (queue/in_memory.py) with a visibility timeout and a *)
(* delivery budget, and the tasks of one process that use it: workers that   *)
(* poll (QueueExecutionHost.run_once) and a monitor that asks for its counts.*)
(*                                                                          *)
(* The only await that can suspend an operation half-way is the put on the   *)
(* asyncio.Queue, when that is bounded and full; an action is what a task    *)
(* does between two awaits, at most, or for one expired handle.              *)
(*                                                                          *)
(* A handle is renewed with each delivery attempt, so that it is known by    *)
(* the session and the attempt.                                              *)
(***************************************************************************)
EXTENDS Naturals, Sequences, FiniteSets

CONSTANTS
  Jobs,             \* session ids that are enqueued, each once
  Pollers,              \* tasks that poll
  Monitor,              \* the task that calls pending, in_flight, dead_letters
  NoJob,
  DeliveryLimit,  \* max_delivery_attempts, set
  MaxSize,              \* maxsize, 0 when unbounded
  MaxCancels            \* bound: tasks cancelled

ASSUME MemoryAssumption ==
  /\ Monitor \notin Pollers
  /\ DeliveryLimit \in Nat \ {0}
  /\ MaxSize \in Nat /\ MaxCancels \in Nat

Tasks == Pollers \cup {Monitor}

VARIABLES
  queue,      \* the messages that wait: [session, attempt]
  flight,     \* messages in flight
  late,       \* those whose visibility timeout has passed
  letters,    \* dead letters
  task,       \* where each task is: polling, running, or suspended in a put
  held,       \* the message it runs or puts
  closed,
  enqueued, acked, dropped, cancelled,  \* sessions: added; acked or given up by
                                          \* their worker; lost at a close; lost in a put
  delivered,  \* deliveries of each session
  cancels

memory == <<queue, flight, late, letters, task, held, closed>>
counts == <<enqueued, acked, dropped, cancelled, delivered, cancels>>
memoryVars == <<memory, counts>>

NoMessage == [session |-> NoJob, attempt |-> 0]

MemoryInit ==
  /\ queue = <<>> /\ flight = {} /\ late = {} /\ letters = {} /\ closed = FALSE
  /\ task = [t \in Tasks |-> "poll"] /\ held = [t \in Tasks |-> NoMessage]
  /\ enqueued = {} /\ acked = {} /\ dropped = {} /\ cancelled = {}
  /\ delivered = [s \in Jobs |-> 0] /\ cancels = 0

Full == MaxSize > 0 /\ Len(queue) >= MaxSize

Move(t, to, message) ==
  /\ task' = [task EXCEPT ![t] = to]
  /\ held' = [held EXCEPT ![t] = message]

(* a worker that calls dequeue again after a close raises *)
Poll(t) == Move(t, IF closed /\ t \in Pollers THEN "gone" ELSE "poll", NoMessage)

Pop(m) == flight' = flight \ {m} /\ late' = late \ {m}

------------------------------------------------------------------------------
(* enqueue, dequeue *)

EnqueueMessage(s) ==
  /\ s \notin enqueued /\ ~closed /\ ~Full
  /\ queue' = Append(queue, [session |-> s, attempt |-> 0])
  /\ enqueued' = enqueued \cup {s}
  /\ UNCHANGED <<flight, late, letters, task, held, closed>>
  /\ UNCHANGED <<acked, dropped, cancelled, delivered, cancels>>

(* variant: one delivery more than the budget *)
OverBudget(attempt) == attempt > DeliveryLimit

(* _should_dead_letter *)
ExceedsBudget(attempt) == attempt >= DeliveryLimit

(* _retry_or_dead_letter: the message is a dead letter, or the task awaits    *)
(* the put of its next attempt.  Not called when the queue is closed.         *)
RetryMessage(t, m) ==
  LET next == [m EXCEPT !.attempt = @ + 1] IN
  \/ /\ closed
     /\ dropped' = dropped \cup {m.session}
     /\ Poll(t) /\ UNCHANGED letters
  \/ /\ ~closed /\ ExceedsBudget(next.attempt)
     /\ letters' = letters \cup {next}
     /\ Poll(t) /\ UNCHANGED dropped
  \/ /\ ~closed /\ ~ExceedsBudget(next.attempt)
     /\ Move(t, "put", next) /\ UNCHANGED <<letters, dropped>>

(* variant: a handle is redelivered once *)
LateFirst == {m \in late : m.attempt = 0}

Overdue == late

(* _redeliver_expired, one handle: at the head of dequeue and of the counts   *)
RedeliverExpired(t) ==
  /\ task[t] = "poll"
  /\ \E m \in Overdue : Pop(m) /\ RetryMessage(t, m)
  /\ UNCHANGED <<queue, closed, enqueued, acked, cancelled, delivered, cancels>>

PutMessage(t) ==
  /\ task[t] = "put" /\ ~Full
  /\ queue' = Append(queue, held[t])
  /\ Poll(t)
  /\ UNCHANGED <<flight, late, letters, closed, counts>>

(* get_nowait or get, then _track_in_flight; a task that waits in get takes a *)
(* message also when another one has expired or the queue was closed          *)
Get(w) ==
  /\ task[w] = "poll" /\ queue # <<>>
  /\ queue' = Tail(queue)
  /\ flight' = flight \cup {Head(queue)}
  /\ Move(w, "run", Head(queue))
  /\ delivered' = [delivered EXCEPT ![Head(queue).session] = @ + 1]
  /\ UNCHANGED <<late, letters, closed, enqueued, acked, dropped, cancelled, cancels>>

(* visibility_timeout_seconds have passed since the delivery *)
ExpireFlight(m) ==
  /\ m \in flight \ late
  /\ late' = late \cup {m}
  /\ UNCHANGED <<queue, flight, letters, task, held, closed, counts>>

------------------------------------------------------------------------------
(* ack and nack *)

(* variant: a handle is good as long as its session is in flight *)
SessionInFlight(m) == \E f \in flight : f.session = m.session

InFlight(m) == m \in flight

(* a handle that is no longer in flight is ignored *)
IgnoreHandle(w) ==
  /\ task[w] = "run" /\ ~InFlight(held[w])
  /\ Poll(w)
  /\ UNCHANGED <<queue, flight, late, letters, closed, counts>>

(* ack, and nack without retry *)
AckMessage(w) ==
  /\ task[w] = "run" /\ InFlight(held[w])
  /\ Pop(held[w])
  /\ acked' = acked \cup {held[w].session}
  /\ Poll(w)
  /\ UNCHANGED <<queue, letters, closed, enqueued, dropped, cancelled, delivered, cancels>>

NackMessage(w) ==
  /\ task[w] = "run" /\ InFlight(held[w])
  /\ Pop(held[w])
  /\ RetryMessage(w, held[w])
  /\ UNCHANGED <<queue, closed, enqueued, acked, cancelled, delivered, cancels>>

------------------------------------------------------------------------------

(* A task is cancelled and started again: a message it ran stays in flight    *)
(* (run_once catches Exception only), one it was about to put is gone.        *)
Cancel(t) ==
  /\ task[t] \in {"run", "put"} /\ cancels < MaxCancels
  /\ cancels' = cancels + 1
  /\ cancelled' = IF task[t] = "put" THEN cancelled \cup {held[t].session} ELSE cancelled
  /\ Poll(t)
  /\ UNCHANGED <<queue, flight, late, letters, closed, enqueued, acked, dropped, delivered>>

Close ==
  /\ ~closed /\ closed' = TRUE
  /\ UNCHANGED <<queue, flight, late, letters, task, held, counts>>

WorkerStep(w) ==
  RedeliverExpired(w) \/ PutMessage(w) \/ Get(w)
    \/ IgnoreHandle(w) \/ AckMessage(w) \/ NackMessage(w)

MemoryNext ==
  \/ \E w \in Pollers : WorkerStep(w)
  \/ RedeliverExpired(Monitor) \/ PutMessage(Monitor)
  \/ \E s \in Jobs : EnqueueMessage(s)
  \/ \E m \in flight : ExpireFlight(m)
  \/ \E t \in Tasks : Cancel(t)
  \/ Close

MemorySpec == MemoryInit /\ [][MemoryNext]_memoryVars

------------------------------------------------------------------------------
(* Properties *)

(* how many messages there are of a session                                   *)
Copies(s) ==
  Cardinality({i \in DOMAIN queue : queue[i].session = s})
    + Cardinality({m \in flight : m.session = s})
    + Cardinality({m \in letters : m.session = s})
    + Cardinality({t \in Tasks : task[t] = "put" /\ held[t].session = s})

(* A session is always in one place: it waits, is in flight, is about to be   *)
(* put or is a dead letter, and never twice, however the sweeps of the tasks, *)
(* late acknowledgements, suspended puts and cancellations interleave; or it  *)
(* was acked by the worker that held its last handle.  Only a close or a    *)
(* cancelled put loses one.                                                   *)
OnePlace ==
  /\ \A s \in enqueued :
       LET gone == {i \in 1..3 : s \in <<acked, dropped, cancelled>>[i]}
       IN  Copies(s) + Cardinality(gone) = 1
  /\ dropped # {} => closed
  /\ cancelled # {} => cancels > 0

(* The budget is exact: at most max_delivery_attempts deliveries, and exactly *)
(* that many of a dead letter, though the attempts end by nack and by expiry, *)
(* seen by one task or another.                                               *)
BudgetIsExact ==
  \A s \in Jobs :
    /\ delivered[s] <= DeliveryLimit
    /\ \A m \in letters : m.session = s => delivered[s] = DeliveryLimit
    /\ \A m \in flight : m.session = s => delivered[s] = m.attempt + 1

(* every worker is suspended in a put on the full queue: nobody takes from it *)
Stalled == Full /\ \A w \in Pollers : task[w] = "put"

(* The queue comes to rest: nothing waits and nothing is in flight.  It may   *)
(* instead be closed, or, when it is bounded, stall: a nack or a sweep puts   *)
(* the retry on the queue that only these workers empty.                      *)
ComesToRest ==
  <>[](\/ queue = <<>> /\ flight = {} /\ \A t \in Tasks : task[t] # "put"
       \/ closed \/ Stalled)
==============================================================================
