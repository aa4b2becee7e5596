---------------------------- MODULE MCQueueAdapters ----------------------------
(* The queue of a host is one adapter or the other (runtime_support.py,       *)
(* create_queue_adapter).  Redis: two workers that poll the same stream.  In  *)
(* memory: two workers and a monitor, and room for one message.               *)
EXTENDS MCRedisStreamQueue, InMemoryQueue

CONSTANTS s2, monitor

VARIABLE adapter   \* the kind of the adapter

TwoSessions == {s1, s2}

HostInit == adapter \in {"redis", "memory"} /\ Init /\ MemoryInit

HostNext ==
  \/ adapter = "redis" /\ Next /\ UNCHANGED <<adapter, memoryVars>>
  \/ adapter = "memory" /\ MemoryNext /\ UNCHANGED <<adapter, vars>>

(* the fairness of either adapter: that of its workers and of time            *)
HostSpec ==
  /\ HostInit /\ [][HostNext]_<<adapter, vars, memoryVars>>
  /\ \A w \in TwoWorkers :
       /\ WF_vars(adapter = "redis" /\ Step(w))
       /\ WF_memoryVars(adapter = "memory" /\ WorkerStep(w))
  /\ WF_vars(adapter = "redis" /\ \E e \in DOMAIN stream : Expire(e))
  /\ WF_vars(adapter = "redis" /\ RemoveDeadLetter)
  /\ WF_memoryVars(adapter = "memory" /\ PutMessage(Monitor))
  /\ WF_memoryVars(adapter = "memory" /\ \E m \in flight : ExpireFlight(m))
==============================================================================
