------------------------- MODULE ExecutionLeaseProofs -------------------------
(* For any processes, nodes, ttl and clocks: a lease whose heartbeats are on   *)
(* time and lose no put is live for everyone while the session goes on.        *)
EXTENDS ExecutionLease, SequenceTheorems, TLAPS

USE ExecutionLeaseAssumption

Execution == [owner : Owners, running : BOOLEAN, leased : BOOLEAN, left : Int]
Phases == {"idle", "open", "grant", "work", "beat", "report", "dead"}
HasExecution == {"grant", "work", "beat", "report"}

LeaseTypes ==
  /\ over \in BOOLEAN
  /\ state = [n \in LeaseNodes |-> state[n]]
  /\ execs \in [LeaseNodes -> Seq(Execution)]
  /\ phase \in [Owners -> Phases]
  /\ job = [w \in Owners |-> job[w]] /\ no \in [Owners -> Nat]
  /\ due \in [Owners -> Nat] /\ lag \in [Owners -> Nat]
  /\ beating \in [Owners -> BOOLEAN] /\ late \in [Owners -> BOOLEAN]

(* where a process stands: its node, and the execution it opened               *)
PlacedAt(w) ==
  /\ phase[w] = "open" => job[w] \in LeaseNodes
  /\ phase[w] \in HasExecution =>
       /\ job[w] \in LeaseNodes /\ no[w] \in 1..Len(execs[job[w]])
       /\ Own(w).owner = w

(* the clocks and the ttl that KeptLeaseHolds asks for                         *)
Prompt == Ttl >= 3 /\ MaxSkew < 2 * Ttl

(* What is left of a kept lease is known from its heartbeat: the time since the *)
(* last one is what has passed of the interval.                               *)
KeptAt(w) ==
  Kept(w) =>
    /\ Own(w).running /\ Own(w).leased
    /\ Own(w).left >= LeaseTime - Interval + due[w]
    /\ phase[w] = "beat" => due[w] = 0 /\ lag[w] = 0

LeaseInv ==
  /\ LeaseTypes
  /\ \A w \in Owners : PlacedAt(w)
  /\ Prompt /\ ~over => \A w \in Owners : KeptAt(w)

------------------------------------------------------------------------------
LEMMA IntervalFacts ==
  /\ Interval \in Nat /\ LeaseTime \in Nat /\ LeaseTime = 3 * Ttl
  /\ Prompt => Interval <= Ttl
BY DEF Interval, LeaseTime, PerSecond, Prompt

(* an execution with enough left is live for every process                     *)
LEMMA EnoughIsLive ==
  ASSUME NEW e \in Execution, NEW v \in Owners, Prompt, e.leased,
         e.left >= LeaseTime - Interval
  PROVE  Live(e, v)
<1>1. e.owner \in Owners /\ e.left \in Int
  BY DEF Execution
<1>2. Offset[v] - Offset[e.owner] <= MaxSkew /\ Offset[v] \in Int /\ Offset[e.owner] \in Int
  BY <1>1
<1>3. e.left > MaxSkew
  BY <1>1, IntervalFacts DEF Prompt
<1>4. QED
  BY <1>1, <1>2, <1>3 DEF Live

LEMMA Endings ==
  ASSUME NEW e \in Execution
  PROVE  /\ Cleared(e) \in Execution /\ Over(e) \in Execution /\ Elapsed(e) \in Execution
         /\ \A t \in Int : /\ Leased(e, t) \in Execution /\ Leased(e, t).owner = e.owner
                            /\ Leased(e, t).leased /\ Leased(e, t).left = t
                            /\ Leased(e, t).running = e.running
         /\ Cleared(e).owner = e.owner /\ Over(e).owner = e.owner
         /\ Elapsed(e).owner = e.owner
         /\ Elapsed(e).running = e.running /\ Elapsed(e).leased = e.leased
         /\ e.leased /\ e.left > -MaxSkew => Elapsed(e).left = e.left - 1
<1>1. /\ e = [owner |-> e.owner, running |-> e.running, leased |-> e.leased, left |-> e.left]
      /\ e.owner \in Owners /\ e.running \in BOOLEAN /\ e.leased \in BOOLEAN /\ e.left \in Int
  BY DEF Execution
<1>2. /\ Cleared(e) \in Execution /\ Over(e) \in Execution
      /\ Cleared(e).owner = e.owner /\ Over(e).owner = e.owner
      /\ \A t \in Int : /\ Leased(e, t) \in Execution /\ Leased(e, t).owner = e.owner
                         /\ Leased(e, t).leased /\ Leased(e, t).left = t
                         /\ Leased(e, t).running = e.running
  BY <1>1 DEF Cleared, Over, Leased, Execution
<1>3. CASE e.leased /\ e.left > -MaxSkew
  <2>1. Elapsed(e) = [owner |-> e.owner, running |-> e.running, leased |-> e.leased,
                      left |-> e.left - 1]
    BY <1>1, <1>3 DEF Elapsed
  <2>2. QED
    BY <1>1, <1>2, <2>1 DEF Execution
<1>4. CASE ~(e.leased /\ e.left > -MaxSkew)
  <2>1. Elapsed(e) = e
    BY <1>4 DEF Elapsed
  <2>2. QED
    BY <1>1, <1>2, <1>4, <2>1 DEF Execution
<1>5. QED
  BY <1>3, <1>4

------------------------------------------------------------------------------
(* Executions are appended, and keep their owners                              *)

Grows(after) ==
  /\ after \in [LeaseNodes -> Seq(Execution)]
  /\ \A n \in LeaseNodes :
       /\ Len(after[n]) >= Len(execs[n])
       /\ \A i \in 1..Len(execs[n]) : after[n][i].owner = execs[n][i].owner

(* one execution becomes e                                                    *)
Changed(after, n, i, e) == after = [execs EXCEPT ![n] = [execs[n] EXCEPT ![i] = e]]

LEMMA OneChange ==
  ASSUME execs \in [LeaseNodes -> Seq(Execution)],
         NEW n \in LeaseNodes, NEW i \in 1..Len(execs[n]), NEW e \in Execution,
         e.owner = execs[n][i].owner,
         NEW after, Changed(after, n, i, e)
  PROVE  /\ Grows(after) /\ after[n][i] = e
         /\ \A m \in LeaseNodes : \A j \in 1..Len(execs[m]) :
              <<m, j>> # <<n, i>> => after[m][j] = execs[m][j]
<1>1. execs[n] \in Seq(Execution)
  OBVIOUS
<1>2. /\ [execs[n] EXCEPT ![i] = e] \in Seq(Execution)
      /\ Len([execs[n] EXCEPT ![i] = e]) = Len(execs[n])
      /\ \A j \in 1..Len(execs[n]) :
           [execs[n] EXCEPT ![i] = e][j] = IF j = i THEN e ELSE execs[n][j]
  BY <1>1, ExceptSeq
<1>3. QED
  BY <1>2 DEF Grows, Changed

LEMMA EveryChange ==
  ASSUME execs \in [LeaseNodes -> Seq(Execution)],
         NEW after,
         after = [n \in LeaseNodes |-> [i \in 1..Len(execs[n]) |-> after[n][i]]],
         \A n \in LeaseNodes : \A i \in 1..Len(execs[n]) :
           after[n][i] \in Execution /\ after[n][i].owner = execs[n][i].owner
  PROVE  Grows(after)
<1>1. ASSUME NEW n \in LeaseNodes
      PROVE  after[n] \in Seq(Execution) /\ Len(after[n]) = Len(execs[n])
  <2>1. Len(execs[n]) \in Nat
    OBVIOUS
  <2>2. after[n] = [i \in 1..Len(execs[n]) |-> after[n][i]]
    OBVIOUS
  <2>3. after[n] \in [1..Len(execs[n]) -> Execution]
    BY <2>2
  <2>4. QED
    BY <2>1, <2>3
<1>2. after \in [LeaseNodes -> Seq(Execution)]
  BY <1>1
<1>3. QED
  BY <1>1, <1>2 DEF Grows

(* what recovery does to the executions                                        *)
LEMMA RecoveryGrows ==
  ASSUME LeaseTypes, NEW w \in Owners
  PROVE  /\ Grows(Recovery(w))
         /\ \A n \in LeaseNodes : \A i \in 1..Len(execs[n]) :
              Recovery(w)[n][i] # execs[n][i] => Abandoned(n, w) /\ i = Len(execs[n])
<1> DEFINE L(n) == Len(execs[n])
<1>1. ASSUME NEW n \in LeaseNodes
      PROVE  /\ Recovery(w)[n] \in Seq(Execution) /\ Len(Recovery(w)[n]) = L(n)
             /\ \A i \in 1..L(n) :
                  /\ Recovery(w)[n][i].owner = execs[n][i].owner
                  /\ Recovery(w)[n][i] # execs[n][i] => Abandoned(n, w) /\ i = L(n)
  <2>1. execs[n] \in Seq(Execution) /\ L(n) \in Nat
    BY DEF LeaseTypes
  <2>2. CASE ~Abandoned(n, w)
    BY <2>1, <2>2 DEF Recovery
  <2>3. CASE Abandoned(n, w)
    <3>1. L(n) \in 1..L(n) /\ execs[n][L(n)] \in Execution
      BY <2>1, <2>3 DEF Abandoned
    <3>2. /\ Over(execs[n][L(n)]) \in Execution
          /\ Over(execs[n][L(n)]).owner = execs[n][L(n)].owner
      BY <3>1, Endings
    <3>3. Recovery(w)[n] = [execs[n] EXCEPT ![L(n)] = Over(execs[n][L(n)])]
      BY <2>3 DEF Recovery
    <3>4. QED
      BY <2>1, <2>3, <3>1, <3>2, <3>3, ExceptSeq
  <2>4. QED
    BY <2>2, <2>3
<1>2. Recovery(w) \in [LeaseNodes -> Seq(Execution)]
  BY <1>1 DEF Recovery
<1>3. QED
  BY <1>1, <1>2 DEF Grows

LEMMA EndingGrows ==
  ASSUME LeaseTypes, NEW n \in LeaseNodes, execs[n] # <<>>
  PROVE  /\ Grows(EndLast(n))
         /\ \A m \in LeaseNodes : \A i \in 1..Len(execs[m]) :
              EndLast(n)[m][i] # execs[m][i] => m = n /\ i = Len(execs[n])
<1> DEFINE i == Len(execs[n])
           e == IF execs[n][i].running THEN Over(execs[n][i]) ELSE execs[n][i]
<1>1. execs[n] \in Seq(Execution) /\ i \in 1..Len(execs[n]) /\ execs[n][i] \in Execution
  BY DEF LeaseTypes
<1>2. e \in Execution /\ e.owner = execs[n][i].owner
  BY <1>1, Endings
<1>3. Changed(EndLast(n), n, i, e)
  BY DEF EndLast, Changed
<1>4. execs \in [LeaseNodes -> Seq(Execution)]
  BY DEF LeaseTypes
<1> HIDE DEF e, i
<1>5. /\ Grows(EndLast(n))
      /\ \A m \in LeaseNodes : \A j \in 1..Len(execs[m]) :
           <<m, j>> # <<n, i>> => EndLast(n)[m][j] = execs[m][j]
  BY <1>1, <1>2, <1>3, <1>4, OneChange
<1>6. QED
  BY <1>5 DEF i

(* the end of the session clears every lease                                  *)
LEMMA SessionEndGrows ==
  ASSUME LeaseTypes, NEW STATE after, Grows(after), SessionEnds(after)
  PROVE  Grows(execs')
<1>1. ASSUME NEW n \in LeaseNodes
      PROVE  /\ execs'[n] \in Seq(Execution) /\ Len(execs'[n]) = Len(after[n])
             /\ \A i \in 1..Len(after[n]) : execs'[n][i].owner = after[n][i].owner
  <2>0. after \in [LeaseNodes -> Seq(Execution)]
    BY DEF Grows
  <2>1. after[n] \in Seq(Execution) /\ Len(after[n]) \in Nat
    BY <2>0
  <2>2. execs'[n] = [i \in 1..Len(after[n]) |-> Cleared(after[n][i])]
    BY DEF SessionEnds
  <2>3. \A i \in 1..Len(after[n]) :
          Cleared(after[n][i]) \in Execution /\ Cleared(after[n][i]).owner = after[n][i].owner
    BY <2>1, Endings
  <2>4. QED
    BY <2>1, <2>2, <2>3
<1>2. execs' \in [LeaseNodes -> Seq(Execution)]
  BY <1>1 DEF SessionEnds
<1>3. ASSUME NEW n \in LeaseNodes
      PROVE  /\ Len(execs'[n]) >= Len(execs[n])
             /\ \A i \in 1..Len(execs[n]) : execs'[n][i].owner = execs[n][i].owner
  <2>1. Len(execs[n]) \in Nat /\ Len(after[n]) \in Nat
    BY DEF LeaseTypes, Grows
  <2>2. /\ Len(after[n]) >= Len(execs[n])
        /\ \A i \in 1..Len(execs[n]) : after[n][i].owner = execs[n][i].owner
    BY DEF Grows
  <2>3. 1..Len(execs[n]) \subseteq 1..Len(after[n])
    BY <2>1, <2>2
  <2>4. QED
    BY <1>1, <2>2, <2>3
<1>4. QED
  BY <1>2, <1>3 DEF Grows

LEMMA AppendGrows ==
  ASSUME LeaseTypes, NEW n \in LeaseNodes, NEW e \in Execution,
         execs' = [execs EXCEPT ![n] = Append(@, e)]
  PROVE  /\ Grows(execs')
         /\ \A m \in LeaseNodes : \A i \in 1..Len(execs[m]) : execs'[m][i] = execs[m][i]
         /\ Len(execs'[n]) = Len(execs[n]) + 1 /\ execs'[n][Len(execs[n]) + 1] = e
<1>1. execs[n] \in Seq(Execution) /\ Len(execs[n]) \in Nat
  BY DEF LeaseTypes
<1>2. execs'[n] = Append(execs[n], e) /\ \A m \in LeaseNodes : m # n => execs'[m] = execs[m]
  BY DEF LeaseTypes
<1>3. /\ execs'[n] \in Seq(Execution) /\ Len(execs'[n]) = Len(execs[n]) + 1
      /\ execs'[n][Len(execs[n]) + 1] = e
      /\ \A i \in 1..Len(execs[n]) : execs'[n][i] = execs[n][i]
  BY <1>1, <1>2, AppendProperties
<1>4. execs' \in [LeaseNodes -> Seq(Execution)]
  BY <1>2, <1>3 DEF LeaseTypes
<1>5. QED
  BY <1>1, <1>2, <1>3, <1>4 DEF Grows, LeaseTypes

(* the lease of a process that has an execution is written                     *)
LEMMA LeasedGrows ==
  ASSUME LeaseTypes, NEW w \in Owners, PlacedAt(w), phase[w] \in HasExecution, NEW t \in Int,
         NEW after, Changed(after, job[w], no[w], Leased(Own(w), t))
  PROVE  /\ Grows(after)
         /\ after[job[w]][no[w]] = Leased(Own(w), t)
<1>1. job[w] \in LeaseNodes /\ no[w] \in 1..Len(execs[job[w]])
  BY DEF PlacedAt
<1>2. execs \in [LeaseNodes -> Seq(Execution)]
  BY DEF LeaseTypes
<1>3. Own(w) \in Execution
  BY <1>1, <1>2 DEF Own, LeaseTypes
<1>4. Leased(Own(w), t) \in Execution /\ Leased(Own(w), t).owner = Own(w).owner
  BY <1>3, Endings
<1>5. Leased(Own(w), t).owner = execs[job[w]][no[w]].owner
  BY <1>4 DEF Own
<1>6. ASSUME NEW n \in LeaseNodes, NEW i \in 1..Len(execs[n]), NEW e \in Execution,
             e.owner = execs[n][i].owner, Changed(after, n, i, e)
      PROVE  Grows(after) /\ after[n][i] = e
  BY <1>2, <1>6, OneChange
<1>7. QED
  BY <1>1, <1>4, <1>5, <1>6, Zenon

LEMMA TimeGrows ==
  ASSUME LeaseTypes, TimePasses
  PROVE  /\ Grows(execs')
         /\ \A n \in LeaseNodes : \A i \in 1..Len(execs[n]) :
              execs'[n][i] = Elapsed(execs[n][i])
<1>1. execs' = [n \in LeaseNodes |-> [i \in 1..Len(execs[n]) |-> Elapsed(execs[n][i])]]
  BY DEF TimePasses
<1>2. execs \in [LeaseNodes -> Seq(Execution)]
  BY DEF LeaseTypes
<1>3. \A n \in LeaseNodes : \A i \in 1..Len(execs[n]) : execs[n][i] \in Execution
  BY <1>2
<1>4. execs' = [n \in LeaseNodes |-> [i \in 1..Len(execs[n]) |-> execs'[n][i]]]
  BY <1>1
<1>5. QED
  BY <1>1, <1>2, <1>3, <1>4, EveryChange, Endings
------------------------------------------------------------------------------
(* Where the processes stand                                                   *)

LEMMA StaysPlaced ==
  ASSUME LeaseTypes, NEW w \in Owners, PlacedAt(w), Grows(execs'),
         \/ phase'[w] \in {"idle", "dead"}
         \/ /\ job'[w] = job[w] /\ no'[w] = no[w]
            /\ \/ phase'[w] = phase[w]
               \/ phase[w] \in HasExecution /\ phase'[w] \in HasExecution
  PROVE  PlacedAt(w)'
<1>1. CASE phase'[w] \in {"idle", "dead"}
  BY <1>1 DEF PlacedAt, HasExecution
<1>2. CASE phase'[w] = "open" /\ phase[w] = "open" /\ job'[w] = job[w]
  BY <1>2 DEF PlacedAt, HasExecution
<1>3. CASE /\ phase[w] \in HasExecution /\ phase'[w] \in HasExecution
           /\ job'[w] = job[w] /\ no'[w] = no[w]
  <2>1. job[w] \in LeaseNodes /\ no[w] \in 1..Len(execs[job[w]]) /\ Own(w).owner = w
    BY <1>3 DEF PlacedAt
  <2>2. ASSUME NEW n \in LeaseNodes, NEW i \in 1..Len(execs[n])
        PROVE  i \in 1..Len(execs'[n]) /\ execs'[n][i].owner = execs[n][i].owner
    <3>1. Len(execs'[n]) >= Len(execs[n]) /\ execs'[n][i].owner = execs[n][i].owner
      BY DEF Grows
    <3>2. Len(execs[n]) \in Nat /\ Len(execs'[n]) \in Nat
      BY DEF LeaseTypes, Grows
    <3>3. QED
      BY <3>1, <3>2
  <2>3. /\ no[w] \in 1..Len(execs'[job[w]])
        /\ execs'[job[w]][no[w]].owner = execs[job[w]][no[w]].owner
    BY <2>1, <2>2, Zenon
  <2>4. "open" # phase'[w]
    BY <1>3 DEF HasExecution
  <2>5. Own(w)' = execs'[job[w]][no[w]]
    BY <1>3 DEF Own
  <2>6. Own(w).owner = execs[job[w]][no[w]].owner
    BY DEF Own
  <2>7. QED
    BY <1>3, <2>1, <2>3, <2>4, <2>5, <2>6 DEF PlacedAt
<1>4. QED
  BY <1>1, <1>2, <1>3 DEF LeaseTypes, Phases, HasExecution, PlacedAt

(* what a process leaves alone of the others                                   *)
Others(v) ==
  \A w \in Owners : w # v =>
    /\ phase'[w] = phase[w] /\ job'[w] = job[w] /\ no'[w] = no[w] /\ due'[w] = due[w]
    /\ lag'[w] = lag[w] /\ beating'[w] = beating[w] /\ late'[w] = late[w]

RunTypes ==
  /\ phase \in [Owners -> Phases]
  /\ job = [w \in Owners |-> job[w]] /\ no \in [Owners -> Nat]
  /\ due \in [Owners -> Nat] /\ lag \in [Owners -> Nat]
  /\ beating \in [Owners -> BOOLEAN] /\ late \in [Owners -> BOOLEAN]

LEMMA LeavingTypes ==
  ASSUME LeaseTypes, NEW v \in Owners, NEW where \in {"idle", "dead"}, Leaves(v, where)
  PROVE  RunTypes' /\ Others(v) /\ phase'[v] = where
BY DEF Leaves, LeaseTypes, RunTypes, Others, Phases

LEMMA StepTypes ==
  ASSUME LeaseTypes, NEW v \in Owners, PlacedAt(v), OwnerStep(v)
  PROVE  RunTypes' /\ Others(v) /\ over' \in BOOLEAN /\ state' = [n \in LeaseNodes |-> state'[n]]
<1> USE DEF LeaseTypes, RunTypes, Others, Phases, runOf
<1>1. CASE Pick(v)
  BY <1>1 DEF Pick, SessionEnds
<1>2. CASE OpenExecution(v)
  <2>1. CASE Raises(v)
    BY <2>1, LeavingTypes DEF Raises
  <2>2. CASE ~Raises(v)
    <3>1. phase[v] = "open"
      BY <1>2 DEF OpenExecution
    <3>2. job[v] \in LeaseNodes
      BY <3>1 DEF PlacedAt
    <3>3. execs[job[v]] \in Seq(Execution)
      BY <3>2
    <3>4. Len(execs[job[v]]) + 1 \in Nat
      BY <3>3
    <3>5. /\ state' = [state EXCEPT ![job[v]] = IF @ = "QUEUED" THEN "RUNNING" ELSE @]
          /\ no' = [no EXCEPT ![v] = Len(execs[job[v]]) + 1]
          /\ phase' = [phase EXCEPT ![v] = "grant"]
          /\ UNCHANGED <<over, job, due, lag, beating, late>>
      BY <1>2, <2>2 DEF OpenExecution
    <3>6. QED
      BY <3>4, <3>5
  <2>3. QED
    BY <2>1, <2>2
<1>3. CASE GrantExecutionLease(v)
  <2>1. CASE Raises(v)
    BY <2>1, LeavingTypes DEF Raises
  <2>2. CASE ~Raises(v)
    <3>1. /\ phase' = [phase EXCEPT ![v] = "work"] /\ due' = [due EXCEPT ![v] = Interval]
          /\ UNCHANGED <<over, state, job, no, lag, beating, late>>
      BY <1>3, <2>2 DEF GrantExecutionLease
    <3>2. QED
      BY <3>1, IntervalFacts
  <2>3. QED
    BY <2>1, <2>2
<1>4. CASE AgentPuts(v) \/ AgentEnds(v)
  BY <1>4 DEF AgentPuts, AgentEnds
<1>5. CASE HeartbeatReads(v)
  BY <1>5 DEF HeartbeatReads
<1>6. CASE HeartbeatPuts(v)
  BY <1>6, IntervalFacts DEF HeartbeatPuts
<1>7. ASSUME NEW failed \in BOOLEAN, ReportExecution(v, failed)
      PROVE  RunTypes' /\ Others(v) /\ over' \in BOOLEAN
             /\ state' = [n \in LeaseNodes |-> state'[n]]
  <2>1. RunTypes' /\ Others(v)
    BY <1>7, LeavingTypes DEF ReportExecution, Raises
  <2>2. QED
    BY <1>7, <2>1 DEF ReportExecution, Raises, SessionEnds
<1>8. CASE Dies(v)
  BY <1>8, LeavingTypes DEF Dies
<1>9. QED
  BY <1>1, <1>2, <1>3, <1>4, <1>5, <1>6, <1>7, <1>8 DEF OwnerStep

LEMMA NothingGrows ==
  ASSUME LeaseTypes, execs' = execs
  PROVE  Grows(execs')
BY DEF LeaseTypes, Grows

(* the execution of a process that has one, and the last one of its node       *)
LEMMA OwnTypes ==
  ASSUME LeaseTypes, NEW w \in Owners, PlacedAt(w), phase[w] \in HasExecution
  PROVE  /\ job[w] \in LeaseNodes /\ no[w] \in 1..Len(execs[job[w]])
         /\ Own(w) \in Execution /\ Own(w).owner = w
         /\ execs[job[w]] # <<>> /\ Last(job[w]) \in Execution
         /\ Len(execs[job[w]]) \in 1..Len(execs[job[w]])
<1>1. job[w] \in LeaseNodes /\ no[w] \in 1..Len(execs[job[w]]) /\ Own(w).owner = w
  BY DEF PlacedAt
<1>2. execs[job[w]] \in Seq(Execution) /\ no[w] \in Nat
  BY <1>1 DEF LeaseTypes
<1>3. Len(execs[job[w]]) \in 1..Len(execs[job[w]]) /\ execs[job[w]] # <<>>
  BY <1>1, <1>2
<1>4. Last(job[w]) \in Execution
  BY <1>2, <1>3 DEF Last
<1>5. Own(w) \in Execution
  BY <1>1, <1>2 DEF Own
<1>6. QED
  BY <1>1, <1>3, <1>4, <1>5

(* opening: phase[v] = "open" and the node is one                              *)
LEMMA Opening ==
  ASSUME LeaseTypes, NEW v \in Owners, PlacedAt(v), OpenExecution(v), ~Raises(v)
  PROVE  /\ Grows(execs')
         /\ \A m \in LeaseNodes : \A i \in 1..Len(execs[m]) : execs'[m][i] = execs[m][i]
         /\ phase'[v] = "grant" /\ PlacedAt(v)'
<1> DEFINE e == [owner |-> v, running |-> TRUE, leased |-> FALSE, left |-> 0]
<1>1. phase[v] = "open" /\ job[v] \in LeaseNodes
  BY DEF OpenExecution, PlacedAt
<1>2. /\ execs' = [execs EXCEPT ![job[v]] = Append(@, e)]
      /\ no' = [no EXCEPT ![v] = Len(execs[job[v]]) + 1]
      /\ phase' = [phase EXCEPT ![v] = "grant"] /\ job' = job
  BY DEF OpenExecution
<1>3. e \in Execution /\ e.owner = v
  BY DEF Execution
<1> HIDE DEF e
<1>4. /\ Grows(execs')
      /\ \A m \in LeaseNodes : \A i \in 1..Len(execs[m]) : execs'[m][i] = execs[m][i]
      /\ Len(execs'[job[v]]) = Len(execs[job[v]]) + 1
      /\ execs'[job[v]][Len(execs[job[v]]) + 1] = e
  BY <1>1, <1>2, <1>3, AppendGrows
<1>5. phase'[v] = "grant" /\ job'[v] = job[v] /\ no'[v] = Len(execs[job[v]]) + 1
  BY <1>2 DEF LeaseTypes
<1>6. no'[v] \in 1..Len(execs'[job[v]])
  <2>1. Len(execs[job[v]]) \in Nat
    BY <1>1 DEF LeaseTypes
  <2>2. QED
    BY <2>1, <1>4, <1>5
<1>7. Own(v)'.owner = v
  BY <1>3, <1>4, <1>5 DEF Own
<1>8. QED
  BY <1>1, <1>4, <1>5, <1>6, <1>7 DEF PlacedAt, HasExecution

LEMMA StepGrows ==
  ASSUME LeaseTypes, NEW v \in Owners, PlacedAt(v), OwnerStep(v)
  PROVE  Grows(execs')
<1>1. CASE Pick(v)
  <2>1. Grows(Recovery(v)) /\ Grows(execs)
    BY RecoveryGrows DEF LeaseTypes, Grows
  <2>2. QED
    BY <1>1, <2>1, SessionEndGrows DEF Pick
<1>2. CASE OpenExecution(v)
  BY <1>2, Opening, NothingGrows DEF Raises
<1>3. CASE GrantExecutionLease(v)
  <2>1. CASE Raises(v)
    BY <2>1, NothingGrows DEF Raises
  <2>2. CASE ~Raises(v)
    <3>1. /\ phase[v] \in HasExecution
          /\ Changed(execs', job[v], no[v], Leased(Own(v), LeaseTime))
      BY <1>3, <2>2 DEF GrantExecutionLease, HasExecution, Changed, Own
    <3>2. QED
      BY <3>1, LeasedGrows, IntervalFacts
  <2>3. QED
    BY <2>1, <2>2
<1>4. CASE AgentPuts(v) \/ AgentEnds(v) \/ HeartbeatReads(v) \/ Dies(v)
  BY <1>4, NothingGrows DEF AgentPuts, AgentEnds, HeartbeatReads, Dies
<1>5. CASE HeartbeatPuts(v)
  <2>1. CASE v \notin fresh
    BY <1>5, <2>1, NothingGrows DEF HeartbeatPuts
  <2>2. CASE v \in fresh
    <3>1. /\ phase[v] \in HasExecution
          /\ Changed(execs', job[v], no[v], Leased(Own(v), Renewed(v)))
      BY <1>5, <2>2 DEF HeartbeatPuts, HasExecution, Changed, Own
    <3>2. Renewed(v) \in Int
      BY IntervalFacts DEF Renewed, LeaseTypes
    <3>3. QED
      BY <3>1, <3>2, LeasedGrows
  <2>3. QED
    BY <2>1, <2>2
<1>6. ASSUME NEW failed \in BOOLEAN, ReportExecution(v, failed)
      PROVE  Grows(execs')
  <2>1. CASE ~Accepts(v)
    BY <1>6, <2>1, NothingGrows DEF ReportExecution, Raises
  <2>2. CASE Accepts(v)
    <3>1. phase[v] \in HasExecution
      BY <1>6 DEF ReportExecution, HasExecution
    <3>2. Grows(EndLast(job[v]))
      BY <3>1, OwnTypes, EndingGrows
    <3>3. \/ SessionEnds(EndLast(job[v])) \/ execs' = EndLast(job[v]) \/ execs' = execs
      BY <1>6, <2>2 DEF ReportExecution
    <3>4. QED
      BY <3>2, <3>3, SessionEndGrows, NothingGrows
  <2>3. QED
    BY <2>1, <2>2
<1>7. QED
  BY <1>1, <1>2, <1>3, <1>4, <1>5, <1>6 DEF OwnerStep

LEMMA StepPlaced ==
  ASSUME LeaseTypes, \A w \in Owners : PlacedAt(w), NEW v \in Owners, OwnerStep(v)
  PROVE  \A w \in Owners : PlacedAt(w)'
<1>1. Grows(execs') /\ RunTypes' /\ Others(v)
  BY StepGrows, StepTypes
<1>2. ASSUME NEW w \in Owners, w # v
      PROVE  PlacedAt(w)'
  <2>1. phase'[w] = phase[w] /\ job'[w] = job[w] /\ no'[w] = no[w]
    BY <1>1, <1>2 DEF Others
  <2>2. QED
    BY <1>1, <2>1, StaysPlaced
<1>3. PlacedAt(v)'
  <2>1. CASE Pick(v)
    <3>1. CASE UNCHANGED <<job, phase>>
      <4>1. no' = no
        BY <2>1 DEF Pick
      <4>2. QED
        BY <1>1, <3>1, <4>1, StaysPlaced
    <3>2. CASE ~UNCHANGED <<job, phase>>
      <4>1. PICK n \in LeaseNodes :
              job' = [job EXCEPT ![v] = n] /\ phase' = [phase EXCEPT ![v] = "open"]
        BY <2>1, <3>2 DEF Pick, Startable
      <4>2. phase'[v] = "open" /\ job'[v] = n
        BY <4>1 DEF LeaseTypes
      <4>3. QED
        BY <4>2 DEF PlacedAt, HasExecution
    <3>3. QED
      BY <3>1, <3>2
  <2>2. CASE OpenExecution(v)
    <3>1. CASE Raises(v)
      <4>1. phase'[v] = "idle"
        BY <3>1, LeavingTypes DEF Raises
      <4>2. QED
        BY <1>1, <4>1, StaysPlaced
    <3>2. QED
      BY <2>2, <3>1, Opening
  <2>3. CASE GrantExecutionLease(v)
    <3>1. CASE Raises(v)
      <4>1. phase'[v] = "idle"
        BY <3>1, LeavingTypes DEF Raises
      <4>2. QED
        BY <1>1, <4>1, StaysPlaced
    <3>2. CASE ~Raises(v)
      <4>1. /\ phase[v] = "grant" /\ phase' = [phase EXCEPT ![v] = "work"]
            /\ job' = job /\ no' = no
        BY <2>3, <3>2 DEF GrantExecutionLease
      <4>2. phase'[v] = "work"
        BY <4>1 DEF LeaseTypes
      <4>3. QED
        BY <1>1, <4>1, <4>2, StaysPlaced DEF HasExecution
    <3>3. QED
      BY <3>1, <3>2
  <2>4. CASE AgentPuts(v) \/ AgentEnds(v) \/ HeartbeatReads(v) \/ HeartbeatPuts(v)
    <3>1. job' = job /\ no' = no /\ phase[v] \in {"work", "beat"}
      BY <2>4 DEF AgentPuts, AgentEnds, HeartbeatReads, HeartbeatPuts, runOf
    <3>2. phase'[v] \in {"work", "beat", "report"}
      BY <2>4 DEF AgentPuts, AgentEnds, HeartbeatReads, HeartbeatPuts, LeaseTypes
    <3>3. QED
      BY <1>1, <3>1, <3>2, StaysPlaced DEF HasExecution
  <2>5. ASSUME NEW failed \in BOOLEAN, ReportExecution(v, failed)
        PROVE  PlacedAt(v)'
    <3>1. phase'[v] = "idle"
      BY <2>5, LeavingTypes DEF ReportExecution, Raises
    <3>2. QED
      BY <1>1, <3>1, StaysPlaced
  <2>6. CASE Dies(v)
    <3>1. phase'[v] = "dead"
      BY <2>6, LeavingTypes DEF Dies
    <3>2. QED
      BY <1>1, <3>1, StaysPlaced
  <2>7. QED
    BY <2>1, <2>2, <2>3, <2>4, <2>5, <2>6 DEF OwnerStep
<1>4. QED
  BY <1>2, <1>3

LEMMA TimeKeepsTypes ==
  ASSUME LeaseTypes, \A w \in Owners : PlacedAt(w), TimePasses
  PROVE  LeaseTypes' /\ \A w \in Owners : PlacedAt(w)'
<1>1. Grows(execs')
  BY TimeGrows
<1>2. UNCHANGED <<over, state, phase, job, no, beating>>
  BY DEF TimePasses
<1>3. due' \in [Owners -> Nat]
  BY DEF TimePasses, LeaseTypes
<1>4. lag' \in [Owners -> Nat]
  BY DEF TimePasses, LeaseTypes
<1>5. late' \in [Owners -> BOOLEAN]
  BY DEF TimePasses, LeaseTypes
<1>6. LeaseTypes'
  BY <1>1, <1>2, <1>3, <1>4, <1>5 DEF LeaseTypes, Grows
<1>7. QED
  BY <1>1, <1>2, <1>6, StaysPlaced

------------------------------------------------------------------------------
(* Kept leases                                                                 *)

LEMMA KeptIsLive ==
  ASSUME LeaseTypes, Prompt, NEW w \in Owners, PlacedAt(w), KeptAt(w), Kept(w)
  PROVE  /\ phase[w] \in HasExecution
         /\ job[w] \in LeaseNodes /\ no[w] \in 1..Len(execs[job[w]])
         /\ Own(w) \in Execution /\ Own(w).owner = w
         /\ Own(w).running /\ Own(w).leased /\ Own(w).left > MaxSkew
         /\ \A v \in Owners : Live(Own(w), v)
<1>1. phase[w] \in HasExecution
  BY DEF Kept, Busy, HasExecution
<1>2. /\ job[w] \in LeaseNodes /\ no[w] \in 1..Len(execs[job[w]])
      /\ Own(w) \in Execution /\ Own(w).owner = w
  BY <1>1, OwnTypes
<1>3. /\ Own(w).running /\ Own(w).leased
      /\ Own(w).left >= LeaseTime - Interval + due[w]
  BY DEF KeptAt
<1>4. due[w] \in Nat /\ Own(w).left \in Int
  BY <1>2 DEF LeaseTypes, Execution
<1>5. Own(w).left >= LeaseTime - Interval
  BY <1>3, <1>4, IntervalFacts
<1>6. Own(w).left > MaxSkew
  BY <1>4, <1>5, IntervalFacts DEF Prompt
<1>7. QED
  BY <1>1, <1>2, <1>3, <1>5, <1>6, EnoughIsLive

(* no step of another process touches the execution of a kept lease            *)
LEMMA OthersSpareKept ==
  ASSUME LeaseTypes, Prompt, \A u \in Owners : PlacedAt(u),
         NEW v \in Owners, OwnerStep(v), ~over',
         NEW w \in Owners, w # v, KeptAt(w), Kept(w)
  PROVE  execs'[job[w]][no[w]] = execs[job[w]][no[w]]
<1>0. PlacedAt(v)
  OBVIOUS
<1>1. /\ phase[w] \in HasExecution
      /\ job[w] \in LeaseNodes /\ no[w] \in 1..Len(execs[job[w]])
      /\ Own(w).owner = w /\ Own(w).leased
      /\ Live(Own(w), v)
  BY KeptIsLive
<1>2. phase[v] \in HasExecution => job[w] # job[v] \/ no[w] # no[v]
  BY <1>1, OwnTypes DEF Own
<1>12. ASSUME NEW t \in Int, phase[v] \in HasExecution,
             Changed(execs', job[v], no[v], Leased(Own(v), t))
      PROVE  execs'[job[w]][no[w]] = execs[job[w]][no[w]]
  <2>1. execs[job[w]] \in Seq(Execution)
    BY <1>1 DEF LeaseTypes
  <2>2. CASE job[w] # job[v]
    BY <1>1, <1>12, <2>2 DEF Changed, LeaseTypes
  <2>3. CASE job[w] = job[v] /\ no[w] # no[v]
    <3>1. execs'[job[w]] = [execs[job[w]] EXCEPT ![no[v]] = Leased(Own(v), t)]
      BY <1>1, <1>12, <2>3 DEF Changed, LeaseTypes
    <3>2. QED
      BY <1>1, <2>1, <2>3, <3>1
  <2>4. QED
    BY <1>2, <1>12, <2>2, <2>3
<1>3. CASE Pick(v)
  <2>1. execs' = Recovery(v) \/ execs' = execs
    BY <1>3 DEF Pick, SessionEnds
  <2>2. SUFFICES ASSUME Recovery(v)[job[w]][no[w]] # execs[job[w]][no[w]]
                 PROVE  FALSE
    BY <2>1
  <2>3. Abandoned(job[w], v) /\ no[w] = Len(execs[job[w]])
    BY <1>1, <2>2, RecoveryGrows
  <2>4. QED
    BY <1>1, <2>3 DEF Abandoned, Last, Own
<1>4. CASE Raises(v)
  BY <1>4 DEF Raises
<1>5. CASE OpenExecution(v) /\ ~Raises(v)
  BY <1>1, <1>5, Opening
<1>6. CASE GrantExecutionLease(v) /\ ~Raises(v)
  <2>1. /\ phase[v] \in HasExecution
        /\ Changed(execs', job[v], no[v], Leased(Own(v), LeaseTime))
    BY <1>6 DEF GrantExecutionLease, HasExecution, Changed, Own
  <2>2. LeaseTime \in Int
    BY IntervalFacts
  <2>3. QED
    BY <1>12, <2>1, <2>2, Zenon
<1>7. CASE AgentPuts(v) \/ AgentEnds(v) \/ HeartbeatReads(v) \/ Dies(v)
  BY <1>7 DEF AgentPuts, AgentEnds, HeartbeatReads, Dies
<1>8. CASE HeartbeatPuts(v)
  <2>1. CASE v \notin fresh
    BY <1>8, <2>1 DEF HeartbeatPuts
  <2>2. CASE v \in fresh
    <3>1. /\ phase[v] \in HasExecution
          /\ Changed(execs', job[v], no[v], Leased(Own(v), Renewed(v)))
      BY <1>8, <2>2 DEF HeartbeatPuts, HasExecution, Changed, Own
    <3>2. Renewed(v) \in Int
      BY IntervalFacts DEF Renewed, LeaseTypes
    <3>3. QED
      BY <1>12, <3>1, <3>2, Zenon
  <2>3. QED
    BY <2>1, <2>2
<1>9. ASSUME NEW failed \in BOOLEAN, ReportExecution(v, failed), ~Raises(v)
      PROVE  execs'[job[w]][no[w]] = execs[job[w]][no[w]]
  <2>1. phase[v] \in HasExecution /\ Accepts(v)
    BY <1>9 DEF ReportExecution, HasExecution
  <2>2. execs' = EndLast(job[v]) \/ execs' = execs
    BY <1>9 DEF ReportExecution, SessionEnds
  <2>3. SUFFICES ASSUME EndLast(job[v])[job[w]][no[w]] # execs[job[w]][no[w]]
                 PROVE  FALSE
    BY <2>2
  <2>4. job[v] \in LeaseNodes /\ execs[job[v]] # <<>>
    BY <2>1, OwnTypes
  <2>5. job[w] = job[v] /\ no[w] = Len(execs[job[v]])
    BY <1>1, <2>3, <2>4, EndingGrows
  <2>6. Last(job[v]) = Own(w)
    BY <2>5 DEF Last, Own
  <2>7. no[v] = Len(execs[job[v]])
    BY <1>1, <2>1, <2>6 DEF Accepts, LeaseAccepts
  <2>8. QED
    BY <1>2, <2>1, <2>5, <2>7
<1>10. QED
  BY <1>3, <1>4, <1>5, <1>6, <1>7, <1>8, <1>9 DEF OwnerStep

LEMMA OthersKept ==
  ASSUME LeaseTypes, Prompt, \A u \in Owners : PlacedAt(u),
         NEW v \in Owners, OwnerStep(v), ~over',
         NEW w \in Owners, w # v, KeptAt(w)
  PROVE  KeptAt(w)'
<1>1. /\ phase'[w] = phase[w] /\ job'[w] = job[w] /\ no'[w] = no[w] /\ due'[w] = due[w]
      /\ lag'[w] = lag[w] /\ beating'[w] = beating[w] /\ late'[w] = late[w]
  BY StepTypes DEF Others
<1>2. SUFFICES ASSUME Kept(w)'
               PROVE  KeptAt(w)'
  BY DEF KeptAt
<1>3. Kept(w)
  BY <1>1, <1>2 DEF Kept, Busy
<1>4. Own(w)' = Own(w)
  BY <1>1, <1>3, OthersSpareKept DEF Own
<1>5. QED
  BY <1>1, <1>3, <1>4 DEF KeptAt

LEMMA OwnKept ==
  ASSUME LeaseTypes, Prompt, NEW v \in Owners, PlacedAt(v), OwnerStep(v), KeptAt(v)
  PROVE  KeptAt(v)'
<1>1. SUFFICES ASSUME Kept(v)'
               PROVE  KeptAt(v)'
  BY DEF KeptAt
<1>2. phase'[v] \in {"work", "beat", "report"} /\ beating'[v] /\ ~late'[v]
  BY <1>1 DEF Kept, Busy
<1>3. ~Pick(v)
  BY <1>2 DEF Pick, LeaseTypes
<1>4. ~OpenExecution(v)
  <2>1. Raises(v) => phase'[v] = "idle"
    BY LeavingTypes DEF Raises
  <2>2. QED
    BY <1>2, <2>1, Opening
<1>5. ~Dies(v) /\ \A failed \in BOOLEAN : ~ReportExecution(v, failed)
  BY <1>2, LeavingTypes DEF Dies, ReportExecution, Raises
<1>6. CASE GrantExecutionLease(v)
  <2>1. ~Raises(v)
    BY <1>2, LeavingTypes DEF Raises
  <2>2. /\ phase[v] = "grant" /\ Own(v).running
        /\ Changed(execs', job[v], no[v], Leased(Own(v), LeaseTime))
        /\ phase' = [phase EXCEPT ![v] = "work"] /\ due' = [due EXCEPT ![v] = Interval]
        /\ job' = job /\ no' = no
    BY <1>6, <2>1 DEF GrantExecutionLease, Changed, Own
  <2>3. phase[v] \in HasExecution
    BY <2>2 DEF HasExecution
  <2>4. execs'[job[v]][no[v]] = Leased(Own(v), LeaseTime)
    <3>1. LeaseTime \in Int
      BY IntervalFacts
    <3>2. QED
      <4>1. Changed(execs', job[v], no[v], Leased(Own(v), LeaseTime))
        BY <2>2
      <4>2. QED
        BY <2>3, <3>1, <4>1, LeasedGrows, Zenon
  <2>5. Own(v)' = Leased(Own(v), LeaseTime)
    BY <2>2, <2>4 DEF Own
  <2>6. Own(v) \in Execution
    BY <2>3, OwnTypes
  <2>7. Own(v)'.running /\ Own(v)'.leased /\ Own(v)'.left = LeaseTime
    BY <2>2, <2>5, <2>6, Endings, IntervalFacts
  <2>8. due'[v] = Interval /\ phase'[v] = "work"
    BY <2>2 DEF LeaseTypes
  <2>9. QED
    BY <2>7, <2>8, IntervalFacts DEF KeptAt
<1>7. CASE AgentPuts(v) \/ AgentEnds(v)
  <2>1. /\ phase[v] = "work" /\ UNCHANGED <<execs, job, no, due, lag, beating, late>>
        /\ phase'[v] \in {"work", "report"}
    BY <1>7 DEF AgentPuts, AgentEnds, runOf, LeaseTypes
  <2>2. Kept(v) /\ Own(v)' = Own(v)
    BY <1>2, <2>1 DEF Kept, Busy, Own
  <2>3. QED
    BY <2>1, <2>2 DEF KeptAt
<1>8. CASE HeartbeatReads(v)
  <2>1. /\ phase[v] = "work" /\ due[v] = 0
        /\ phase' = [phase EXCEPT ![v] = "beat"] /\ lag' = [lag EXCEPT ![v] = 0]
        /\ UNCHANGED <<execs, job, no, due, beating, late>>
    BY <1>2, <1>8 DEF HeartbeatReads, LeaseTypes
  <2>2. Kept(v) /\ Own(v)' = Own(v)
    BY <1>2, <2>1 DEF Kept, Busy, Own
  <2>3. lag'[v] = 0
    BY <2>1 DEF LeaseTypes
  <2>4. QED
    BY <2>1, <2>2, <2>3 DEF KeptAt
<1>9. CASE HeartbeatPuts(v)
  <2>1. /\ phase[v] = "beat"
        /\ Changed(execs', job[v], no[v], Leased(Own(v), Renewed(v)))
        /\ phase' = [phase EXCEPT ![v] = "work"] /\ due' = [due EXCEPT ![v] = Interval]
        /\ UNCHANGED <<job, no, beating, late>>
    BY <1>2, <1>9 DEF HeartbeatPuts, LeaseTypes, Changed, Own
  <2>2. Kept(v)
    BY <1>2, <2>1 DEF Kept, Busy
  <2>3. lag[v] = 0 /\ Own(v).running
    BY <2>1, <2>2 DEF KeptAt
  <2>4. Renewed(v) = LeaseTime
    BY <2>3, IntervalFacts DEF Renewed
  <2>5. phase[v] \in HasExecution
    BY <2>1 DEF HasExecution
  <2>6. execs'[job[v]][no[v]] = Leased(Own(v), LeaseTime)
    <3>1. LeaseTime \in Int
      BY IntervalFacts
    <3>2. QED
      BY <2>1, <2>4, <2>5, <3>1, LeasedGrows, Zenon
  <2>7. Own(v)' = Leased(Own(v), LeaseTime)
    BY <2>1, <2>6 DEF Own
  <2>8. Own(v) \in Execution
    BY <2>5, OwnTypes
  <2>9. Own(v)'.running /\ Own(v)'.leased /\ Own(v)'.left = LeaseTime
    <3>1. \A t \in Int : /\ Leased(Own(v), t).running = Own(v).running
                         /\ Leased(Own(v), t).leased /\ Leased(Own(v), t).left = t
      BY <2>8, Endings
    <3>2. /\ Leased(Own(v), LeaseTime).running = Own(v).running
          /\ Leased(Own(v), LeaseTime).leased /\ Leased(Own(v), LeaseTime).left = LeaseTime
      BY <3>1, IntervalFacts
    <3>3. QED
      BY <2>3, <2>7, <3>2, Zenon
  <2>10. due'[v] = Interval /\ phase'[v] = "work"
    BY <2>1 DEF LeaseTypes
  <2>11. QED
    BY <2>9, <2>10, IntervalFacts DEF KeptAt
<1>10. QED
  BY <1>3, <1>4, <1>5, <1>6, <1>7, <1>8, <1>9 DEF OwnerStep

(* what has passed of the interval has passed of the lease                     *)
LEMMA TimeKeeps ==
  ASSUME LeaseTypes, Prompt, TimePasses, NEW w \in Owners, PlacedAt(w), KeptAt(w)
  PROVE  KeptAt(w)'
<1>1. SUFFICES ASSUME Kept(w)'
               PROVE  KeptAt(w)'
  BY DEF KeptAt
<1>2. /\ UNCHANGED <<phase, job, no, beating>>
      /\ due'[w] = IF Busy(w) /\ due[w] > 0 THEN due[w] - 1 ELSE due[w]
      /\ late'[w] = (late[w] \/ (Busy(w) /\ due[w] = 0))
  BY DEF TimePasses
<1>3. Kept(w) /\ due[w] # 0
  BY <1>1, <1>2 DEF Kept, Busy
<1>4. /\ job[w] \in LeaseNodes /\ no[w] \in 1..Len(execs[job[w]])
      /\ Own(w) \in Execution /\ Own(w).running /\ Own(w).leased /\ Own(w).left > MaxSkew
  BY <1>3, KeptIsLive
<1>5. Own(w)' = Elapsed(Own(w))
  BY <1>2, <1>4, TimeGrows DEF Own
<1>6. Own(w).left \in Int /\ Own(w).left > -MaxSkew
  BY <1>4 DEF Execution
<1>7. Own(w)'.running /\ Own(w)'.leased /\ Own(w)'.left = Own(w).left - 1
  BY <1>4, <1>5, <1>6, Endings
<1>8. due[w] \in Nat /\ due'[w] = due[w] - 1
  BY <1>2, <1>3 DEF LeaseTypes, Kept
<1>9. /\ Own(w).left >= LeaseTime - Interval + due[w]
      /\ phase[w] # "beat"
  BY <1>3 DEF KeptAt
<1>10. Own(w)'.left >= LeaseTime - Interval + due'[w]
  BY <1>6, <1>7, <1>8, <1>9, IntervalFacts
<1>11. QED
  BY <1>2, <1>7, <1>9, <1>10 DEF KeptAt

------------------------------------------------------------------------------
(* The invariant                                                               *)

LEMMA LeaseBegins == LeaseInit => LeaseInv
<1> SUFFICES ASSUME LeaseInit PROVE LeaseInv
  OBVIOUS
<1>1. LeaseTypes
  <2>1. execs \in [LeaseNodes -> Seq(Execution)]
    BY DEF LeaseInit
  <2>2. state = [n \in LeaseNodes |-> state[n]] /\ job = [w \in Owners |-> job[w]]
    BY DEF LeaseInit
  <2>3. /\ over \in BOOLEAN /\ phase \in [Owners -> Phases] /\ no \in [Owners -> Nat]
        /\ due \in [Owners -> Nat] /\ lag \in [Owners -> Nat]
    BY DEF LeaseInit, Phases
  <2>4. beating \in [Owners -> BOOLEAN] /\ late \in [Owners -> BOOLEAN]
    BY DEF LeaseInit
  <2>5. QED
    BY <2>1, <2>2, <2>3, <2>4 DEF LeaseTypes
<1>2. \A w \in Owners : phase[w] = "idle"
  BY DEF LeaseInit
<1>3. QED
  BY <1>1, <1>2 DEF LeaseInv, PlacedAt, HasExecution, KeptAt, Kept, Busy

LEMMA OverStays ==
  ASSUME NEW v \in Owners, OwnerStep(v), ~over'
  PROVE  ~over
BY DEF OwnerStep, Pick, OpenExecution, GrantExecutionLease, AgentPuts, HeartbeatReads,
       HeartbeatPuts, AgentEnds, ReportExecution, Accepts, Dies, Raises, SessionEnds, runOf

LEMMA OthersPutKeeps ==
  ASSUME LeaseInv, OthersPut \/ UNCHANGED leaseVars
  PROVE  LeaseInv'
<1>1. UNCHANGED <<over, state, execs, phase, job, no, due, lag, beating, late>>
  BY DEF OthersPut, leaseVars, runOf
<1>2. QED
  BY <1>1 DEF LeaseInv, LeaseTypes, PlacedAt, KeptAt, Kept, Busy, Own, Prompt

LEMMA LeaseGoesOn == LeaseInv /\ [LeaseNext]_leaseVars => LeaseInv'
<1> SUFFICES ASSUME LeaseInv, [LeaseNext]_leaseVars PROVE LeaseInv'
  OBVIOUS
<1>1. LeaseTypes /\ \A w \in Owners : PlacedAt(w)
  BY DEF LeaseInv
<1>2. Prompt' = Prompt
  BY DEF Prompt
<1>3. ASSUME NEW v \in Owners, OwnerStep(v)
      PROVE  LeaseInv'
  <2>1. LeaseTypes'
    BY <1>1, <1>3, StepTypes, StepGrows DEF LeaseTypes, RunTypes, Grows
  <2>2. \A w \in Owners : PlacedAt(w)'
    BY <1>1, <1>3, StepPlaced
  <2>3. ASSUME Prompt, ~over', NEW w \in Owners
        PROVE  KeptAt(w)'
    <3>1. KeptAt(w)
      BY <1>3, <2>3, OverStays DEF LeaseInv
    <3>2. QED
      BY <1>1, <1>3, <2>3, <3>1, OthersKept, OwnKept
  <2>4. QED
    BY <1>2, <2>1, <2>2, <2>3 DEF LeaseInv
<1>4. CASE TimePasses
  <2>1. LeaseTypes' /\ \A w \in Owners : PlacedAt(w)'
    BY <1>1, <1>4, TimeKeepsTypes
  <2>2. over' = over
    BY <1>4 DEF TimePasses
  <2>3. ASSUME Prompt, ~over, NEW w \in Owners
        PROVE  KeptAt(w)'
    <3>1. KeptAt(w) /\ PlacedAt(w)
      BY <1>1, <2>3 DEF LeaseInv
    <3>2. QED
      BY <1>1, <1>4, <2>3, <3>1, TimeKeeps
  <2>4. QED
    BY <1>2, <2>1, <2>2, <2>3 DEF LeaseInv
<1>5. QED
  BY <1>3, <1>4, OthersPutKeeps DEF LeaseNext

(* For every ttl of three seconds or more, for every number of processes and     *)
(* nodes and for all clocks that differ by less than two thirds of the ttl: while *)
(* the session goes on, the execution of a process whose heartbeats are on time   *)
(* and lose no put still runs and its lease is live for all.                     *)
THEOREM KeptLeases == LeaseSpec => []KeptLeaseHolds
<1>1. LeaseInv => KeptLeaseHolds
  <2> SUFFICES ASSUME LeaseInv, Prompt, ~over, NEW w \in Owners, Kept(w)
               PROVE  Own(w).running /\ \A v \in Owners : Live(Own(w), v)
    BY DEF KeptLeaseHolds, Prompt
  <2>1. LeaseTypes /\ PlacedAt(w) /\ KeptAt(w)
    BY DEF LeaseInv
  <2>2. QED
    BY <2>1, KeptIsLive
<1>2. QED
  BY LeaseBegins, LeaseGoesOn, <1>1, PTL DEF LeaseSpec
==============================================================================
