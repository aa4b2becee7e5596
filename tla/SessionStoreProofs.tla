-------------------------- MODULE SessionStoreProofs --------------------------
(* Optimistic locking is sound for any number of writers and calls: no call  *)
(* is lost, and the store implements the atomic register.  The processes     *)
(* that deliver the sessions leave one episode of each and tell the truth    *)
(* when they exit (QueuedRun).  The plan a session is made of keeps what its *)
(* goal asks for, and completes only with that looked at (Planning).         *)
EXTENDS SessionStore, QueuedRun, Planning, FiniteSetTheorems, SequenceTheorems, TLAPS

(* the mutation a writer's object holds on top of a stored session           *)
Pending(w) == IF call[w] = 0 THEN {} ELSE {call[w]}

(* Call numbers are private to the call.                                     *)
CallsPrivate ==
  /\ acked \subseteq 1..calls
  /\ \A w \in Writers : call[w] <= calls /\ call[w] \notin acked
  /\ \A w, v \in Writers : w # v /\ call[w] # 0 => call[w] # call[v]

(* An object is never ahead of the store, and one that is level with it is   *)
(* the stored session plus the writer's pending mutation.  Before the first  *)
(* put only the creator is in a call, and afterwards no object in a call is  *)
(* at version 0.                                                             *)
CopiesFollow ==
  /\ exists => stored.version > 0
  /\ stored.version = 0 => stored.calls = {} /\ calls <= 1
  /\ calls = 0 => stored.version = 0
  /\ \A w \in Writers :
       /\ copy[w].version <= stored.version
       /\ copy[w].version = stored.version =>
            copy[w].calls = stored.calls \cup Pending(w)
       /\ call[w] # 0 /\ stored.version > 0 => copy[w].version > 0

Inv == TypeOK /\ NoLostUpdate /\ CallsPrivate /\ CopiesFollow
------------------------------------------------------------------------------
USE MaxCallsAssumption

(* the constructor's session is one the variables may hold                   *)
LEMMA NoSessionType ==
  /\ NoSession \in RuntimeSession
  /\ NoSession.version = 0 /\ NoSession.calls = {}
  BY DEF NoSession, RuntimeSession

LEMMA InitInv == Init => Inv
<1> SUFFICES ASSUME Init PROVE Inv
  OBVIOUS
<1> USE NoSessionType DEF Init
<1>1. TypeOK
  <2>1. stored \in RuntimeSession /\ copy \in [Writers -> RuntimeSession]
    OBVIOUS
  <2>2. calls \in 0..MaxCalls /\ call \in [Writers -> 0..MaxCalls]
    BY 0 \in 0..MaxCalls
  <2>3. QED
    BY <2>1, <2>2 DEF TypeOK
<1>2. NoLostUpdate /\ CallsPrivate
  BY DEF NoLostUpdate, CallsPrivate
<1>3. CopiesFollow
  BY DEF CopiesFollow, Pending
<1>4. QED
  BY <1>1, <1>2, <1>3 DEF Inv

(* A put that the version check accepts is made on the current session, even *)
(* when there is no row any more.                                            *)
LEMMA PutIsCurrent ==
  ASSUME Inv, NEW w \in Writers, call[w] # 0, AssertExpectedVersion(copy[w])
  PROVE  /\ copy[w].version = stored.version
         /\ copy[w].calls = stored.calls \cup {call[w]}
         /\ exists \/ stored.version = 0
  BY DEF Inv, TypeOK, RuntimeSession, CopiesFollow, AssertExpectedVersion, Pending

LEMMA BeginCallInv ==
  ASSUME Inv, NEW w \in Writers, NEW content, BeginCall(w, content),
         content \in {NoSession, stored, copy[w]},
         stored.version = 0 => calls = 0 /\ content.calls = {},
         content.version = 0 => stored.version = 0
  PROVE  Inv'
<1> DEFINE c == calls + 1
           new == [content EXCEPT !.calls = @ \cup {c}]
<1> USE DEF Inv
<1>1. /\ content \in RuntimeSession
      /\ content.version <= stored.version
      /\ content.version = stored.version => content.calls = stored.calls
  <2>1. CASE content = NoSession
    BY <2>1, NoSessionType DEF TypeOK, RuntimeSession, CopiesFollow
  <2>2. CASE content = stored
    BY <2>2 DEF TypeOK, RuntimeSession
  <2>3. CASE content = copy[w]
    BY <2>3 DEF TypeOK, CopiesFollow, BeginCall, Pending
  <2>4. QED
    BY <2>1, <2>2, <2>3
<1>2. /\ new \in RuntimeSession
      /\ new.version = content.version
      /\ new.calls = content.calls \cup {c}
      /\ c \in CallIds /\ c > calls /\ c \in 1..c
  BY <1>1 DEF TypeOK, RuntimeSession, BeginCall, CallIds
<1>3. /\ calls' = c /\ copy' = [copy EXCEPT ![w] = new]
      /\ call' = [call EXCEPT ![w] = c]
      /\ UNCHANGED <<exists, stored, acked>>
  BY DEF BeginCall
<1> HIDE DEF c, new
<1>4. TypeOK'
  <2>1. c \in 0..MaxCalls /\ calls' \in 0..MaxCalls
    BY <1>3 DEF TypeOK, BeginCall, c
  <2>2. copy' \in [Writers -> RuntimeSession] /\ call' \in [Writers -> 0..MaxCalls]
    BY <1>2, <1>3, <2>1 DEF TypeOK
  <2>3. QED
    BY <1>3, <2>1, <2>2 DEF TypeOK
<1>5. NoLostUpdate'
  BY <1>3 DEF NoLostUpdate
<1>6. CallsPrivate'
  BY <1>2, <1>3 DEF CallsPrivate, TypeOK, CallIds
<1>7. CopiesFollow'
  BY <1>1, <1>2, <1>3 DEF CopiesFollow, TypeOK, RuntimeSession, Pending, CallIds, c
<1>8. QED
  BY <1>4, <1>5, <1>6, <1>7

LEMMA PutInv ==
  ASSUME Inv, NEW w \in Writers, Put(w)
  PROVE  Inv'
<1> DEFINE session == [copy[w] EXCEPT !.version = @ + 1]
<1>1. /\ copy[w].version = stored.version
      /\ copy[w].calls = stored.calls \cup {call[w]}
  BY PutIsCurrent DEF Put
<1>2. /\ session \in RuntimeSession
      /\ session.version = stored.version + 1
      /\ session.calls = stored.calls \cup {call[w]}
  BY <1>1 DEF Inv, TypeOK, RuntimeSession, Put, CallIds
<1>3. /\ stored' = session /\ copy' = [copy EXCEPT ![w] = session]
      /\ exists' = TRUE /\ acked' = acked \cup {call[w]}
      /\ call' = [call EXCEPT ![w] = 0] /\ calls' = calls
      /\ call[w] \in CallIds
  BY DEF Put, Inv, TypeOK, CallIds
<1> HIDE DEF session
<1>4. TypeOK'
  BY <1>2, <1>3 DEF Inv, TypeOK
<1>5. NoLostUpdate'
  BY <1>2, <1>3 DEF Inv, NoLostUpdate
<1>6. CallsPrivate'
  <2>1. call[w] \in 1..calls /\ \A v \in Writers : v # w => call[v] # call[w]
    BY <1>3 DEF Inv, CallsPrivate, TypeOK, CallIds, Put
  <2>2. acked' \subseteq 1..calls'
    BY <1>3, <2>1 DEF Inv, CallsPrivate
  <2>3. \A v \in Writers : call'[v] <= calls' /\ call'[v] \notin acked'
    BY <1>3, <2>1 DEF Inv, CallsPrivate, TypeOK
  <2>4. QED
    BY <1>3, <2>2, <2>3 DEF Inv, CallsPrivate, TypeOK
<1>7. CopiesFollow'
  <2>1. stored.version = 0 => \A v \in Writers : v # w => call[v] = 0
    BY <1>3 DEF Inv, CallsPrivate, CopiesFollow, TypeOK, CallIds
  <2>2. stored.version \in Nat /\ stored'.version = stored.version + 1
    BY <1>2, <1>3 DEF Inv, TypeOK, RuntimeSession
  <2>3. calls' # 0
    BY <1>3 DEF Inv, CallsPrivate, TypeOK, CallIds, Put
  <2>4. copy'[w] = stored' /\ Pending(w)' = {}
    BY <1>3 DEF Inv, TypeOK, Pending
  <2>5. ASSUME NEW v \in Writers, v # w
        PROVE  /\ copy'[v] = copy[v] /\ call'[v] = call[v]
               /\ copy[v].version \in Nat /\ copy[v].version <= stored.version
               /\ call[v] # 0 => copy[v].version > 0
    BY <1>3, <2>1, <2>2, <2>5 DEF Inv, CopiesFollow, TypeOK, RuntimeSession
  <2>6. QED
    BY <1>3, <2>2, <2>3, <2>4, <2>5 DEF CopiesFollow
<1>8. QED
  BY <1>4, <1>5, <1>6, <1>7 DEF Inv

LEMMA NextInv == Inv /\ [Next]_vars => Inv'
<1> SUFFICES ASSUME Inv, [Next]_vars PROVE Inv'
  OBVIOUS
<1>1. ASSUME NEW w \in Writers, Create(w) PROVE Inv'
  <2>1. calls = 0 /\ stored.calls = {} /\ stored.version = 0
    BY <1>1 DEF Create, Inv, CopiesFollow
  <2>2. QED
    BY <1>1, <2>1, BeginCallInv, NoSessionType DEF Create
<1>2. ASSUME NEW w \in Writers, Get(w) PROVE Inv'
  BY <1>2, BeginCallInv DEF Get, Inv, CopiesFollow, TypeOK, RuntimeSession
<1>3. ASSUME NEW w \in Writers, Put(w) PROVE Inv'
  BY <1>3, PutInv
<1>4. ASSUME NEW w \in Writers, PutAgain(w) PROVE Inv'
  BY <1>4, BeginCallInv DEF PutAgain, Inv, CopiesFollow, TypeOK, RuntimeSession
<1>5. ASSUME NEW w \in Writers, Drop(w) PROVE Inv'
  BY <1>5, NoSessionType DEF Drop, Inv, TypeOK, NoLostUpdate, CallsPrivate, CopiesFollow,
              RuntimeSession, Pending, CallIds
<1>6. CASE Delete
  BY <1>6 DEF Delete, Inv, TypeOK, NoLostUpdate, CallsPrivate, CopiesFollow,
              Pending, CallIds
<1>7. CASE UNCHANGED vars
  BY <1>7 DEF vars, Inv, TypeOK, NoLostUpdate, CallsPrivate, CopiesFollow,
              Pending, CallIds
<1>8. QED
  BY <1>1, <1>2, <1>3, <1>4, <1>5, <1>6, <1>7 DEF Next

LEMMA SpecInv == Spec => []Inv
  BY InitInv, NextInv, PTL DEF Spec

------------------------------------------------------------------------------
(* The stored session holds exactly the calls whose put returned.            *)
THEOREM StoreLosesNoUpdate == Spec => [](TypeOK /\ NoLostUpdate)
<1>1. Inv => TypeOK /\ NoLostUpdate
  BY DEF Inv
<1>2. QED
  BY SpecInv, <1>1, PTL

(* The version check accepts only objects that are current.                  *)
THEOREM StoreAcceptsCurrent == Spec => []AcceptedIsCurrent
<1>1. Inv => AcceptedIsCurrent
  BY PutIsCurrent DEF AcceptedIsCurrent
<1>2. QED
  BY SpecInv, <1>1, PTL

(* A writer that still holds a deleted session cannot bring it back.         *)
THEOREM DeletedStaysDeleted == Spec => NoResurrection
<1>1. Inv /\ [Next]_vars => [stored.version > 0 /\ ~exists => ~exists']_vars
  <2> SUFFICES ASSUME Inv, [Next]_vars, stored.version > 0, ~exists
               PROVE  ~exists'
    OBVIOUS
  <2>1. ASSUME NEW w \in Writers PROVE ~Put(w)
    BY PutIsCurrent DEF Put, Inv, TypeOK, RuntimeSession
  <2>2. QED
    BY <2>1 DEF Next, vars, Create, Get, PutAgain, BeginCall, Drop, Delete
<1>2. QED
  BY SpecInv, <1>1, PTL DEF Spec, NoResurrection

(* Every service call is atomic: a put maps to Create or Apply of its call,  *)
(* every other step but Delete to a stutter of the register.                 *)
THEOREM StoreIsAtomic == Spec => IsAtomic
<1>1. Init => Register!Init
  BY NoSessionType DEF Init, Register!Init
<1>2. Inv /\ [Next]_vars => [Register!Next]_(Register!vars)
  <2> SUFFICES ASSUME Inv, [Next]_vars
               PROVE  Register!Next \/ UNCHANGED <<exists, stored.calls>>
    BY DEF Register!vars
  <2>1. ASSUME NEW w \in Writers, Put(w) PROVE Register!Next
    <3>1. call[w] \in CallIds /\ call[w] \notin stored.calls
      BY <2>1 DEF Put, Inv, TypeOK, CallsPrivate, CallIds, NoLostUpdate
    <3>2. exists \/ stored.calls = {}
      BY <2>1, PutIsCurrent DEF Put, Inv, CopiesFollow
    <3>3. stored'.calls = stored.calls \cup {call[w]} /\ exists'
      BY <2>1, PutIsCurrent DEF Put, Inv, TypeOK, RuntimeSession
    <3>4. QED
      BY <3>1, <3>2, <3>3 DEF Register!Next, Register!Apply, Register!Create
  <2>2. CASE Delete
    BY <2>2 DEF Delete, Register!Next, Register!Delete
  <2>3. QED
    BY <2>1, <2>2 DEF Next, vars, Create, Get, PutAgain, BeginCall, Drop
<1>3. QED
  BY SpecInv, <1>1, <1>2, PTL DEF Spec, IsAtomic, Register!Spec
------------------------------------------------------------------------------
(* The processes that deliver sessions, and the episodes (QueuedRun) *)

Statuses == {"NONE", "QUEUED", "RUNNING", "WAITING_GATE", "COMPLETED", "FAILED"}
RunMessage == [id : Ids, attempt : Nat]
LoopSteps == {"begin", "check", "build", "run", "emit", "ack", "nack", "after", "left", "died"}

Process ==
  [pc : LoopSteps, id : Ids \cup {"none"}, attempt : Nat, iterations : Nat, idle : Nat,
   errors : {0, 1}, observers : 0..MaxObservers,
   last : {"none", "stop_requested", "max_iterations", "max_idle_cycles"}]

RunTypes ==
  /\ config.idle \in Nat
  /\ status \in [Ids -> Statuses]
  /\ client \in [Ids -> {"create", "publish", "gone", "dead"}]
  /\ queue \in [Hosts \cup {NoHost} -> Seq(RunMessage)]
  /\ flight \subseteq [host : Hosts \cup {NoHost}, id : Ids, attempt : Nat]
  /\ host \in [Hosts -> Process]
  /\ episodes \in [Ids -> Seq(Statuses)]
  /\ lost \in [Hosts -> SUBSET Ids]

(* A session is delivered only after it was created.                           *)
Created(i) == client[i] # "create"

CreatedFirst ==
  /\ \A i \in Ids : ~Created(i) => status[i] = "NONE" /\ ~Transient
  /\ \A q \in Hosts \cup {NoHost} : \A k \in 1..Len(queue[q]) : Created(queue[q][k].id)
  /\ \A d \in flight : Created(d.id)

(* A session that rests does so whatever the deliveries do.                     *)
Rests(i) == status[i] \in Ended \cup {"WAITING_GATE"}

Delivering(h) == host[h].pc \in {"build", "run", "emit", "ack", "nack"}

(* A process of a transient queue that has had no error has offered each       *)
(* session to its runtime, or still has it.                                    *)
Offered(h) ==
  /\ host[h].idle > 0 => queue[h] = <<>>
  /\ host[h].pc \in {"check", "build", "run", "emit", "ack", "after"} /\ host[h].errors = 0 =>
       \A i \in Ids :
         \/ Rests(i) \/ \E k \in 1..Len(queue[h]) : queue[h][k].id = i
         \/ host[h].pc \in {"build", "run"} /\ host[h].id = i
  /\ host[h].pc = "left" /\ host[h].errors = 0 /\ host[h].last = "max_idle_cycles" =>
       \A i \in Ids : Rests(i)

HostOk(h) ==
  /\ host[h].pc = "begin" => host[h] = Fresh
  /\ Delivering(h) => host[h].id \in Ids /\ Created(host[h].id)
  /\ \A d \in flight : d.host = h => Delivering(h) /\ d = Delivery(h)
  /\ host[h].pc \in {"run", "emit"} => host[h].observers > 0
  /\ host[h].pc = "emit" => status[host[h].id] \in Ended
  /\ host[h].pc = "ack" => Rests(host[h].id)
  /\ lost[h] # {} => host[h].errors # 0 \/ host[h].pc \in {"nack", "died"}
  /\ Transient => Offered(h)

(* The episode is that of the status the session ended with; until it is       *)
(* written a process is about to.                                              *)
Remembered ==
  \A i \in Ids :
    /\ Len(episodes[i]) \in {0, 1}
    /\ Len(episodes[i]) = 1 => episodes[i][1] = status[i] /\ status[i] \in Ended
    /\ \/ status[i] \notin Ended \/ i \in cut \/ Len(episodes[i]) = 1
       \/ \E h \in Hosts : host[h].pc = "emit" /\ host[h].id = i

RunInv == RunTypes /\ CreatedFirst /\ Remembered /\ \A h \in Hosts : HostOk(h)

LEMMA AppendTwice ==
  ASSUME NEW S, NEW entries \in Seq(S), NEW kind \in S
  PROVE  AppendOnce(AppendOnce(entries, kind), kind) = AppendOnce(entries, kind)
<1>1. CASE \E k \in DOMAIN entries : entries[k] = kind
  BY <1>1 DEF AppendOnce
<1>2. CASE ~\E k \in DOMAIN entries : entries[k] = kind
  <2> DEFINE a == Append(entries, kind)
  <2>1. a[Len(entries) + 1] = kind /\ Len(entries) + 1 \in DOMAIN a
    OBVIOUS
  <2>2. QED
    BY <1>2, <2>1 DEF AppendOnce
<1>3. QED
  BY <1>1, <1>2

(* However many projectors write, the episode is written once.                 *)
LEMMA ProjectedOnce ==
  ASSUME NEW S, NEW entries \in Seq(S), NEW kind \in S, NEW n \in 0..MaxObservers
  PROVE  Projected(entries, kind, n) = IF n = 0 THEN entries ELSE AppendOnce(entries, kind)
<1> DEFINE once == AppendOnce(entries, kind)
           upTo[k \in 0..n] == IF k = 0 THEN entries ELSE AppendOnce(upTo[k - 1], kind)
           g == [k \in 0..n |-> IF k = 0 THEN entries ELSE once]
<1>1. AppendOnce(once, kind) = once
  BY AppendTwice
<1>2. g = [k \in 0..n |-> IF k = 0 THEN entries ELSE AppendOnce(g[k - 1], kind)]
  <2> HIDE DEF once
  <2>1. ASSUME NEW k \in 0..n, k # 0 PROVE AppendOnce(g[k - 1], kind) = once
    <3>1. k - 1 \in 0..n /\ (k - 1 = 0 \/ k - 1 # 0)
      BY <2>1 DEF MaxObservers
    <3>2. g[k - 1] = IF k - 1 = 0 THEN entries ELSE once
      BY <3>1
    <3>3. QED
      BY <1>1, <3>2 DEF once
  <2>2. QED
    BY <2>1
<1> HIDE DEF g
<1>3. upTo = [k \in 0..n |-> IF k = 0 THEN entries ELSE AppendOnce(upTo[k - 1], kind)]
  BY <1>2
<1> HIDE DEF upTo
<1>4. \A k \in 0..n : upTo[k] = IF k = 0 THEN entries ELSE AppendOnce(upTo[k - 1], kind)
  BY <1>3
<1>5. upTo[0] = entries /\ (n >= 1 => upTo[1] = once) /\ (n = 2 => upTo[2] = once)
  <2>1. upTo[0] = entries
    BY <1>4 DEF MaxObservers
  <2>2. n >= 1 => upTo[1] = AppendOnce(upTo[0], kind)
    BY <1>4 DEF MaxObservers
  <2>3. n = 2 => upTo[2] = AppendOnce(upTo[1], kind)
    BY <1>4 DEF MaxObservers
  <2>4. QED
    BY <1>1, <2>1, <2>2, <2>3
<1>6. upTo[n] = IF n = 0 THEN entries ELSE once
  BY <1>5 DEF MaxObservers
<1>7. QED
  BY <1>6 DEF Projected, upTo

LEMMA FreshIsProcess == Fresh \in Process /\ [Fresh EXCEPT !.pc = "died"] \in Process
BY DEF Fresh, Process, LoopSteps, MaxObservers

LEMMA InitRun == QueuedRunInit => RunInv
<1> SUFFICES ASSUME QueuedRunInit PROVE RunInv
  OBVIOUS
<1> USE DEF QueuedRunInit
<1>1. RunTypes
  <2>1. config.idle \in {0, IdleCycles}
    OBVIOUS
  <2>2. QED
    BY <2>1, FreshIsProcess, QueuedRunAssumption DEF RunTypes, Statuses
<1>2. CreatedFirst
  BY DEF CreatedFirst, Created
<1>3. Remembered
  BY DEF Remembered, Ended, Transient
<1>4. ASSUME NEW h \in Hosts PROVE HostOk(h)
  <2>1. host[h] = Fresh /\ host[h].pc = "begin" /\ host[h].idle = 0
    BY DEF Fresh
  <2>2. QED
    BY <2>1 DEF HostOk, Offered, Delivering
<1>5. QED
  BY <1>1, <1>2, <1>3, <1>4 DEF RunInv

(* What no step undoes.                                                        *)
Onwards ==
  /\ config' = config
  /\ \A i \in Ids : (Rests(i) => Rests(i)') /\ (status[i] \in Ended => status'[i] = status[i])
  /\ \A i \in Ids : Created(i) => Created(i)'

(* A process that the step leaves alone.                                       *)
LEMMA OthersStay ==
  ASSUME RunInv, Onwards, NEW g \in Hosts, host'[g] = host[g], lost'[g] = lost[g],
         \A d \in flight' : d.host = g => d \in flight, Transient => queue'[g] = queue[g]
  PROVE  HostOk(g)'
<1>1. HostOk(g)
  BY DEF RunInv
<1>2. (Transient <=> Transient') /\ (Delivering(g) <=> Delivering(g)')
      /\ Delivery(g)' = Delivery(g)
  BY DEF Onwards, Transient, Delivering, Delivery
<1>3. ASSUME Transient PROVE Offered(g)'
  <2>1. Offered(g) /\ queue'[g] = queue[g]
    BY <1>1, <1>3 DEF HostOk
  <2>2. QED
    BY <2>1 DEF Offered, Onwards
<1>4. host[g].pc = "emit" => status'[host[g].id] \in Ended
  BY <1>1 DEF HostOk, Delivering, Onwards
<1>5. host[g].pc = "ack" => Rests(host[g].id)'
  <2>1. ASSUME NEW i \in Ids, Rests(i) PROVE Rests(i)'
    BY <2>1 DEF Onwards
  <2>2. ASSUME host[g].pc = "ack" PROVE host[g].id \in Ids /\ Rests(host[g].id)
    BY <1>1, <2>2 DEF HostOk, Delivering
  <2>3. PICK i : i = host[g].id
    OBVIOUS
  <2>4. host[g].pc = "ack" => Rests(i)'
    BY <2>1, <2>2, <2>3
  <2>5. QED
    BY <2>3, <2>4 DEF Rests
<1>6. Delivering(g) => Created(host[g].id)'
  BY <1>1 DEF HostOk, Onwards, Created
<1>7. QED
  BY <1>1, <1>2, <1>3, <1>4, <1>5, <1>6 DEF HostOk, Created, Rests

(* A step of one process that is not about to write an episode.                *)
LEMMA HostKeeps ==
  ASSUME RunInv, NEW h \in Hosts, RunTypes', Onwards, \A g \in Hosts \ {h} : host'[g] = host[g],
         host[h].pc # "emit", HostOk(h)', CreatedFirst', UNCHANGED <<episodes, cut>>,
         \A g \in Hosts \ {h} : lost'[g] = lost[g],
         \A d \in flight' : d.host # h => d \in flight,
         Transient => \A g \in Hosts \ {h} : queue'[g] = queue[g],
         \A i \in Ids : \/ status'[i] = status[i] \/ status'[i] \notin Ended
                        \/ host'[h].pc = "emit" /\ host'[h].id = i
  PROVE  RunInv'
<1>1. ASSUME NEW g \in Hosts, g # h PROVE HostOk(g)'
  BY <1>1, OthersStay
<1>2. Remembered'
  <2>1. SUFFICES ASSUME NEW i \in Ids
                 PROVE  /\ Len(episodes'[i]) \in {0, 1}
                        /\ Len(episodes'[i]) = 1 =>
                             episodes'[i][1] = status'[i] /\ status'[i] \in Ended
                        /\ \/ status'[i] \notin Ended \/ i \in cut' \/ Len(episodes'[i]) = 1
                           \/ \E g \in Hosts : host'[g].pc = "emit" /\ host'[g].id = i
    BY DEF Remembered
  <2>2. /\ Len(episodes[i]) \in {0, 1}
        /\ Len(episodes[i]) = 1 => episodes[i][1] = status[i] /\ status[i] \in Ended
        /\ \/ status[i] \notin Ended \/ i \in cut \/ Len(episodes[i]) = 1
           \/ \E g \in Hosts : host[g].pc = "emit" /\ host[g].id = i
    BY DEF RunInv, Remembered
  <2>3. status[i] \in Ended => status'[i] = status[i]
    BY DEF Onwards
  <2>4. ASSUME NEW g \in Hosts, host[g].pc = "emit" PROVE host'[g] = host[g]
    BY <2>4
  <2>5. QED
    BY <2>2, <2>3, <2>4
<1>3. QED
  BY <1>1, <1>2 DEF RunInv

(* A process changes what it does, and the rest of the world at most a status.  *)
LEMMA HostMoves ==
  ASSUME RunInv, NEW h \in Hosts, NEW r \in Process, host' = [host EXCEPT ![h] = r]
  PROVE  /\ host' \in [Hosts -> Process] /\ host'[h] = r
         /\ \A g \in Hosts \ {h} : host'[g] = host[g]
BY DEF RunInv, RunTypes

LEMMA BuildKeeps ==
  ASSUME RunInv, NEW h \in Hosts, Build(h)
  PROVE  RunInv'
<1> DEFINE n == IF ~config.traced THEN 1
                ELSE IF host[h].observers = MaxObservers THEN MaxObservers
                ELSE host[h].observers + 1
           r == [host[h] EXCEPT !.pc = "run", !.observers = n]
<1>1. host[h] \in Process /\ HostOk(h) /\ RunTypes /\ CreatedFirst
  BY DEF RunInv, RunTypes
<1>2. n \in 0..MaxObservers /\ n > 0
  BY <1>1 DEF Process, MaxObservers
<1>3. host[h].pc = "build" /\ host' = [host EXCEPT ![h] = r]
  BY <1>1 DEF Build, RunTypes
<1>4. UNCHANGED <<config, status, client, queue, flight, dead, dropped, episodes, lost, cut>>
  BY DEF Build
<1> HIDE DEF n
<1>5. /\ r \in Process /\ r.pc = "run" /\ r.id = host[h].id /\ r.attempt = host[h].attempt
      /\ r.idle = host[h].idle /\ r.errors = host[h].errors /\ r.observers = n
  BY <1>1, <1>2 DEF Process, LoopSteps
<1> HIDE DEF r
<1>6. /\ host' \in [Hosts -> Process] /\ host'[h] = r
      /\ \A g \in Hosts \ {h} : host'[g] = host[g]
  BY <1>3, <1>5, HostMoves
<1>7. Onwards /\ RunTypes' /\ CreatedFirst'
  BY <1>1, <1>4, <1>6 DEF Onwards, Rests, Created, RunTypes, CreatedFirst, Transient
<1>8. HostOk(h)'
  BY <1>1, <1>2, <1>3, <1>4, <1>5, <1>6
     DEF HostOk, Offered, Delivering, Delivery, Created, Rests, Transient
<1>9. QED
  BY <1>3, <1>4, <1>6, <1>7, <1>8, HostKeeps

LEMMA IdleKeeps ==
  ASSUME RunInv, NEW h \in Hosts, Idle(h)
  PROVE  RunInv'
<1> DEFINE i == IF config.iterations = 0 THEN 0 ELSE host[h].iterations + 1
           n == IF config.idle = 0 THEN 0 ELSE host[h].idle + 1
           r == [host[h] EXCEPT !.pc = "after", !.iterations = i, !.idle = n]
<1>1. host[h] \in Process /\ HostOk(h) /\ RunTypes /\ CreatedFirst
  BY DEF RunInv, RunTypes
<1>2. i \in Nat /\ n \in Nat
  BY <1>1 DEF Process
<1>3. host[h].pc = "check" /\ queue[Polled(h)] = <<>> /\ host' = [host EXCEPT ![h] = r]
  BY <1>1 DEF Idle, RunTypes
<1>4. UNCHANGED <<config, status, client, queue, flight, dead, dropped, episodes, lost, cut>>
  BY DEF Idle
<1> HIDE DEF i, n
<1>5. /\ r \in Process /\ r.pc = "after" /\ r.id = host[h].id /\ r.attempt = host[h].attempt
      /\ r.errors = host[h].errors
  BY <1>1, <1>2 DEF Process, LoopSteps
<1> HIDE DEF r
<1>6. /\ host' \in [Hosts -> Process] /\ host'[h] = r
      /\ \A g \in Hosts \ {h} : host'[g] = host[g]
  BY <1>3, <1>5, HostMoves
<1>7. Onwards /\ RunTypes' /\ CreatedFirst'
  BY <1>1, <1>4, <1>6 DEF Onwards, Rests, Created, RunTypes, CreatedFirst, Transient
<1>8. HostOk(h)'
  BY <1>1, <1>2, <1>3, <1>4, <1>5, <1>6
     DEF HostOk, Offered, Delivering, Delivery, Created, Rests, Transient, Polled
<1>9. QED
  BY <1>3, <1>4, <1>6, <1>7, <1>8, HostKeeps

(* The outcome of a run.                                                       *)
LEMMA OutcomeKeeps ==
  ASSUME RunInv, NEW h \in Hosts, NEW pc \in {"ack", "nack", "emit"}, NEW s \in Statuses,
         host[h].pc = "run", host' = [host EXCEPT ![h].pc = pc],
         status' = [status EXCEPT ![host[h].id] = s],
         s = status[host[h].id] \/ status[host[h].id] \in {"QUEUED", "RUNNING"},
         pc = "ack" => s \in Ended \cup {"WAITING_GATE"}, pc = "emit" => s \in Ended,
         s \in Ended => s = status[host[h].id] \/ pc = "emit",
         UNCHANGED <<config, client, queue, flight, episodes, lost, cut>>
  PROVE  RunInv'
<1>1. host[h] \in Process /\ HostOk(h) /\ RunTypes /\ CreatedFirst
  BY DEF RunInv, RunTypes
<1>2. PICK j \in Ids : j = host[h].id
  BY <1>1 DEF HostOk, Delivering
<1>3. PICK r : r = [host[h] EXCEPT !.pc = pc]
  OBVIOUS
<1>4. host' = [host EXCEPT ![h] = r]
  BY <1>1, <1>3 DEF RunTypes
<1>5. /\ r \in Process /\ r.pc = pc /\ r.id = j /\ r.attempt = host[h].attempt
      /\ r.idle = host[h].idle /\ r.errors = host[h].errors
      /\ r.observers = host[h].observers
  BY <1>1, <1>2, <1>3 DEF Process, LoopSteps
<1>6. /\ host' \in [Hosts -> Process] /\ host'[h] = r
      /\ \A g \in Hosts \ {h} : host'[g] = host[g]
  BY <1>4, <1>5, HostMoves
<1>7. /\ status' \in [Ids -> Statuses] /\ status'[j] = s
      /\ \A i \in Ids : i # j => status'[i] = status[i]
  BY <1>1, <1>2 DEF RunTypes
<1>8. Onwards
  BY <1>2, <1>7 DEF Onwards, Rests, Created, Ended
<1>9. Created(j) /\ (~Transient \/ host[h].errors # 0 \/ \A i \in Ids : i # j =>
        Rests(i) \/ \E k \in 1..Len(queue[h]) : queue[h][k].id = i)
  BY <1>1, <1>2 DEF HostOk, Offered, Delivering
<1>10. RunTypes' /\ CreatedFirst'
  <2>1. \A i \in Ids : ~Created(i)' => i # j /\ ~Created(i)
    BY <1>9 DEF Created
  <2>2. QED
    BY <1>1, <1>6, <1>7, <2>1 DEF RunTypes, CreatedFirst, Created, Transient
<1>11. HostOk(h)'
  <2>1. (pc = "ack" => Rests(j)') /\ (pc = "emit" => status'[j] \in Ended)
    BY <1>7 DEF Rests
  <2>2. ASSUME Transient PROVE Offered(h)'
    <3>1. host[h].idle > 0 => queue[h] = <<>>
      BY <1>1, <2>2 DEF HostOk, Offered
    <3>2. ASSUME r.pc # "nack", r.errors = 0, NEW i \in Ids
          PROVE  Rests(i)' \/ \E k \in 1..Len(queue'[h]) : queue'[h][k].id = i
      <4>1. CASE i = j
        BY <1>5, <2>1, <3>2, <4>1 DEF Rests
      <4>2. CASE i # j
        BY <1>5, <1>8, <1>9, <2>2, <3>2, <4>2 DEF Onwards
      <4>3. QED
        BY <4>1, <4>2
    <3>3. QED
      BY <1>5, <1>6, <3>1, <3>2 DEF Offered
  <2>3. QED
    BY <1>1, <1>2, <1>5, <1>6, <1>9, <2>1, <2>2
       DEF HostOk, Delivering, Delivery, Created, Rests, Transient
<1>12. QED
  BY <1>5, <1>6, <1>7, <1>8, <1>10, <1>11, HostKeeps

LEMMA RunKeeps ==
  ASSUME RunInv, NEW h \in Hosts,
         AlreadyEnded(h) \/ Raises(h) \/ Pauses(h) \/ \E s \in Ended : Ends(h, s)
  PROVE  RunInv'
<1> DEFINE j == host[h].id
<1>1. host[h].pc = "run"
  BY DEF AlreadyEnded, Raises, Pauses, Ends
<1>2. j \in Ids /\ status \in [Ids -> Statuses]
  BY <1>1 DEF RunInv, RunTypes, HostOk, Delivering
<1>3. CASE AlreadyEnded(h)
  <2>1. status' = [status EXCEPT ![j] = status[j]] /\ status[j] \in Statuses
    BY <1>2, <1>3 DEF AlreadyEnded
  <2>2. QED
    BY <1>1, <1>3, <2>1, OutcomeKeeps DEF AlreadyEnded
<1>4. CASE Raises(h)
  <2>1. PICK s \in Statuses : s = IF status[j] = "QUEUED" THEN "RUNNING" ELSE status[j]
    BY <1>2 DEF Statuses
  <2>2. status' = [status EXCEPT ![j] = s]
    BY <1>4, <2>1 DEF Raises
  <2>3. s \notin Ended /\ (s = status[j] \/ status[j] \in {"QUEUED", "RUNNING"})
    BY <1>4, <2>1 DEF Raises, Ended
  <2>4. QED
    BY <1>1, <1>4, <2>2, <2>3, OutcomeKeeps DEF Raises
<1>5. CASE Pauses(h)
  <2>1. PICK s \in Statuses : s = "WAITING_GATE"
    BY DEF Statuses
  <2>2. s \notin Ended /\ status' = [status EXCEPT ![j] = s]
    BY <1>5, <2>1 DEF Pauses, Ended
  <2>3. QED
    BY <1>1, <1>5, <2>1, <2>2, OutcomeKeeps DEF Pauses
<1>6. ASSUME NEW s \in Ended, Ends(h, s) PROVE RunInv'
  <2>1. s \in Statuses
    BY DEF Ended, Statuses
  <2>2. QED
    BY <1>1, <1>6, <2>1, OutcomeKeeps DEF Ends
<1>7. QED
  BY <1>3, <1>4, <1>5, <1>6

LEMMA QueuedIds ==
  ASSUME RunTypes
  PROVE  \A q \in Hosts \cup {NoHost} : \A k \in 1..Len(queue[q]) : queue[q][k].id \in Ids
<1>1. SUFFICES ASSUME NEW q \in Hosts \cup {NoHost}, NEW k \in 1..Len(queue[q])
               PROVE  queue[q][k].id \in Ids
  OBVIOUS
<1>2. queue[q] \in Seq(RunMessage)
  BY DEF RunTypes
<1>3. queue[q][k] \in RunMessage
  BY <1>2
<1>4. QED
  BY <1>3 DEF RunMessage

(* A step of no process.                                                       *)
LEMMA WorldKeeps ==
  ASSUME RunInv, RunTypes', Onwards, CreatedFirst', UNCHANGED <<host, episodes, cut, lost>>,
         \A d \in flight' : d.host \in Hosts => d \in flight,
         Transient => \A g \in Hosts : queue'[g] = queue[g],
         \A i \in Ids : status'[i] = status[i] \/ status'[i] \notin Ended
  PROVE  RunInv'
<1>1. ASSUME NEW g \in Hosts PROVE HostOk(g)'
  BY <1>1, OthersStay
<1>2. Remembered'
  BY DEF RunInv, Remembered, Onwards
<1>3. QED
  BY <1>1, <1>2 DEF RunInv

LEMMA ClientKeeps ==
  ASSUME RunInv, NEW j \in Ids, CreateQueued(j) \/ Publish(j) \/ ClientDies(j)
  PROVE  RunInv'
<1>1. RunTypes /\ CreatedFirst /\ NoHost \notin Hosts
  BY QueuedRunAssumption DEF RunInv
<1>2. CASE CreateQueued(j)
  <2>1. /\ status'[j] = "QUEUED" /\ status[j] = "NONE" /\ client'[j] = "publish" /\ ~Transient
        /\ \A i \in Ids : i # j => status'[i] = status[i] /\ client'[i] = client[i]
        /\ status' \in [Ids -> Statuses]
        /\ client' \in [Ids -> {"create", "publish", "gone", "dead"}]
        /\ UNCHANGED <<config, queue, flight, host, episodes, lost, cut>>
    BY <1>1, <1>2 DEF CreateQueued, RunTypes, CreatedFirst, Created, Statuses
  <2>2. Onwards
    BY <2>1 DEF Onwards, Rests, Created, Ended
  <2>3. RunTypes'
    BY <1>1, <2>1 DEF RunTypes
  <2>4. CreatedFirst'
    <3>1. \A q \in Hosts \cup {NoHost} : \A k \in 1..Len(queue[q]) : queue[q][k].id \in Ids
      BY <1>1, QueuedIds
    <3>2. \A d \in flight : d.id \in Ids
      BY <1>1 DEF RunTypes
    <3>3. QED
      BY <1>1, <2>1, <3>1, <3>2 DEF CreatedFirst, Created, Transient
  <2>5. QED
    BY <2>1, <2>2, <2>3, <2>4, WorldKeeps DEF Ended
<1>3. CASE Publish(j)
  <2>1. /\ client[j] = "publish" /\ client' = [client EXCEPT ![j] = "gone"]
        /\ queue' = [queue EXCEPT ![NoHost] = Append(queue[NoHost], [id |-> j, attempt |-> 0])]
        /\ UNCHANGED <<config, status, flight, host, episodes, lost, cut>>
    BY <1>1, <1>3 DEF Publish, RunTypes
  <2>2. /\ client'[j] = "gone" /\ \A i \in Ids : i # j => client'[i] = client[i]
        /\ client' \in [Ids -> {"create", "publish", "gone", "dead"}]
    BY <1>1, <2>1 DEF RunTypes
  <2>3. PICK m \in RunMessage : m = [id |-> j, attempt |-> 0]
    BY DEF RunMessage
  <2>4. /\ queue' \in [Hosts \cup {NoHost} -> Seq(RunMessage)]
        /\ \A q \in Hosts : queue'[q] = queue[q]
        /\ queue'[NoHost] = Append(queue[NoHost], m)
    BY <1>1, <2>1, <2>3 DEF RunTypes
  <2>5. \A k \in 1..Len(queue'[NoHost]) :
          \/ k \in 1..Len(queue[NoHost]) /\ queue'[NoHost][k] = queue[NoHost][k]
          \/ queue'[NoHost][k].id = j
    BY <1>1, <2>3, <2>4 DEF RunTypes
  <2>6. Onwards /\ RunTypes'
    BY <1>1, <2>1, <2>2, <2>4 DEF Onwards, Rests, Created, RunTypes
  <2>7. CreatedFirst'
    <3>1. \A i \in Ids : Created(i)' <=> Created(i)
      BY <2>1, <2>2 DEF Created
    <3>2. \A q \in Hosts \cup {NoHost} : \A k \in 1..Len(queue[q]) : queue[q][k].id \in Ids
      BY <1>1, QueuedIds
    <3>3. \A d \in flight : d.id \in Ids
      BY <1>1 DEF RunTypes
    <3>4. ASSUME NEW q \in Hosts \cup {NoHost}, NEW k \in 1..Len(queue'[q])
          PROVE  Created(queue[q][k].id)'
      <4>1. CASE q = NoHost
        <5>1. CASE queue'[NoHost][k].id = j
          BY <2>2, <4>1, <5>1 DEF Created
        <5>2. CASE k \in 1..Len(queue[NoHost]) /\ queue'[NoHost][k] = queue[NoHost][k]
          BY <1>1, <3>1, <3>2, <4>1, <5>2 DEF CreatedFirst, Created
        <5>3. QED
          BY <2>5, <4>1, <5>1, <5>2
      <4>2. CASE q \in Hosts
        BY <1>1, <2>4, <3>1, <3>2, <4>2 DEF CreatedFirst, Created
      <4>3. QED
        BY <4>1, <4>2
    <3>5. QED
      BY <1>1, <2>1, <3>1, <3>3, <3>4 DEF CreatedFirst, Created, Transient
  <2>8. QED
    BY <2>1, <2>4, <2>6, <2>7, WorldKeeps
<1>4. CASE ClientDies(j)
  <2>1. /\ client[j] = "publish" /\ client' = [client EXCEPT ![j] = "dead"]
        /\ UNCHANGED <<config, status, queue, flight, host, episodes, lost, cut>>
    BY <1>4 DEF ClientDies
  <2>2. \A i \in Ids : Created(i)' <=> Created(i)
    BY <1>1, <2>1 DEF RunTypes, Created
  <2>3. Onwards /\ RunTypes'
    BY <1>1, <2>1, <2>2 DEF Onwards, Rests, RunTypes
  <2>4. CreatedFirst'
    <3>1. \A q \in Hosts \cup {NoHost} : \A k \in 1..Len(queue[q]) : queue[q][k].id \in Ids
      BY <1>1, QueuedIds
    <3>2. \A d \in flight : d.id \in Ids
      BY <1>1 DEF RunTypes
    <3>3. QED
      BY <1>1, <2>1, <2>2, <3>1, <3>2 DEF CreatedFirst, Created, Transient
  <2>5. QED
    BY <2>1, <2>3, <2>4, WorldKeeps
<1>5. QED
  BY <1>2, <1>3, <1>4

(* A message is delivered again, or is a dead letter.                          *)
LEMMA AgainKeeps ==
  ASSUME RunTypes, CreatedFirst, NEW p \in Hosts \cup {NoHost}, NEW j \in Ids, NEW a \in Nat,
         Created(j), UNCHANGED client, Again(p, j, a)
  PROVE  /\ queue' \in [Hosts \cup {NoHost} -> Seq(RunMessage)]
         /\ \A q \in Hosts \cup {NoHost} : q # p => queue'[q] = queue[q]
         /\ \A q \in Hosts \cup {NoHost} : \A k \in 1..Len(queue'[q]) : Created(queue[q][k].id)'
<1>1. CASE queue' = queue
  BY <1>1 DEF RunTypes, CreatedFirst, Created
<1>2. CASE queue' # queue
  <2>1. PICK n \in Nat : queue' = [queue EXCEPT ![p] = Append(queue[p], [id |-> j, attempt |-> n])]
    <3>1. PICK n \in Nat : n = NextAttempt(a)
      BY DEF NextAttempt
    <3>2. queue' = [queue EXCEPT ![p] = Append(@, [id |-> j, attempt |-> n])]
      BY <1>2, <3>1 DEF Again
    <3>3. QED
      BY <3>2 DEF RunTypes
  <2>2. PICK m \in RunMessage : m = [id |-> j, attempt |-> n]
    BY DEF RunMessage
  <2>3. /\ queue' \in [Hosts \cup {NoHost} -> Seq(RunMessage)]
        /\ \A q \in Hosts \cup {NoHost} : q # p => queue'[q] = queue[q]
        /\ queue'[p] = Append(queue[p], m)
    BY <2>1, <2>2 DEF RunTypes
  <2>4. \A k \in 1..Len(queue'[p]) :
          \/ k \in 1..Len(queue[p]) /\ queue'[p][k] = queue[p][k]
          \/ queue'[p][k] = m
    BY <2>3 DEF RunTypes
  <2>5. ASSUME NEW k \in 1..Len(queue'[p]) PROVE Created(queue'[p][k].id)
    <3>1. CASE k \in 1..Len(queue[p]) /\ queue'[p][k] = queue[p][k]
      BY <3>1 DEF CreatedFirst
    <3>2. CASE queue'[p][k] = m
      BY <2>2, <3>2
    <3>3. QED
      BY <2>4, <3>1, <3>2
  <2>6. ASSUME NEW q \in Hosts \cup {NoHost}, NEW k \in 1..Len(queue'[q])
        PROVE  Created(queue'[q][k].id)
    <3>1. CASE q = p
      BY <2>5, <3>1
    <3>2. CASE q # p
      BY <2>3, <3>2 DEF CreatedFirst
    <3>3. QED
      BY <3>1, <3>2
  <2>7. QED
    BY <2>3, <2>6 DEF Created
<1>3. QED
  BY <1>1, <1>2

LEMMA ExpiryKeeps ==
  ASSUME RunInv, NEW d \in flight, DeliveryExpires(d)
  PROVE  RunInv'
<1>1. RunTypes /\ CreatedFirst
  BY DEF RunInv
<1>2. /\ ~Transient /\ flight' = flight \ {d} /\ Again(NoHost, d.id, d.attempt)
      /\ UNCHANGED <<config, status, client, host, episodes, lost, cut>>
  BY DEF DeliveryExpires
<1>3. d.id \in Ids /\ d.attempt \in Nat /\ Created(d.id)
  BY <1>1 DEF RunTypes, CreatedFirst
<1>4. /\ queue' \in [Hosts \cup {NoHost} -> Seq(RunMessage)]
      /\ \A q \in Hosts \cup {NoHost} : \A k \in 1..Len(queue'[q]) : Created(queue[q][k].id)'
  BY <1>1, <1>2, <1>3, AgainKeeps
<1>5. Onwards /\ RunTypes'
  BY <1>1, <1>2, <1>4 DEF Onwards, Rests, Created, RunTypes
<1>6. CreatedFirst'
  BY <1>1, <1>2, <1>4 DEF CreatedFirst, Created, Transient
<1>7. QED
  BY <1>2, <1>5, <1>6, WorldKeeps

LEMMA BeginKeeps ==
  ASSUME RunInv, NEW h \in Hosts, BeginLoop(h)
  PROVE  RunInv'
<1>1. host[h] \in Process /\ HostOk(h) /\ RunTypes /\ CreatedFirst
  BY DEF RunInv, RunTypes
<1>2. PICK r : r = [host[h] EXCEPT !.pc = "check"]
  OBVIOUS
<1>3. /\ host[h].pc = "begin" /\ host[h] = Fresh /\ host' = [host EXCEPT ![h] = r]
      /\ UNCHANGED <<config, status, client, flight, episodes, lost, cut>>
  BY <1>1, <1>2 DEF BeginLoop, RunTypes, HostOk
<1>4. r \in Process /\ r.pc = "check" /\ r.idle = 0 /\ r.errors = host[h].errors
  BY <1>1, <1>2, <1>3 DEF Process, LoopSteps, Fresh
<1>5. /\ host' \in [Hosts -> Process] /\ host'[h] = r
      /\ \A g \in Hosts \ {h} : host'[g] = host[g]
  BY <1>3, <1>4, HostMoves
<1>6. CASE ~Transient
  <2>1. queue' = queue
    BY <1>6 DEF BeginLoop
  <2>2. Onwards /\ RunTypes' /\ CreatedFirst'
    BY <1>1, <1>3, <1>5, <2>1 DEF Onwards, Rests, Created, RunTypes, CreatedFirst, Transient
  <2>3. HostOk(h)'
    BY <1>1, <1>3, <1>4, <1>5, <1>6 DEF HostOk, Delivering, Transient
  <2>4. QED
    BY <1>3, <1>5, <1>6, <2>2, <2>3, HostKeeps
<1>7. CASE Transient
  <2>1. PICK order \in [1..Cardinality(Ids) -> Ids] :
          /\ \A i \in Ids : \E k \in DOMAIN order : order[k] = i
          /\ queue' = [queue EXCEPT ![h] = [k \in DOMAIN order |-> [id |-> order[k], attempt |-> 0]]]
    BY <1>7 DEF BeginLoop
  <2>2. PICK n \in Nat : n = Cardinality(Ids)
    BY FS_CardinalityType, QueuedRunAssumption
  <2>3. PICK messages : messages = [k \in 1..n |-> [id |-> order[k], attempt |-> 0]]
    OBVIOUS
  <2>4. messages \in [1..n -> RunMessage]
    BY <2>2, <2>3 DEF RunMessage
  <2>5. messages \in Seq(RunMessage) /\ Len(messages) = n
    BY <2>4
  <2>6. /\ queue' \in [Hosts \cup {NoHost} -> Seq(RunMessage)] /\ queue'[h] = messages
        /\ \A q \in Hosts \cup {NoHost} : q # h => queue'[q] = queue[q]
    BY <1>1, <2>1, <2>2, <2>3, <2>5 DEF RunTypes
  <2>7. \A i \in Ids : \E k \in 1..Len(queue'[h]) : queue'[h][k].id = i
    BY <2>1, <2>2, <2>3, <2>5, <2>6
  <2>8. Onwards /\ RunTypes'
    BY <1>1, <1>3, <1>5, <2>6 DEF Onwards, Rests, Created, RunTypes
  <2>9. CreatedFirst'
    <3>1. \A i \in Ids : Created(i)'
      BY <1>1, <1>3, <1>7 DEF CreatedFirst, Created
    <3>2. ASSUME NEW d \in flight PROVE d.id \in Ids
      BY <1>1 DEF RunTypes
    <3>3. RunTypes' => \A q \in Hosts \cup {NoHost} : \A k \in 1..Len(queue'[q]) :
                         queue'[q][k].id \in Ids
      <4>1. ASSUME RunTypes', NEW q \in Hosts \cup {NoHost}, NEW k \in 1..Len(queue'[q])
            PROVE  queue'[q][k].id \in Ids
        <5>1. queue'[q][k] \in RunMessage
          BY <2>6
        <5>2. QED
          BY <5>1 DEF RunMessage
      <4>2. QED
        BY <4>1
    <3>4. QED
      BY <1>3, <2>8, <3>1, <3>2, <3>3 DEF CreatedFirst, Created
  <2>10. HostOk(h)'
    <3>1. Offered(h)'
      BY <1>4, <1>5, <2>7 DEF Offered
    <3>2. QED
      BY <1>1, <1>3, <1>4, <1>5, <3>1 DEF HostOk, Delivering, Transient
  <2>11. QED
    BY <1>3, <1>5, <2>6, <2>8, <2>9, <2>10, HostKeeps
<1>8. QED
  BY <1>6, <1>7

LEMMA TakeKeeps ==
  ASSUME RunInv, NEW h \in Hosts, Take(h)
  PROVE  RunInv'
<1>1. host[h] \in Process /\ HostOk(h) /\ RunTypes /\ CreatedFirst
  BY DEF RunInv, RunTypes
<1>2. PICK q \in Hosts \cup {NoHost} : q = Polled(h) /\ (Transient => q = h)
  BY DEF Polled
<1>3. PICK m : m = Head(queue[q])
  OBVIOUS
<1>4. PICK r : r = [host[h] EXCEPT !.pc = "build", !.id = m.id, !.attempt = m.attempt]
  OBVIOUS
<1>5. PICK d : d = [host |-> h, id |-> m.id, attempt |-> m.attempt]
  OBVIOUS
<1>6. /\ host[h].pc = "check" /\ queue[q] # <<>>
      /\ queue' = [queue EXCEPT ![q] = Tail(queue[q])]
      /\ flight' = flight \cup {d}
      /\ UNCHANGED <<config, status, client, episodes, lost, cut>>
  BY <1>1, <1>2, <1>3, <1>5 DEF Take, RunTypes
<1>7. host' = [host EXCEPT ![h] = r]
  BY <1>1, <1>2, <1>3, <1>4 DEF Take, RunTypes
<1>8. /\ queue[q] \in Seq(RunMessage) /\ m \in RunMessage /\ m = queue[q][1]
      /\ 1 \in 1..Len(queue[q]) /\ Len(queue[q]) \in Nat
  BY <1>1, <1>3, <1>6 DEF RunTypes
<1>9. m.id \in Ids /\ m.attempt \in Nat /\ Created(m.id)
  BY <1>1, <1>8 DEF RunMessage, CreatedFirst
<1>10. /\ r \in Process /\ r.pc = "build" /\ r.id = m.id /\ r.attempt = m.attempt
       /\ r.idle = host[h].idle /\ r.errors = host[h].errors
       /\ r.observers = host[h].observers /\ r.last = host[h].last
  BY <1>1, <1>4, <1>9 DEF Process, LoopSteps
<1>11. /\ host' \in [Hosts -> Process] /\ host'[h] = r
       /\ \A g \in Hosts \ {h} : host'[g] = host[g]
  BY <1>7, <1>10, HostMoves
<1>12. /\ queue' \in [Hosts \cup {NoHost} -> Seq(RunMessage)] /\ queue'[q] = Tail(queue[q])
       /\ \A p \in Hosts \cup {NoHost} : p # q => queue'[p] = queue[p]
  BY <1>1, <1>6, <1>8 DEF RunTypes
<1>13. /\ Len(queue'[q]) = Len(queue[q]) - 1
       /\ \A k \in 1..Len(queue'[q]) : k + 1 \in 1..Len(queue[q]) /\ queue'[q][k] = queue[q][k + 1]
  BY <1>6, <1>8, <1>12
<1>14. Onwards /\ RunTypes'
  BY <1>1, <1>5, <1>6, <1>9, <1>11, <1>12 DEF Onwards, Rests, Created, RunTypes
<1>15. CreatedFirst'
  <2>1. ASSUME NEW p \in Hosts \cup {NoHost}, NEW k \in 1..Len(queue'[p])
        PROVE  Created(queue'[p][k].id)
    <3>1. CASE p = q
      BY <1>1, <1>13, <3>1 DEF CreatedFirst
    <3>2. CASE p # q
      BY <1>1, <1>12, <3>2 DEF CreatedFirst
    <3>3. QED
      BY <3>1, <3>2
  <2>2. \A e \in flight' : Created(e.id)
    BY <1>1, <1>5, <1>6, <1>9 DEF CreatedFirst
  <2>3. QED
    BY <1>1, <1>6, <2>1, <2>2 DEF CreatedFirst, Created, Transient
<1>16. ASSUME Transient PROVE Offered(h)'
  <2>1. q = h /\ host[h].idle = 0 /\ Offered(h)
    BY <1>1, <1>2, <1>6, <1>16 DEF HostOk, Offered, Process
  <2>2. ASSUME NEW i \in Ids, NEW k \in 1..Len(queue[h]), queue[h][k].id = i
        PROVE  m.id = i \/ \E n \in 1..Len(queue'[h]) : queue'[h][n].id = i
    <3>1. CASE k = 1
      BY <1>8, <2>1, <2>2, <3>1
    <3>2. CASE k # 1
      <4>1. k - 1 \in 1..Len(queue'[h]) /\ queue'[h][k - 1].id = i
        BY <1>8, <1>13, <2>1, <2>2, <3>2
      <4>2. QED
        BY <4>1
    <3>3. QED
      BY <3>1, <3>2
  <2>3. \A i \in Ids : Rests(i)' <=> Rests(i)
    BY <1>6 DEF Rests
  <2>4. QED
    BY <1>6, <1>10, <1>11, <2>1, <2>2, <2>3 DEF Offered
<1>17. HostOk(h)'
  <2>1. ASSUME NEW e \in flight', e.host = h PROVE e = Delivery(h)'
    <3>1. e = d
      BY <1>1, <1>6, <2>1 DEF HostOk, Delivering
    <3>2. QED
      BY <1>5, <1>10, <1>11, <3>1 DEF Delivery
  <2>2. Created(m.id)'
    BY <1>6, <1>9 DEF Created
  <2>3. Delivering(h)'
    BY <1>10, <1>11 DEF Delivering
  <2>4. QED
    BY <1>1, <1>6, <1>9, <1>10, <1>11, <1>16, <2>1, <2>2, <2>3 DEF HostOk, Created, Transient
<1>18. \A e \in flight' : e.host # h => e \in flight
  BY <1>5, <1>6
<1>19. QED
  BY <1>2, <1>6, <1>11, <1>12, <1>14, <1>15, <1>17, <1>18, HostKeeps

(* The loop returns.                                                           *)
LEMMA LeaveKeeps ==
  ASSUME RunInv, NEW h \in Hosts, host[h].pc \in {"check", "after"},
         NEW reason \in {"stop_requested", "max_iterations", "max_idle_cycles"}, Leave(h, reason),
         reason = "max_idle_cycles" => host[h].pc = "after" /\ host[h].idle > 0
  PROVE  RunInv'
<1>1. host[h] \in Process /\ HostOk(h) /\ RunTypes /\ CreatedFirst
  BY DEF RunInv, RunTypes
<1>2. PICK r : r = [host[h] EXCEPT !.pc = "left", !.last = reason]
  OBVIOUS
<1>3. /\ host' = [host EXCEPT ![h] = r]
      /\ queue' = IF Transient THEN [queue EXCEPT ![h] = <<>>] ELSE queue
      /\ UNCHANGED <<config, status, client, flight, episodes, lost, cut>>
  BY <1>1, <1>2 DEF Leave, RunTypes
<1>4. /\ r \in Process /\ r.pc = "left" /\ r.idle = host[h].idle
      /\ r.errors = host[h].errors /\ r.last = reason
  BY <1>1, <1>2 DEF Process, LoopSteps
<1>5. /\ host' \in [Hosts -> Process] /\ host'[h] = r
      /\ \A g \in Hosts \ {h} : host'[g] = host[g]
  BY <1>3, <1>4, HostMoves
<1>6. /\ queue' \in [Hosts \cup {NoHost} -> Seq(RunMessage)] /\ (Transient => queue'[h] = <<>>)
      /\ \A q \in Hosts \cup {NoHost} : queue'[q] = queue[q] \/ queue'[q] = <<>>
      /\ \A g \in Hosts \ {h} : queue'[g] = queue[g]
  BY <1>1, <1>3 DEF RunTypes
<1>7. Onwards /\ RunTypes'
  BY <1>1, <1>3, <1>5, <1>6 DEF Onwards, Rests, Created, RunTypes
<1>8. CreatedFirst'
  <2>1. \A q \in Hosts \cup {NoHost} : \A k \in 1..Len(queue'[q]) : Created(queue'[q][k].id)
    BY <1>1, <1>6 DEF CreatedFirst
  <2>2. QED
    BY <1>1, <1>3, <2>1 DEF CreatedFirst, Created, Transient
<1>9. ASSUME Transient PROVE Offered(h)'
  <2>1. Offered(h)
    BY <1>1, <1>9 DEF HostOk
  <2>2. ASSUME reason = "max_idle_cycles", host[h].errors = 0 PROVE \A i \in Ids : Rests(i)
    <3>1. queue[h] = <<>> /\ Len(queue[h]) = 0
      BY <2>1, <2>2 DEF Offered
    <3>2. QED
      BY <2>1, <2>2, <3>1 DEF Offered
  <2>3. \A i \in Ids : Rests(i)' <=> Rests(i)
    BY <1>3 DEF Rests
  <2>4. QED
    BY <1>4, <1>5, <1>6, <1>9, <2>2, <2>3 DEF Offered
<1>10. HostOk(h)'
  BY <1>1, <1>3, <1>4, <1>5, <1>9 DEF HostOk, Delivering, Transient
<1>11. QED
  BY <1>3, <1>5, <1>6, <1>7, <1>8, <1>10, HostKeeps

LEMMA LoopEnds ==
  ASSUME RunInv, NEW h \in Hosts, Bounds(h) \/ Stop(h)
  PROVE  RunInv'
<1>1. host[h] \in Process /\ HostOk(h) /\ RunTypes /\ CreatedFirst
  BY DEF RunInv, RunTypes
<1>2. CASE Stop(h)
  BY <1>2, LeaveKeeps DEF Stop, StopAt
<1>3. CASE host[h].pc = "after" /\ Leave(h, "max_iterations")
  BY <1>3, LeaveKeeps
<1>4. CASE host[h].pc = "after" /\ IdleDone(h) /\ Leave(h, "max_idle_cycles")
  <2>1. host[h].idle > 0
    BY <1>1, <1>4 DEF IdleDone, Process, RunTypes
  <2>2. QED
    BY <1>4, <2>1, LeaveKeeps
<1>5. CASE /\ host[h].pc = "after" /\ host' = [host EXCEPT ![h].pc = "check"]
           /\ UNCHANGED <<config, status, client, queue, flight, dead, dropped, episodes, lost, cut>>
  <2>1. PICK r : r = [host[h] EXCEPT !.pc = "check"]
    OBVIOUS
  <2>2. host' = [host EXCEPT ![h] = r]
    BY <1>1, <1>5, <2>1 DEF RunTypes
  <2>3. /\ r \in Process /\ r.pc = "check" /\ r.idle = host[h].idle /\ r.errors = host[h].errors
    BY <1>1, <2>1 DEF Process, LoopSteps
  <2>4. /\ host' \in [Hosts -> Process] /\ host'[h] = r
        /\ \A g \in Hosts \ {h} : host'[g] = host[g]
    BY <2>2, <2>3, HostMoves
  <2>5. Onwards /\ RunTypes' /\ CreatedFirst'
    BY <1>1, <1>5, <2>4 DEF Onwards, Rests, Created, RunTypes, CreatedFirst, Transient
  <2>6. HostOk(h)'
    BY <1>1, <1>5, <2>3, <2>4 DEF HostOk, Offered, Delivering, Rests, Transient
  <2>7. QED
    BY <1>5, <2>4, <2>5, <2>6, HostKeeps
<1>6. QED
  BY <1>2, <1>3, <1>4, <1>5 DEF Bounds

(* The record of a process after a delivery.                                   *)
LEMMA CountedIs ==
  ASSUME NEW h \in Hosts, host[h] \in Process, NEW e \in {0, 1}
  PROVE  LET r == Counted(h, e) IN
         /\ r \in Process /\ r.pc = "after" /\ r.idle = 0 /\ r.errors = e
<1>1. PICK i \in Nat : i = IF config.iterations = 0 THEN 0 ELSE host[h].iterations + 1
  BY DEF Process
<1>2. PICK r : r = [host[h] EXCEPT !.pc = "after", !.id = "none", !.attempt = 0, !.idle = 0,
                                   !.iterations = i, !.errors = e]
  OBVIOUS
<1>3. r = Counted(h, e)
  BY <1>1, <1>2 DEF Counted, Process
<1>4. r \in Process /\ r.pc = "after" /\ r.idle = 0 /\ r.errors = e
  BY <1>1, <1>2 DEF Process, LoopSteps
<1>5. QED
  BY <1>3, <1>4

LEMMA AckSettles ==
  ASSUME RunInv, NEW h \in Hosts, Ack(h)
  PROVE  RunInv'
<1>1. host[h] \in Process /\ HostOk(h) /\ RunTypes /\ CreatedFirst
  BY DEF RunInv, RunTypes
<1>2. PICK r \in Process : /\ r = Counted(h, host[h].errors)
                           /\ r.pc = "after" /\ r.idle = 0 /\ r.errors = host[h].errors
  <2>1. host[h].errors \in {0, 1}
    BY <1>1 DEF Process
  <2>2. QED
    BY <1>1, <2>1, CountedIs
<1>3. /\ host[h].pc = "ack" /\ flight' = flight \ {Delivery(h)} /\ host' = [host EXCEPT ![h] = r]
      /\ UNCHANGED <<config, status, client, queue, episodes, lost, cut>>
  BY <1>2 DEF Ack
<1>4. /\ host' \in [Hosts -> Process] /\ host'[h] = r
      /\ \A g \in Hosts \ {h} : host'[g] = host[g]
  BY <1>3, HostMoves
<1>5. Onwards /\ RunTypes' /\ CreatedFirst'
  BY <1>1, <1>3, <1>4 DEF Onwards, Rests, Created, RunTypes, CreatedFirst, Transient
<1>6. ASSUME Transient PROVE Offered(h)'
  <2>1. Offered(h) /\ Rests(host[h].id)
    BY <1>1, <1>3, <1>6 DEF HostOk
  <2>2. \A i \in Ids : Rests(i)' <=> Rests(i)
    BY <1>3 DEF Rests
  <2>3. QED
    BY <1>2, <1>3, <1>4, <2>1, <2>2 DEF Offered
<1>7. HostOk(h)'
  BY <1>1, <1>2, <1>3, <1>4, <1>6 DEF HostOk, Delivering, Transient
<1>8. QED
  BY <1>3, <1>4, <1>5, <1>7, HostKeeps

LEMMA NackSettles ==
  ASSUME RunInv, NEW h \in Hosts, Nack(h)
  PROVE  RunInv'
<1>1. host[h] \in Process /\ HostOk(h) /\ RunTypes /\ CreatedFirst
  BY DEF RunInv, RunTypes
<1>2. PICK r \in Process : /\ r = Counted(h, ErrorsAfterNack(h))
                           /\ r.pc = "after" /\ r.idle = 0 /\ r.errors = 1
  BY <1>1, CountedIs DEF ErrorsAfterNack
<1>3. /\ host[h].pc = "nack" /\ flight' = flight \ {Delivery(h)} /\ host' = [host EXCEPT ![h] = r]
      /\ UNCHANGED <<config, status, client, episodes, lost, cut>>
  BY <1>2 DEF Nack
<1>4. /\ host' \in [Hosts -> Process] /\ host'[h] = r
      /\ \A g \in Hosts \ {h} : host'[g] = host[g]
  BY <1>3, HostMoves
<1>5. PICK q \in Hosts \cup {NoHost} : q = Polled(h) /\ (Transient => q = h)
  BY DEF Polled
<1>6. /\ queue' \in [Hosts \cup {NoHost} -> Seq(RunMessage)]
      /\ \A p \in Hosts \cup {NoHost} : p # q => queue'[p] = queue[p]
      /\ \A p \in Hosts \cup {NoHost} : \A k \in 1..Len(queue'[p]) : Created(queue[p][k].id)'
  <2>1. host[h].id \in Ids /\ host[h].attempt \in Nat /\ Created(host[h].id)
    BY <1>1, <1>3 DEF HostOk, Delivering, Process
  <2>2. CASE queue' = queue
    BY <1>1, <1>3, <2>2 DEF RunTypes, CreatedFirst, Created
  <2>3. CASE Again(q, host[h].id, host[h].attempt)
    BY <1>1, <1>3, <2>1, <2>3, AgainKeeps
  <2>4. QED
    BY <1>5, <2>2, <2>3 DEF Nack
<1>7. Onwards /\ RunTypes'
  BY <1>1, <1>3, <1>4, <1>6 DEF Onwards, Rests, Created, RunTypes
<1>8. CreatedFirst'
  BY <1>1, <1>3, <1>6 DEF CreatedFirst, Created, Transient
<1>9. Offered(h)'
  BY <1>2, <1>4 DEF Offered
<1>10. HostOk(h)'
  BY <1>1, <1>2, <1>3, <1>4, <1>9 DEF HostOk, Delivering, Transient
<1>11. QED
  BY <1>3, <1>4, <1>5, <1>6, <1>7, <1>8, <1>10, HostKeeps

LEMMA RestartKeeps ==
  ASSUME RunInv, NEW h \in Hosts, Restart(h)
  PROVE  RunInv'
<1>1. host[h] \in Process /\ HostOk(h) /\ RunTypes /\ CreatedFirst
  BY DEF RunInv, RunTypes
<1>2. /\ ~Transient /\ host[h].pc \in {"left", "died"} /\ host' = [host EXCEPT ![h] = Fresh]
      /\ lost' = [lost EXCEPT ![h] = {}]
      /\ UNCHANGED <<config, status, client, queue, flight, episodes, cut>>
  BY DEF Restart
<1>3. /\ host' \in [Hosts -> Process] /\ host'[h] = Fresh
      /\ \A g \in Hosts \ {h} : host'[g] = host[g]
  BY <1>2, FreshIsProcess, HostMoves
<1>4. /\ lost' \in [Hosts -> SUBSET Ids] /\ lost'[h] = {}
      /\ \A g \in Hosts \ {h} : lost'[g] = lost[g]
  BY <1>1, <1>2 DEF RunTypes
<1>5. Onwards /\ RunTypes' /\ CreatedFirst'
  BY <1>1, <1>2, <1>3, <1>4 DEF Onwards, Rests, Created, RunTypes, CreatedFirst, Transient
<1>6. HostOk(h)'
  BY <1>1, <1>2, <1>3, <1>4 DEF HostOk, Delivering, Transient, Fresh
<1>7. QED
  BY <1>2, <1>3, <1>4, <1>5, <1>6, HostKeeps

(* The episode of the session that h ended: written, lost, or gone with h.     *)
LEMMA EpisodeKeeps ==
  ASSUME RunInv, NEW h \in Hosts, NEW r \in Process, host' = [host EXCEPT ![h] = r],
         r.pc # "emit", UNCHANGED <<config, status>>, NEW j, j = host[h].id, cut \subseteq cut',
         \A i \in Ids : i # j => episodes'[i] = episodes[i],
         host[h].pc = "emit" =>
           /\ episodes'[j] \in {episodes[j], AppendOnce(episodes[j], status[j])}
           /\ episodes'[j] = AppendOnce(episodes[j], status[j]) \/ j \in cut',
         host[h].pc # "emit" => episodes' = episodes
  PROVE  Remembered'
<1>1. RunTypes /\ HostOk(h) /\ Remembered
  BY DEF RunInv
<1>2. /\ host'[h] = r /\ \A g \in Hosts \ {h} : host'[g] = host[g]
  BY HostMoves
<1>3. SUFFICES ASSUME NEW i \in Ids
               PROVE  /\ Len(episodes'[i]) \in {0, 1}
                      /\ Len(episodes'[i]) = 1 =>
                           episodes'[i][1] = status[i] /\ status[i] \in Ended
                      /\ \/ status[i] \notin Ended \/ i \in cut' \/ Len(episodes'[i]) = 1
                         \/ \E g \in Hosts : host'[g].pc = "emit" /\ host'[g].id = i
  BY DEF Remembered
<1>4. /\ Len(episodes[i]) \in {0, 1}
      /\ Len(episodes[i]) = 1 => episodes[i][1] = status[i] /\ status[i] \in Ended
      /\ \/ status[i] \notin Ended \/ i \in cut \/ Len(episodes[i]) = 1
         \/ \E g \in Hosts : host[g].pc = "emit" /\ host[g].id = i
  BY <1>1 DEF Remembered
<1>5. CASE i # j \/ host[h].pc # "emit"
  <2>1. ASSUME NEW g \in Hosts, host[g].pc = "emit", host[g].id = i
        PROVE  host'[g] = host[g]
    BY <1>2, <1>5, <2>1
  <2>2. QED
    BY <1>4, <1>5, <2>1
<1>6. CASE i = j /\ host[h].pc = "emit"
  <2>1. status[j] \in Ended /\ status[j] \in Statuses /\ episodes[j] \in Seq(Statuses)
    BY <1>1, <1>6 DEF HostOk, RunTypes
  <2>2. /\ Len(AppendOnce(episodes[j], status[j])) = 1
        /\ AppendOnce(episodes[j], status[j])[1] = status[j]
    <3>1. CASE Len(episodes[j]) = 0
      <4>1. AppendOnce(episodes[j], status[j]) = Append(episodes[j], status[j])
        BY <2>1, <3>1 DEF AppendOnce
      <4>2. QED
        BY <2>1, <3>1, <4>1
    <3>2. CASE Len(episodes[j]) = 1
      <4>1. 1 \in DOMAIN episodes[j] /\ episodes[j][1] = status[j]
        BY <1>4, <1>6, <2>1, <3>2
      <4>2. AppendOnce(episodes[j], status[j]) = episodes[j]
        BY <4>1 DEF AppendOnce
      <4>3. QED
        BY <3>2, <4>1, <4>2
    <3>3. QED
      BY <1>4, <1>6, <3>1, <3>2
  <2>3. QED
    BY <1>4, <1>6, <2>1, <2>2
<1>7. QED
  BY <1>5, <1>6

LEMMA EmitKeeps ==
  ASSUME RunInv, NEW h \in Hosts, NEW n \in 0..host[h].observers, Emit(h, n)
  PROVE  RunInv'
<1>1. host[h] \in Process /\ HostOk(h) /\ RunTypes /\ CreatedFirst /\ host[h].pc = "emit"
  BY DEF RunInv, RunTypes, Emit
<1>2. PICK j \in Ids : j = host[h].id
  BY <1>1 DEF HostOk, Delivering
<1>3. /\ status[j] \in Ended /\ status[j] \in Statuses /\ episodes[j] \in Seq(Statuses)
      /\ host[h].observers \in 1..MaxObservers
  BY <1>1, <1>2 DEF HostOk, RunTypes, Process, MaxObservers
<1>4. PICK m \in 0..MaxObservers : m = host[h].observers - n
  BY <1>3 DEF MaxObservers
<1>5. PICK a : a = Projected(episodes[j], status[j], m)
  OBVIOUS
<1>6. /\ a = IF m = 0 THEN episodes[j] ELSE AppendOnce(episodes[j], status[j])
      /\ a \in Seq(Statuses)
  <2>1. a = IF m = 0 THEN episodes[j] ELSE AppendOnce(episodes[j], status[j])
    BY <1>3, <1>5, ProjectedOnce
  <2>2. AppendOnce(episodes[j], status[j]) \in Seq(Statuses)
    BY <1>3 DEF AppendOnce
  <2>3. QED
    BY <1>3, <2>1, <2>2
<1>7. PICK pc \in {"nack", "ack"} : pc = IF n > 0 THEN "nack" ELSE "ack"
  OBVIOUS
<1>8. PICK r : r = [host[h] EXCEPT !.pc = pc]
  OBVIOUS
<1>9. /\ episodes' = [episodes EXCEPT ![j] = a] /\ host' = [host EXCEPT ![h] = r]
      /\ IF n = host[h].observers
         THEN lost' = [lost EXCEPT ![h] = lost[h] \cup {j}] /\ cut' = cut \cup {j}
         ELSE UNCHANGED <<lost, cut>>
      /\ UNCHANGED <<config, status, client, queue, flight>>
  BY <1>1, <1>2, <1>4, <1>5, <1>7, <1>8 DEF Emit, RunTypes
<1>10. /\ r \in Process /\ r.pc = pc /\ r.id = j /\ r.attempt = host[h].attempt
       /\ r.idle = host[h].idle /\ r.errors = host[h].errors
  BY <1>1, <1>2, <1>8 DEF Process, LoopSteps
<1>11. /\ host' \in [Hosts -> Process] /\ host'[h] = r
       /\ \A g \in Hosts \ {h} : host'[g] = host[g]
  BY <1>9, <1>10, HostMoves
<1>12. /\ episodes' \in [Ids -> Seq(Statuses)] /\ episodes'[j] = a
       /\ \A i \in Ids : i # j => episodes'[i] = episodes[i]
  BY <1>1, <1>6, <1>9 DEF RunTypes
<1>13. /\ lost' \in [Hosts -> SUBSET Ids] /\ (lost'[h] # {} => lost[h] # {} \/ n > 0)
       /\ \A g \in Hosts \ {h} : lost'[g] = lost[g]
  <2>1. lost \in [Hosts -> SUBSET Ids]
    BY <1>1 DEF RunTypes
  <2>2. CASE n = host[h].observers
    <3>1. n > 0 /\ lost' = [lost EXCEPT ![h] = lost[h] \cup {j}]
      BY <1>3, <1>9, <2>2 DEF MaxObservers
    <3>2. QED
      BY <2>1, <3>1
  <2>3. CASE n # host[h].observers
    BY <1>9, <2>1, <2>3
  <2>4. QED
    BY <2>2, <2>3
<1>14. Onwards /\ RunTypes' /\ CreatedFirst'
  BY <1>1, <1>9, <1>11, <1>12, <1>13
     DEF Onwards, Rests, Created, RunTypes, CreatedFirst, Transient
<1>15. Remembered'
  <2>1. m = 0 => j \in cut'
    BY <1>3, <1>4, <1>9 DEF MaxObservers
  <2>2. cut \subseteq cut'
    BY <1>9
  <2>3. r.pc # "emit"
    BY <1>10
  <2>4. QED
    BY <1>1, <1>2, <1>6, <1>9, <1>10, <1>12, <2>1, <2>2, <2>3, EpisodeKeeps
<1>16. ASSUME Transient PROVE Offered(h)'
  <2>1. Offered(h)
    BY <1>1, <1>16 DEF HostOk
  <2>2. \A i \in Ids : Rests(i)' <=> Rests(i)
    BY <1>9 DEF Rests
  <2>3. QED
    BY <1>1, <1>7, <1>9, <1>10, <1>11, <2>1, <2>2 DEF Offered
<1>17. HostOk(h)'
  <2>1. Rests(j)' /\ Created(j)'
    BY <1>1, <1>2, <1>3, <1>9 DEF Rests, HostOk, Delivering, Created
  <2>2. lost'[h] # {} => r.errors # 0 \/ r.pc = "nack"
    BY <1>1, <1>7, <1>10, <1>13 DEF HostOk
  <2>3. Delivering(h)' /\ Delivery(h)' = Delivery(h) /\ Delivering(h)
    BY <1>1, <1>2, <1>10, <1>11 DEF Delivering, Delivery
  <2>4. QED
    BY <1>1, <1>9, <1>10, <1>11, <1>16, <2>1, <2>2, <2>3 DEF HostOk, Rests, Created, Transient
<1>18. ASSUME NEW g \in Hosts, g # h PROVE HostOk(g)'
  BY <1>9, <1>11, <1>13, <1>14, <1>18, OthersStay
<1>19. QED
  BY <1>14, <1>15, <1>17, <1>18 DEF RunInv

LEMMA DeathKeeps ==
  ASSUME RunInv, NEW h \in Hosts, Dies(h)
  PROVE  RunInv'
<1>1. host[h] \in Process /\ HostOk(h) /\ RunTypes /\ CreatedFirst /\ NoHost \notin Hosts
  BY QueuedRunAssumption DEF RunInv, RunTypes
<1>2. PICK r \in Process : /\ r = [Fresh EXCEPT !.pc = "died"] /\ r.pc = "died" /\ r.idle = 0
  BY FreshIsProcess DEF Fresh
<1>3. /\ host' = [host EXCEPT ![h] = r]
      /\ cut' = IF host[h].pc = "emit" THEN cut \cup {host[h].id} ELSE cut
      /\ flight' = IF Transient THEN {d \in flight : d.host # h}
                   ELSE {IF d.host = h THEN [d EXCEPT !.host = NoHost] ELSE d : d \in flight}
      /\ queue' = IF Transient THEN [queue EXCEPT ![h] = <<>>] ELSE queue
      /\ UNCHANGED <<config, status, client, episodes, lost>>
  BY <1>2 DEF Dies
<1>4. /\ host' \in [Hosts -> Process] /\ host'[h] = r
      /\ \A g \in Hosts \ {h} : host'[g] = host[g]
  BY <1>3, HostMoves
<1>5. /\ queue' \in [Hosts \cup {NoHost} -> Seq(RunMessage)]
      /\ \A q \in Hosts \cup {NoHost} : queue'[q] = queue[q] \/ queue'[q] = <<>>
      /\ \A g \in Hosts \ {h} : queue'[g] = queue[g]
  BY <1>1, <1>3 DEF RunTypes
<1>6. ASSUME NEW e \in flight'
      PROVE  \E d \in flight : /\ e.id = d.id /\ e.attempt = d.attempt
                               /\ \/ e = d /\ d.host # h
                                  \/ e.host = NoHost /\ e = [d EXCEPT !.host = NoHost]
  <2>1. CASE Transient
    BY <2>1, <1>3, <1>6
  <2>2. CASE ~Transient
    <3>1. PICK d \in flight : e = IF d.host = h THEN [d EXCEPT !.host = NoHost] ELSE d
      BY <2>2, <1>3, <1>6
    <3>2. d \in [host : Hosts \cup {NoHost}, id : Ids, attempt : Nat]
      BY <1>1 DEF RunTypes
    <3>3. CASE d.host = h
      BY <3>1, <3>2, <3>3
    <3>4. CASE d.host # h
      BY <3>1, <3>4
    <3>5. QED
      BY <3>3, <3>4
  <2>3. QED
    BY <2>1, <2>2
<1>7. /\ flight' \subseteq [host : Hosts \cup {NoHost}, id : Ids, attempt : Nat]
      /\ \A e \in flight' : e.host # h /\ (e.host \in Hosts => e \in flight)
  <2>1. ASSUME NEW e \in flight'
        PROVE  /\ e \in [host : Hosts \cup {NoHost}, id : Ids, attempt : Nat]
               /\ e.host # h /\ (e.host \in Hosts => e \in flight)
    <3>1. PICK d \in flight : /\ e.id = d.id /\ e.attempt = d.attempt
                              /\ \/ e = d /\ d.host # h
                                 \/ e.host = NoHost /\ e = [d EXCEPT !.host = NoHost]
      BY <1>6
    <3>2. d \in [host : Hosts \cup {NoHost}, id : Ids, attempt : Nat]
      BY <1>1 DEF RunTypes
    <3>3. QED
      BY <1>1, <3>1, <3>2
  <2>2. QED
    BY <2>1
<1>8. Onwards /\ RunTypes'
  BY <1>1, <1>3, <1>4, <1>5, <1>7 DEF Onwards, Rests, Created, RunTypes
<1>9. CreatedFirst'
  <2>1. \A q \in Hosts \cup {NoHost} : \A k \in 1..Len(queue'[q]) : Created(queue'[q][k].id)
    BY <1>1, <1>5 DEF CreatedFirst
  <2>2. \A e \in flight' : Created(e.id)
    BY <1>1, <1>6 DEF CreatedFirst
  <2>3. QED
    BY <1>1, <1>3, <2>1, <2>2 DEF CreatedFirst, Created, Transient
<1>10. Remembered'
  <2>1. /\ cut \subseteq cut' /\ (host[h].pc = "emit" => host[h].id \in cut')
    BY <1>3
  <2>2. QED
    BY <1>2, <1>3, <2>1, EpisodeKeeps
<1>11. HostOk(h)'
  BY <1>2, <1>4, <1>7 DEF HostOk, Offered, Delivering
<1>12. ASSUME NEW g \in Hosts, g # h PROVE HostOk(g)'
  BY <1>3, <1>4, <1>5, <1>7, <1>8, <1>12, OthersStay
<1>13. QED
  BY <1>8, <1>9, <1>10, <1>11, <1>12 DEF RunInv

LEMMA NextRun == RunInv /\ [QueuedRunNext]_runVars => RunInv'
<1> SUFFICES ASSUME RunInv, [QueuedRunNext]_runVars PROVE RunInv'
  OBVIOUS
<1>1. CASE UNCHANGED runVars
  <2>1. RunTypes' /\ CreatedFirst' /\ Onwards
    BY <1>1 DEF runVars, RunInv, RunTypes, CreatedFirst, Created, Transient, Onwards, Rests
  <2>2. QED
    BY <1>1, <2>1, WorldKeeps DEF runVars
<1>2. ASSUME NEW h \in Hosts, HostStep(h) PROVE RunInv'
  BY <1>2, BeginKeeps, TakeKeeps, IdleKeeps, LoopEnds, BuildKeeps, RunKeeps, EmitKeeps,
     AckSettles, NackSettles DEF HostStep, LoopStep, DeliveryStep
<1>3. QED
  BY <1>1, <1>2, ClientKeeps, ExpiryKeeps, LoopEnds, DeathKeeps, RestartKeeps DEF QueuedRunNext

(* The inductive invariant of the processes and their deliveries.              *)
THEOREM RunInvariant == QueuedRunSpec => []RunInv
BY InitRun, NextRun, PTL DEF QueuedRunSpec

(* For any sessions, processes and limits, and whatever dies, expires or raises: *)
(* a session that ended has one episode, of the status it ended with, unless    *)
(* its process died or the store failed right after its last put               *)
(* (EpisodeProjectorObserver, MemoryWriteAuthority.append).                     *)
THEOREM EverySessionHasItsEpisode == QueuedRunSpec => []EpisodeOfEverySession
<1>1. ASSUME RunInv, NEW i \in Ids
      PROVE  /\ Len(episodes[i]) <= 1
             /\ Len(episodes[i]) = 1 => episodes[i][1] = status[i]
             /\ \/ status[i] \notin Ended \/ i \in cut
                \/ \E h \in Hosts : host[h].pc = "emit" /\ host[h].id = i
                \/ Len(episodes[i]) = 1
  <2>1. Len(episodes[i]) \in {0, 1}
    BY <1>1 DEF RunInv, Remembered
  <2>2. Len(episodes[i]) <= 1
    <3>1. PICK n \in {0, 1} : n = Len(episodes[i])
      BY <2>1
    <3>2. n <= 1
      OBVIOUS
    <3>3. QED
      BY <3>1, <3>2
  <2>3. /\ Len(episodes[i]) = 1 => episodes[i][1] = status[i]
        /\ \/ status[i] \notin Ended \/ i \in cut \/ Len(episodes[i]) = 1
           \/ \E h \in Hosts : host[h].pc = "emit" /\ host[h].id = i
    BY <1>1 DEF RunInv, Remembered
  <2>4. QED
    BY <2>2, <2>3
<1>2. RunInv => EpisodeOfEverySession
  BY <1>1 DEF EpisodeOfEverySession
<1>3. QED
  BY RunInvariant, <1>2, PTL

(* What a process gave up is an error of it, until it dies.                     *)
GivenUp ==
  /\ given \in [Hosts -> SUBSET Ids]
  /\ \A h \in Hosts : given[h] # {} => host[h].errors # 0 \/ host[h].pc = "died"

(* A step that keeps the errors of its process and gives nothing up.            *)
LEMMA SameErrors ==
  ASSUME RunInv, GivenUp, UNCHANGED given, NEW h \in Hosts, host[h].pc # "died",
         NEW r, host' = [host EXCEPT ![h] = r], r.errors = host[h].errors
  PROVE  GivenUp'
BY DEF RunInv, RunTypes, GivenUp

LEMMA LoopGivesUpNothing ==
  ASSUME RunInv, GivenUp, NEW h \in Hosts, LoopStep(h) \/ Stop(h)
  PROVE  GivenUp'
<1>1. host \in [Hosts -> Process] /\ host[h] \in Process
  BY DEF RunInv, RunTypes
<1>2. CASE BeginLoop(h)
  <2>1. PICK r : r = [host[h] EXCEPT !.pc = "check"]
    OBVIOUS
  <2>2. /\ host[h].pc # "died" /\ host' = [host EXCEPT ![h] = r] /\ UNCHANGED given
        /\ r.errors = host[h].errors
    BY <1>1, <1>2, <2>1 DEF BeginLoop, Process
  <2>3. QED
    BY <2>2, SameErrors
<1>3. CASE Take(h)
  <2>1. PICK m : m = Head(queue[Polled(h)])
    OBVIOUS
  <2>2. PICK r : r = [host[h] EXCEPT !.pc = "build", !.id = m.id, !.attempt = m.attempt]
    OBVIOUS
  <2>3. /\ host[h].pc # "died" /\ host' = [host EXCEPT ![h] = r] /\ UNCHANGED given
        /\ r.errors = host[h].errors
    BY <1>1, <1>3, <2>1, <2>2 DEF Take, Process
  <2>4. QED
    BY <2>3, SameErrors
<1>4. CASE Idle(h)
  <2>1. PICK r : r = [host[h] EXCEPT !.pc = "after",
                                     !.iterations = IF config.iterations = 0 THEN 0 ELSE @ + 1,
                                     !.idle = IF config.idle = 0 THEN 0 ELSE @ + 1]
    OBVIOUS
  <2>2. /\ host[h].pc # "died" /\ host' = [host EXCEPT ![h] = r] /\ UNCHANGED given
        /\ r.errors = host[h].errors
    BY <1>1, <1>4, <2>1 DEF Idle, Process
  <2>3. QED
    BY <2>2, SameErrors
<1>5. ASSUME NEW reason, Leave(h, reason), host[h].pc # "died"
      PROVE  GivenUp'
  <2>1. PICK r : r = [host[h] EXCEPT !.pc = "left", !.last = reason]
    OBVIOUS
  <2>2. host' = [host EXCEPT ![h] = r] /\ UNCHANGED given /\ r.errors = host[h].errors
    BY <1>1, <1>5, <2>1 DEF Leave, Process
  <2>3. QED
    BY <1>5, <2>2, SameErrors
<1>6. CASE Stop(h)
  BY <1>5, <1>6 DEF Stop, StopAt
<1>7. CASE Bounds(h)
  <2>1. host[h].pc # "died"
    BY <1>7 DEF Bounds
  <2>2. CASE host' = [host EXCEPT ![h].pc = "check"] /\ UNCHANGED given
    <3>1. PICK r : r = [host[h] EXCEPT !.pc = "check"]
      OBVIOUS
    <3>2. host' = [host EXCEPT ![h] = r] /\ r.errors = host[h].errors
      BY <1>1, <2>2, <3>1 DEF Process
    <3>3. QED
      BY <2>1, <2>2, <3>2, SameErrors
  <2>3. QED
    BY <1>5, <1>7, <2>1, <2>2 DEF Bounds
<1>8. QED
  BY <1>2, <1>3, <1>4, <1>6, <1>7 DEF LoopStep

LEMMA DeliveryGivesUp ==
  ASSUME RunInv, GivenUp, NEW h \in Hosts, DeliveryStep(h)
  PROVE  GivenUp'
<1>1. host \in [Hosts -> Process] /\ host[h] \in Process /\ HostOk(h)
  BY DEF RunInv, RunTypes
<1>2. ASSUME NEW p, host' = [host EXCEPT ![h].pc = p], UNCHANGED given, host[h].pc # "died"
      PROVE  GivenUp'
  <2>1. PICK r : r = [host[h] EXCEPT !.pc = p]
    OBVIOUS
  <2>2. host' = [host EXCEPT ![h] = r] /\ r.errors = host[h].errors
    BY <1>1, <1>2, <2>1 DEF Process
  <2>3. QED
    BY <1>2, <2>2, SameErrors
<1>3. CASE Build(h)
  <2>1. PICK r : r = [host[h] EXCEPT !.pc = "run",
                                     !.observers = IF ~config.traced THEN 1
                                                   ELSE IF @ = MaxObservers THEN @ ELSE @ + 1]
    OBVIOUS
  <2>2. /\ host[h].pc # "died" /\ host' = [host EXCEPT ![h] = r] /\ UNCHANGED given
        /\ r.errors = host[h].errors
    BY <1>1, <1>3, <2>1 DEF Build, Process
  <2>3. QED
    BY <2>2, SameErrors
<1>4. CASE AlreadyEnded(h) \/ Raises(h) \/ Pauses(h) \/ \E s \in Ended : Ends(h, s)
  BY <1>2, <1>4 DEF AlreadyEnded, Raises, Pauses, Ends
<1>5. ASSUME NEW n \in 0..host[h].observers, Emit(h, n)
      PROVE  GivenUp'
  <2>1. PICK p : p = IF n > 0 THEN "nack" ELSE "ack"
    OBVIOUS
  <2>2. host' = [host EXCEPT ![h].pc = p] /\ UNCHANGED given /\ host[h].pc # "died"
    BY <1>5, <2>1 DEF Emit
  <2>3. QED
    BY <1>2, <2>2
<1>6. CASE Ack(h)
  <2>1. PICK r : r = Counted(h, host[h].errors)
    OBVIOUS
  <2>2. r.errors = host[h].errors
    BY <1>1, <2>1 DEF Counted, Process
  <2>3. host[h].pc # "died" /\ host' = [host EXCEPT ![h] = r] /\ UNCHANGED given
    BY <1>6, <2>1 DEF Ack
  <2>4. QED
    BY <2>2, <2>3, SameErrors
<1>7. CASE Nack(h)
  <2>1. PICK r : r = Counted(h, ErrorsAfterNack(h))
    OBVIOUS
  <2>2. r.errors = 1
    BY <1>1, <2>1 DEF Counted, ErrorsAfterNack, Process
  <2>3. host' = [host EXCEPT ![h] = r] /\ host[h].pc = "nack"
    BY <1>7, <2>1 DEF Nack
  <2>4. host[h].id \in Ids
    BY <1>1, <2>3 DEF HostOk, Delivering
  <2>5. given' \in [Hosts -> SUBSET Ids] /\ \A g \in Hosts \ {h} : given'[g] = given[g]
    BY <1>7, <2>4 DEF Nack, GivenUp
  <2>6. host'[h].errors = 1 /\ \A g \in Hosts \ {h} : host'[g] = host[g]
    BY <1>1, <2>2, <2>3
  <2>7. QED
    BY <2>5, <2>6 DEF GivenUp
<1>8. QED
  BY <1>3, <1>4, <1>5, <1>6, <1>7 DEF DeliveryStep

LEMMA NextGivenUp == RunInv /\ GivenUp /\ [QueuedRunNext]_runVars => GivenUp'
<1> SUFFICES ASSUME RunInv, GivenUp, [QueuedRunNext]_runVars PROVE GivenUp'
  OBVIOUS
<1>1. CASE UNCHANGED <<host, given>>
  BY <1>1 DEF GivenUp
<1>2. ASSUME NEW h \in Hosts, Dies(h) PROVE GivenUp'
  <2>1. PICK r : r = [Fresh EXCEPT !.pc = "died"]
    OBVIOUS
  <2>2. r.pc = "died" /\ host' = [host EXCEPT ![h] = r] /\ UNCHANGED given
    BY <1>2, <2>1 DEF Dies, Fresh
  <2>3. QED
    BY <2>2 DEF GivenUp, RunInv, RunTypes
<1>3. ASSUME NEW h \in Hosts, Restart(h) PROVE GivenUp'
  <2>1. host' = [host EXCEPT ![h] = Fresh] /\ given' = [given EXCEPT ![h] = {}]
    BY <1>3 DEF Restart
  <2>2. given'[h] = {} /\ \A g \in Hosts \ {h} : given'[g] = given[g] /\ host'[g] = host[g]
    BY <2>1 DEF GivenUp, RunInv, RunTypes
  <2>3. QED
    BY <2>1, <2>2 DEF GivenUp
<1>4. CASE \E i \in Ids : CreateQueued(i) \/ Publish(i) \/ ClientDies(i)
  BY <1>1, <1>4 DEF CreateQueued, Publish, ClientDies
<1>5. CASE \E d \in flight : DeliveryExpires(d)
  BY <1>1, <1>5 DEF DeliveryExpires
<1>6. QED
  BY <1>1, <1>2, <1>3, <1>4, <1>5, LoopGivesUpNothing, DeliveryGivesUp
     DEF QueuedRunNext, HostStep, runVars

(* A loop that returns leaves nothing in flight, and its exit code tells the    *)
(* truth: 0 means it dropped no message, made none a dead letter and lost no    *)
(* episode, and, when it had the sessions from its command line and idled, each *)
(* of them rests (run_once, run_loop, worker_loop_exit_contract).               *)
THEOREM ExitCodesAreTrue == QueuedRunSpec => []CleanExit
<1>1. ASSUME RunInv, GivenUp, NEW h \in Hosts, host[h].pc = "left"
      PROVE  /\ \A d \in flight : d.host # h
             /\ host[h].errors = 0 => given[h] = {} /\ lost[h] = {}
             /\ Transient /\ host[h].errors = 0 /\ host[h].last = "max_idle_cycles" =>
                  \A i \in Ids : status[i] \in Ended \cup {"WAITING_GATE"}
  <2>1. host[h].errors = 0 => given[h] = {}
    BY <1>1 DEF GivenUp
  <2>2. QED
    BY <1>1, <2>1 DEF RunInv, HostOk, Offered, Delivering, Rests
<1>2. RunInv /\ GivenUp => CleanExit
  BY <1>1 DEF CleanExit
<1>3. QueuedRunInit => GivenUp
  BY DEF QueuedRunInit, GivenUp
<1>4. QED
  BY RunInvariant, NextGivenUp, <1>2, <1>3, PTL DEF QueuedRunSpec
------------------------------------------------------------------------------
(* Planning *)
(*                                                                            *)
(* GoalIsVerified needs that the plan that is stored has always what the goal   *)
(* asks for laid on its tasks (PlanStored), that a task which is completed and *)
(* not excused was looked at for all that it asks for now (Looked), and that a  *)
(* run without a ready task has completed them all (NoneIsLeft), which rests on *)
(* where the nodes of a running session can be (StageTells).                   *)

PlanTask ==
  [key : TaskKeys, requires : SUBSET TaskKeys, artifacts : SUBSET Artifacts, judged : BOOLEAN]
Delta == [remove : Seq(TaskKeys), update : Seq(Draft), add : Seq(Draft)]
NodeStatus == {"ABSENT", "STALE", "QUEUED", "COMPLETED", "PENDING_GATE", "FAILED"}

PlanTypes ==
  /\ goal \in [artifacts : SUBSET Artifacts, contract : BOOLEAN]
  /\ tasks \in Seq(PlanTask)
  /\ stage \in {"NONE", "QUEUED", "RUNNING", "WAITING_GATE", "COMPLETED", "FAILED"}
  /\ work \in [TaskKeys -> NodeStatus]
  /\ evidence \in [TaskKeys -> [checked : SUBSET Artifacts, judged : BOOLEAN]]

(* the plan that is stored asks for all that the goal asks for                 *)
PlanStored ==
  /\ UniqueKeys(tasks)
  /\ stage # "NONE" => goal.artifacts \subseteq Named(tasks)
  /\ stage # "NONE" /\ goal.contract => tasks # <<>> /\ tasks[Len(tasks)].judged

TasksHaveNodes ==
  \A k \in TaskKeys : k \in Keys(tasks) <=> work[k] \notin {"ABSENT", "STALE"}

(* where the session is tells where its nodes can be                           *)
StageTells ==
  /\ stage \in {"QUEUED", "RUNNING"} =>
       \A k \in TaskKeys : work[k] \notin {"PENDING_GATE", "FAILED"}
  /\ stage = "WAITING_GATE" =>
       \A k, g \in TaskKeys : /\ work[k] # "FAILED"
                              /\ work[k] = "PENDING_GATE" /\ work[g] = "PENDING_GATE" => k = g

(* what a completed task asks for has been looked at                           *)
Looked ==
  \A n \in DOMAIN tasks :
    LET t == tasks[n] IN
    work[t.key] = "COMPLETED" /\ ~Excused(t.key) =>
      /\ t.artifacts \subseteq evidence[t.key].checked
      /\ t.judged /\ t.artifacts # {} => evidence[t.key].judged

PlanInv == PlanTypes /\ PlanStored /\ TasksHaveNodes /\ StageTells /\ Looked

LEMMA TaskLists ==
  ASSUME NEW T, NEW ts \in Seq(T)
  PROVE  /\ Len(ts) \in Nat /\ DOMAIN ts = 1..Len(ts)
         /\ \A n \in 1..Len(ts) : ts[n] \in T
         /\ IsFiniteSet(DOMAIN ts) /\ Cardinality(DOMAIN ts) = Len(ts)
         /\ ts # <<>> => Len(ts) \in DOMAIN ts
<1>1. /\ Len(ts) \in Nat /\ DOMAIN ts = 1..Len(ts)
      /\ \A n \in 1..Len(ts) : ts[n] \in T
  OBVIOUS
<1>2. IsFiniteSet(1..Len(ts)) /\ Cardinality(1..Len(ts)) = Len(ts)
  <2>1. /\ IsFiniteSet(1..Len(ts))
        /\ Cardinality(1..Len(ts)) = IF 1 > Len(ts) THEN 0 ELSE Len(ts) - 1 + 1
    BY <1>1, FS_Interval
  <2>2. QED
    BY <1>1, <2>1
<1>3. ts # <<>> => Len(ts) \in 1..Len(ts)
  BY <1>1, EmptySeq
<1>4. QED
  BY <1>1, <1>2, <1>3

LEMMA KeysOfTasks ==
  ASSUME NEW ts \in Seq(PlanTask)
  PROVE  /\ Keys(ts) \subseteq TaskKeys
         /\ \A n \in DOMAIN ts : /\ ts[n] \in PlanTask /\ ts[n].key \in Keys(ts)
                                /\ ts[n].key \in TaskKeys
<1>1. \A n \in DOMAIN ts : ts[n] \in PlanTask
  BY TaskLists
<1>2. \A n \in DOMAIN ts : ts[n].key \in TaskKeys
  BY <1>1 DEF PlanTask
<1>3. QED
  BY <1>1, <1>2 DEF Keys

(* unique keys tell the tasks apart                                            *)
LEMMA KeysTell ==
  ASSUME NEW ts \in Seq(PlanTask), UniqueKeys(ts)
  PROVE  \A m, n \in DOMAIN ts : ts[m].key = ts[n].key => m = n
<1> DEFINE D == DOMAIN ts
           f == [n \in D |-> ts[n].key]
<1>1. IsFiniteSet(D) /\ Cardinality(D) = Cardinality(Keys(ts))
  BY TaskLists DEF UniqueKeys
<1>2. f \in Surjection(D, Keys(ts))
  BY DEF Surjection, Keys
<1>3. f \in Injection(D, Keys(ts))
  <2> HIDE DEF f, D
  <2>1. QED
    BY <1>1, <1>2, FS_Surjection
<1>4. QED
  BY <1>3 DEF Injection, IsInjective

LEMMA ChosenTask ==
  ASSUME NEW ts \in Seq(PlanTask), NEW k \in Keys(ts)
  PROVE  /\ Chosen(ts, k) \in Elements(ts) /\ Chosen(ts, k).key = k
         /\ UniqueKeys(ts) => \A n \in DOMAIN ts : ts[n].key = k => Chosen(ts, k) = ts[n]
<1>1. \E n \in DOMAIN ts : ts[n].key = k
  BY DEF Keys
<1> DEFINE c == CHOOSE n \in DOMAIN ts : ts[n].key = k
<1>2. c \in DOMAIN ts /\ ts[c].key = k
  BY <1>1
<1>3. UniqueKeys(ts) => \A n \in DOMAIN ts : ts[n].key = k => c = n
  BY <1>2, KeysTell
<1>4. QED
  BY <1>2, <1>3 DEF Chosen, Elements

(* how many there are up to it numbers a finite set of numbers                  *)
LEMMA NthOf ==
  ASSUME NEW m \in Nat, NEW S \in SUBSET (1..m), NEW n \in 1..Cardinality(S)
  PROVE  Nth(S, n) \in S
<1> DEFINE UpTo(i) == {j \in S : j <= i}
           rank == [i \in S |-> Cardinality(UpTo(i))]
           C == Cardinality(S)
<1>1. IsFiniteSet(S) /\ C \in Nat
  <2>1. IsFiniteSet(1..m)
    BY FS_Interval
  <2>2. QED
    BY <2>1, FS_Subset, FS_CardinalityType
<1>2. ASSUME NEW i \in S
      PROVE  IsFiniteSet(UpTo(i)) /\ Cardinality(UpTo(i)) \in 1..C
  <2>1. UpTo(i) \in SUBSET S /\ i \in UpTo(i)
    OBVIOUS
  <2>2. IsFiniteSet(UpTo(i)) /\ Cardinality(UpTo(i)) <= C
    BY <1>1, <2>1, FS_Subset
  <2>3. Cardinality(UpTo(i)) \in Nat
    BY <2>2, FS_CardinalityType
  <2>4. Cardinality(UpTo(i)) # 0
    BY <2>1, <2>2, FS_EmptySet
  <2> HIDE DEF UpTo, C
  <2>5. QED
    BY <1>1, <2>2, <2>3, <2>4
<1>3. ASSUME NEW i \in S, NEW j \in S, i < j
      PROVE  Cardinality(UpTo(i)) # Cardinality(UpTo(j))
  <2>0. /\ \A l \in S : l <= i => l <= j
        /\ j <= j /\ ~(j <= i)
    <3>1. i \in Nat /\ j \in Nat /\ \A l \in S : l \in Nat
      OBVIOUS
    <3>2. QED
      BY <1>3, <3>1
  <2>1. UpTo(i) \in SUBSET UpTo(j) /\ j \in UpTo(j) /\ j \notin UpTo(i)
    BY <2>0, Zenon
  <2>2. IsFiniteSet(UpTo(j))
    BY <1>2
  <2>3. QED
    <3> HIDE DEF UpTo
    <3>1. QED
      BY <2>1, <2>2, FS_Subset
<1>4. rank \in Injection(S, 1..C)
  <2>1. rank \in [S -> 1..C]
    BY <1>2
  <2>2. ASSUME NEW i \in S, NEW j \in S, i # j PROVE rank[i] # rank[j]
    <3>1. i < j \/ j < i
      <4>1. i \in Nat /\ j \in Nat
        OBVIOUS
      <4>2. QED
        BY <2>2, <4>1
    <3>2. QED
      BY <1>3, <3>1
  <2> HIDE DEF rank
  <2>3. QED
    BY <2>1, <2>2 DEF Injection, IsInjective
<1>5. IsFiniteSet(1..C) /\ Cardinality(1..C) = Cardinality(S)
  <2>1. IsFiniteSet(1..C) /\ Cardinality(1..C) = IF 1 > C THEN 0 ELSE C - 1 + 1
    BY <1>1, FS_Interval
  <2> HIDE DEF C
  <2>2. Cardinality(1..C) = C
    BY <1>1, <2>1
  <2>3. QED
    BY <2>1, <2>2 DEF C
<1>6. rank \in Surjection(S, 1..C)
  <2> HIDE DEF rank, C
  <2>1. QED
    BY <1>4, <1>5, FS_Injection
<1>7. PICK i \in S : rank[i] = n
  BY <1>6 DEF Surjection
<1>8. Cardinality({j \in S : j <= i}) = n
  BY <1>7
<1>9. QED
  BY <1>8 DEF Nth

LEMMA LatestTask ==
  ASSUME NEW ts \in Seq(PlanTask), NEW k \in Keys(ts)
  PROVE  Latest(ts, k) \in Elements(ts) /\ Latest(ts, k).key = k
<1> DEFINE same == {n \in DOMAIN ts : ts[n].key = k}
           C == Cardinality(same)
<1>1. Len(ts) \in Nat /\ DOMAIN ts = 1..Len(ts) /\ IsFiniteSet(DOMAIN ts)
  BY TaskLists
<1>2. same \in SUBSET (1..Len(ts)) /\ same # {}
  BY <1>1 DEF Keys
<1>3. IsFiniteSet(same)
  BY <1>1, FS_Subset
<1>4. C \in Nat /\ C # 0
  <2> HIDE DEF same
  <2>1. QED
    BY <1>2, <1>3, FS_CardinalityType, FS_EmptySet
<1>5. C \in 1..C
  <2> HIDE DEF C
  <2>1. QED
    BY <1>4
<1>6. Nth(same, C) \in same
  <2> HIDE DEF same
  <2>1. QED
    BY <1>1, <1>2, <1>5, NthOf
<1>7. Latest(ts, k) = ts[Nth(same, C)]
  BY DEF Latest
<1>8. QED
  <2> HIDE DEF C
  <2>1. QED
    BY <1>6, <1>7 DEF Elements

(* a delta leaves a list of tasks                                              *)
LEMMA EditedTasks ==
  ASSUME NEW ts \in Seq(PlanTask), NEW e \in Delta
  PROVE  AfterEdit(ts, e) \in Seq(PlanTask)
<1> DEFINE staying == {n \in DOMAIN ts : ts[n].key \notin Elements(e.remove) \ Keys(e.add)}
           Edited(t) == IF t.key \in Keys(e.add) THEN Chosen(e.add, t.key)
                        ELSE IF t.key \in Keys(e.update) THEN Latest(e.update, t.key)
                        ELSE t
           kept == [n \in 1..Cardinality(staying) |-> Edited(ts[Nth(staying, n)])]
<1>1. e.add \in Seq(PlanTask) /\ e.update \in Seq(PlanTask)
  <2>1. e.add \in Seq(Draft) /\ e.update \in Seq(Draft)
    BY DEF Delta
  <2>2. Draft \subseteq PlanTask
    BY DEF Draft, PlanTask
  <2> HIDE DEF kept
  <2>3. \A s \in Seq(Draft) : s \in Seq(PlanTask)
    BY <2>2
  <2>4. QED
    BY <2>1, <2>3
<1>2. ASSUME NEW us \in Seq(PlanTask) PROVE \A t \in Elements(us) : t \in PlanTask
  BY TaskLists DEF Elements
<1>3. ASSUME NEW t \in PlanTask PROVE Edited(t) \in PlanTask
  <2>1. t.key \in Keys(e.add) => Chosen(e.add, t.key) \in PlanTask
    BY <1>1, <1>2, ChosenTask
  <2>2. t.key \in Keys(e.update) => Latest(e.update, t.key) \in PlanTask
    BY <1>1, <1>2, LatestTask
  <2>3. QED
    BY <2>1, <2>2
<1>4. /\ Len(ts) \in Nat /\ DOMAIN ts = 1..Len(ts) /\ IsFiniteSet(DOMAIN ts)
      /\ \A n \in DOMAIN ts : ts[n] \in PlanTask
  BY TaskLists
<1>5. staying \in SUBSET (1..Len(ts)) /\ Cardinality(staying) \in Nat
  <2>1. staying \in SUBSET DOMAIN ts
    OBVIOUS
  <2> HIDE DEF staying
  <2>2. IsFiniteSet(staying)
    BY <2>1, <1>4, FS_Subset
  <2>3. QED
    BY <2>1, <2>2, <1>4, FS_CardinalityType
<1>6. ASSUME NEW n \in 1..Cardinality(staying) PROVE Edited(ts[Nth(staying, n)]) \in PlanTask
  <2> HIDE DEF staying, Edited
  <2>1. Nth(staying, n) \in staying
    BY <1>4, <1>5, NthOf
  <2>2. QED
    BY <2>1, <1>3, <1>4, <1>5
<1>7. kept \in Seq(PlanTask)
  <2> HIDE DEF staying, Edited
  <2>1. kept \in [1..Cardinality(staying) -> PlanTask]
    BY <1>6
  <2> HIDE DEF kept
  <2>2. QED
    BY <2>1, <1>5
<1>8. AfterEdit(ts, e) = kept \o e.add
  BY DEF AfterEdit
<1>9. QED
  <2> HIDE DEF kept
  <2>1. QED
    BY <1>1, <1>7, <1>8

(* what the goal asks for is laid on the tasks, and they stay the same otherwise *)
LEMMA LaidTasks ==
  ASSUME NEW ts \in Seq(PlanTask), Layable(ts),
         goal \in [artifacts : SUBSET Artifacts, contract : BOOLEAN]
  PROVE  /\ Laid(ts) \in Seq(PlanTask)
         /\ Keys(Laid(ts)) = Keys(ts) /\ Len(Laid(ts)) = Len(ts)
         /\ UniqueKeys(ts) => UniqueKeys(Laid(ts))
         /\ goal.artifacts \subseteq Named(Laid(ts))
         /\ goal.contract => Laid(ts) # <<>> /\ Laid(ts)[Len(Laid(ts))].judged
<1>1. CASE ts = <<>>
  BY <1>1 DEF Laid, Layable
<1>2. CASE ts # <<>>
  <2> DEFINE last == Len(ts)
             rest == goal.artifacts \ Named(ts)
             us == [ts EXCEPT ![last].artifacts = @ \cup rest]
             vs == [us EXCEPT ![last].judged = @ \/ goal.contract]
  <2>1. /\ last \in Nat /\ DOMAIN ts = 1..last /\ last \in DOMAIN ts
        /\ \A n \in DOMAIN ts : ts[n] \in PlanTask
    BY <1>2, TaskLists
  <2>2. Laid(ts) = vs
    BY <1>2 DEF Laid, WithGoalArtifacts, WithGoalContract
  <2>3. /\ DOMAIN vs = DOMAIN ts
        /\ \A n \in DOMAIN ts : n # last => vs[n] = ts[n]
        /\ vs[last] = [ts[last] EXCEPT !.artifacts = @ \cup rest, !.judged = @ \/ goal.contract]
    <3>1. /\ DOMAIN us = DOMAIN ts
          /\ \A n \in DOMAIN ts : n # last => us[n] = ts[n]
          /\ us[last] = [ts[last] EXCEPT !.artifacts = @ \cup rest]
      <4> HIDE DEF last, rest
      <4>1. QED
        BY <2>1
    <3> HIDE DEF us, last, rest
    <3>2. /\ DOMAIN vs = DOMAIN us
          /\ \A n \in DOMAIN us : n # last => vs[n] = us[n]
          /\ vs[last] = [us[last] EXCEPT !.judged = @ \/ goal.contract]
      BY <2>1, <3>1
    <3> HIDE DEF vs
    <3>3. [us[last] EXCEPT !.judged = @ \/ goal.contract]
            = [ts[last] EXCEPT !.artifacts = @ \cup rest, !.judged = @ \/ goal.contract]
      <4>1. ts[last] \in PlanTask
        BY <2>1
      <4>2. QED
        BY <3>1, <4>1 DEF PlanTask
    <3>4. QED
      BY <3>1, <3>2, <3>3
  <2> HIDE DEF vs, us
  <2>4. /\ vs[last].key = ts[last].key /\ vs[last] \in PlanTask
        /\ vs[last].artifacts = ts[last].artifacts \cup rest
        /\ goal.contract => vs[last].judged
    <3>1. rest \subseteq Artifacts /\ goal.contract \in BOOLEAN
      OBVIOUS
    <3>2. ts[last] \in PlanTask
      BY <2>1
    <3> HIDE DEF rest, last
    <3>3. QED
      BY <2>3, <3>1, <3>2 DEF PlanTask
  <2>5. \A n \in DOMAIN ts : /\ vs[n] \in PlanTask /\ vs[n].key = ts[n].key
                            /\ ts[n].artifacts \subseteq vs[n].artifacts
    BY <2>1, <2>3, <2>4
  <2>6. vs \in Seq(PlanTask) /\ Len(vs) = last /\ vs # <<>>
    <3>1. DOMAIN vs = 1..last /\ \A n \in 1..last : vs[n] \in PlanTask
      BY <2>1, <2>3, <2>5
    <3>2. vs = [n \in DOMAIN vs |-> vs[n]]
      <4>1. us = [n \in DOMAIN us |-> us[n]]
        BY DEF us
      <4>2. QED
        BY DEF vs
    <3> HIDE DEF last
    <3>3. vs \in [1..last -> PlanTask]
      BY <3>1, <3>2
    <3>4. vs \in Seq(PlanTask) /\ Len(vs) = last
      BY <3>3, <2>1
    <3>5. vs # <<>>
      BY <3>4, <2>1
    <3>6. QED
      BY <3>4, <3>5
  <2>7. Keys(vs) = Keys(ts)
    BY <2>3, <2>5 DEF Keys
  <2>8. goal.artifacts \subseteq Named(vs)
    <3>1. ASSUME NEW a \in goal.artifacts PROVE \E n \in DOMAIN vs : a \in vs[n].artifacts
      <4>1. CASE a \in Named(ts)
        <5>1. PICK n \in DOMAIN ts : a \in ts[n].artifacts
          BY <4>1 DEF Named
        <5>2. QED
          BY <5>1, <2>3, <2>5
      <4>2. CASE a \notin Named(ts)
        <5>1. a \in rest
          BY <4>2
        <5>2. QED
          BY <5>1, <2>1, <2>3, <2>4
      <4>3. QED
        BY <4>1, <4>2
    <3>2. QED
      BY <3>1 DEF Named
  <2>9. UniqueKeys(ts) => UniqueKeys(vs)
    BY <2>6, <2>7 DEF UniqueKeys
  <2>10. QED
    BY <2>2, <2>4, <2>6, <2>7, <2>8, <2>9
<1>3. QED
  BY <1>1, <1>2

LEMMA InitPlan == PlanningInit => PlanInv
<1> SUFFICES ASSUME PlanningInit PROVE PlanInv
  OBVIOUS
<1> USE DEF PlanningInit
<1>1. PlanTypes
  <2>1. tasks \in Seq(PlanTask)
    OBVIOUS
  <2>2. NoEvidence \in [checked : SUBSET Artifacts, judged : BOOLEAN]
    BY DEF NoEvidence
  <2>3. QED
    BY <2>1, <2>2 DEF PlanTypes, NodeStatus
<1>2. Keys(tasks) = {} /\ DOMAIN tasks = {}
  BY DEF Keys
<1>3. UniqueKeys(tasks)
  <2>1. Len(tasks) = 0
    OBVIOUS
  <2>2. QED
    BY <1>2, <2>1, FS_EmptySet DEF UniqueKeys
<1>4. QED
  BY <1>1, <1>2, <1>3 DEF PlanInv, PlanStored, TasksHaveNodes, StageTells, Looked

LEMMA AskingKeeps ==
  ASSUME PlanInv, UNCHANGED <<goal, tasks, stage, work, evidence, approved, moved>>
  PROVE  PlanInv'
BY DEF PlanInv, PlanTypes, PlanStored, TasksHaveNodes, StageTells, Looked, Excused

(* a plan is stored with what the goal asks for                                *)
LEMMA PlanKeeps ==
  ASSUME PlanInv, NEW ts \in Drafts, AnswersPlan(ts)
  PROVE  PlanInv'
<1>1. CASE ~PlanIsValid(ts) \/ ~Buildable(ts)
  BY <1>1, AskingKeeps DEF AnswersPlan, NotValid, Continue
<1>2. CASE PlanIsValid(ts) /\ Buildable(ts)
  <2>1. ts \in Seq(PlanTask)
    <3>1. Draft \subseteq PlanTask
      BY DEF Draft, PlanTask
    <3>2. \A s \in Seq(Draft) : s \in Seq(PlanTask)
      BY <3>1
    <3>3. QED
      BY <3>2, PlanningAssumption
  <2>2. /\ tasks' = Laid(ts) /\ stage' = "QUEUED" /\ UNCHANGED <<goal, evidence>>
        /\ work' = [k \in TaskKeys |-> IF k \in Keys(ts) THEN "QUEUED" ELSE "ABSENT"]
    BY <1>2 DEF AnswersPlan
  <2>3. Layable(ts) /\ UniqueKeys(ts)
    BY <1>2 DEF PlanIsValid, Layable
  <2>4. goal \in [artifacts : SUBSET Artifacts, contract : BOOLEAN]
    BY DEF PlanInv, PlanTypes
  <2>5. /\ tasks' \in Seq(PlanTask) /\ Keys(tasks)' = Keys(ts) /\ UniqueKeys(tasks)'
        /\ goal.artifacts \subseteq Named(tasks)'
        /\ goal.contract => tasks' # <<>> /\ tasks'[Len(tasks')].judged
    BY <2>1, <2>2, <2>3, <2>4, LaidTasks
  <2>6. PlanTypes'
    BY <2>2, <2>4, <2>5 DEF PlanInv, PlanTypes, NodeStatus
  <2>7. \A n \in DOMAIN tasks' : tasks'[n].key \in Keys(ts) /\ tasks'[n].key \in TaskKeys
    BY <2>5, KeysOfTasks
  <2>8. Looked'
    BY <2>2, <2>7 DEF Looked
  <2>9. TasksHaveNodes' /\ StageTells'
    BY <2>2, <2>5 DEF TasksHaveNodes, StageTells
  <2>10. QED
    BY <2>2, <2>5, <2>6, <2>8, <2>9 DEF PlanInv, PlanStored
<1>3. QED
  BY <1>1, <1>2

(* a revision keeps what it does not touch, and lays the goal on the tasks again *)
LEMMA DeltaKeeps ==
  ASSUME PlanInv, NEW e \in Edits, AnswersDelta(e)
  PROVE  PlanInv'
<1> DEFINE edited == AfterEdit(tasks, e)
           after == Laid(edited)
           gone == Dropped(e, after)
           again == {k \in New(after) \cup SentBack(e, after) : work[k] # "PENDING_GATE"}
<1>1. CASE ~EditIsValid(tasks, e) \/ Nothing(e) \/ ~IsLegal(e, after)
  BY <1>1, AskingKeeps DEF AnswersDelta, NotValid, Continue
<1>2. CASE EditIsValid(tasks, e) /\ ~Nothing(e) /\ IsLegal(e, after)
  <2>1. /\ tasks' = after /\ UNCHANGED <<goal, stage, evidence>>
        /\ work' = [k \in TaskKeys |-> IF k \in gone THEN "STALE"
                                       ELSE IF k \in again THEN "QUEUED" ELSE work[k]]
        /\ approved' = approved \ again
        /\ moved' = (moved \ again) \cup
                      {k \in Keys(after) \cap Keys(tasks) :
                         work'[k] = "COMPLETED" /\ Chosen(after, k) # Chosen(tasks, k)}
    BY <1>2 DEF AnswersDelta
  <2>2. goal \in [artifacts : SUBSET Artifacts, contract : BOOLEAN] /\ tasks \in Seq(PlanTask)
        /\ work \in [TaskKeys -> NodeStatus]
    BY DEF PlanInv, PlanTypes
  <2>3. edited \in Seq(PlanTask) /\ Layable(edited)
    <3>1. e \in Delta
      BY PlanningAssumption DEF Delta
    <3>2. QED
      BY <1>2, <2>2, <3>1, EditedTasks DEF EditIsValid
  <2>4. UniqueKeys(after) /\ Keys(e.update) \subseteq Keys(tasks)
    BY <1>2 DEF IsLegal, EditIsValid
  <2> HIDE DEF edited
  <2>5. /\ after \in Seq(PlanTask) /\ goal.artifacts \subseteq Named(after)
        /\ goal.contract => after # <<>> /\ after[Len(after)].judged
    BY <2>2, <2>3, LaidTasks
  <2> HIDE DEF after
  <2>6. /\ \A n \in DOMAIN after : after[n] \in PlanTask /\ after[n].key \in Keys(after)
        /\ Keys(after) \subseteq TaskKeys /\ Keys(tasks) \subseteq TaskKeys
    BY <2>2, <2>5, KeysOfTasks
  <2>7. /\ gone = Keys(tasks) \ Keys(after)
        /\ again \subseteq Keys(after)
        /\ \A k \in Keys(after) : k \in Keys(tasks) \/ k \in again \/ work[k] = "PENDING_GATE"
    BY <2>4 DEF New, SentBack, Dropped, Downstream
  <2> HIDE DEF gone, again
  <2>8. TasksHaveNodes'
    <3>1. ASSUME NEW k \in TaskKeys
          PROVE  k \in Keys(after) <=> work'[k] \notin {"ABSENT", "STALE"}
      <4>1. k \in Keys(tasks) <=> work[k] \notin {"ABSENT", "STALE"}
        BY DEF PlanInv, TasksHaveNodes
      <4>2. work'[k] = IF k \in gone THEN "STALE" ELSE IF k \in again THEN "QUEUED" ELSE work[k]
        BY <2>1
      <4>3. QED
        BY <4>1, <4>2, <2>7
    <3>2. QED
      BY <2>1, <3>1 DEF TasksHaveNodes
  <2>9. StageTells'
    <3>1. \A k \in TaskKeys : work'[k] \in {"STALE", "QUEUED", work[k]}
      BY <2>1
    <3>2. StageTells /\ stage' = stage
      BY <2>1 DEF PlanInv
    <3>3. QED
      BY <3>1, <3>2 DEF StageTells
  <2>10. Looked'
    <3>1. ASSUME NEW n \in DOMAIN after, work'[after[n].key] = "COMPLETED",
                 after[n].key \notin approved' \cup moved'
          PROVE  /\ after[n].artifacts \subseteq evidence[after[n].key].checked
                 /\ after[n].judged /\ after[n].artifacts # {} => evidence[after[n].key].judged
      <4> DEFINE k == after[n].key
      <4>1. k \in Keys(after) /\ k \in TaskKeys
        BY <2>6
      <4>2. work'[k] = IF k \in gone THEN "STALE" ELSE IF k \in again THEN "QUEUED" ELSE work[k]
        BY <2>1, <4>1
      <4>3. k \notin again /\ work[k] = "COMPLETED" /\ k \in Keys(tasks)
        BY <3>1, <4>1, <4>2, <2>7
      <4>4. k \notin approved \cup moved /\ Chosen(after, k) = Chosen(tasks, k)
        BY <2>1, <3>1, <4>1, <4>3
      <4>5. PICK m \in DOMAIN tasks : tasks[m].key = k
        BY <4>3 DEF Keys
      <4>6. Chosen(tasks, k) = tasks[m]
        BY <2>2, <4>3, <4>5, ChosenTask DEF PlanInv, PlanStored
      <4>7. Chosen(after, k) = after[n]
        BY <2>4, <2>5, <4>1, ChosenTask
      <4>8. Looked
        BY DEF PlanInv
      <4>9. QED
        BY <4>3, <4>4, <4>5, <4>6, <4>7, <4>8 DEF Looked, Excused
    <3>2. QED
      BY <2>1, <3>1 DEF Looked, Excused
  <2>11. PlanTypes'
    <3>1. work' \in [TaskKeys -> NodeStatus]
      BY <2>1, <2>2 DEF NodeStatus
    <3>2. QED
      BY <2>1, <2>5, <3>1 DEF PlanInv, PlanTypes
  <2>12. PlanStored'
    BY <2>1, <2>4, <2>5 DEF PlanStored
  <2>13. QED
    BY <2>8, <2>9, <2>10, <2>11, <2>12 DEF PlanInv
<1>3. QED
  BY <1>1, <1>2

(* a task that passes was looked at as a whole                                 *)
LEMMA TaskRunKeeps ==
  ASSUME PlanInv, NEW t \in Elements(tasks), NEW left \in SUBSET Artifacts,
         NEW good \in BOOLEAN, RunTask(t, left, good)
  PROVE  PlanInv'
<1> DEFINE judged == t.judged /\ t.artifacts \cap left # {}
           passed == t.artifacts \subseteq left /\ (judged => good)
<1>1. /\ tasks \in Seq(PlanTask) /\ UniqueKeys(tasks) /\ work \in [TaskKeys -> NodeStatus]
      /\ evidence \in [TaskKeys -> [checked : SUBSET Artifacts, judged : BOOLEAN]]
  BY DEF PlanInv, PlanTypes, PlanStored
<1>2. PICK i \in DOMAIN tasks : t = tasks[i]
  BY DEF Elements
<1>3. t.key \in TaskKeys /\ t.key \in Keys(tasks) /\ t \in PlanTask
  BY <1>1, <1>2, KeysOfTasks
<1>4. /\ work' = [work EXCEPT ![t.key] = IF passed THEN "COMPLETED" ELSE "PENDING_GATE"]
      /\ evidence' = [evidence EXCEPT ![t.key] = [checked |-> t.artifacts \cap left,
                                                judged |-> judged]]
      /\ stage' = IF passed THEN "RUNNING" ELSE "WAITING_GATE"
      /\ approved' = approved \ {t.key} /\ moved' = moved \ {t.key}
      /\ UNCHANGED <<goal, tasks>> /\ stage \in {"QUEUED", "RUNNING"}
      /\ work[t.key] = "QUEUED"
  BY DEF RunTask, Runs, IsReady
<1>5. PlanTypes'
  <2>1. work' \in [TaskKeys -> NodeStatus]
    BY <1>1, <1>4 DEF NodeStatus
  <2>2. [checked |-> t.artifacts \cap left, judged |-> judged]
          \in [checked : SUBSET Artifacts, judged : BOOLEAN]
    <3>1. t.judged \in BOOLEAN
      BY <1>3 DEF PlanTask
    <3>2. QED
      BY <3>1
  <2> HIDE DEF judged, passed
  <2>3. evidence' \in [TaskKeys -> [checked : SUBSET Artifacts, judged : BOOLEAN]]
    BY <1>1, <1>4, <2>2
  <2>4. QED
    BY <1>4, <2>1, <2>3 DEF PlanInv, PlanTypes
<1>6. PlanStored'
  BY <1>4 DEF PlanInv, PlanStored
<1>7. TasksHaveNodes'
  <2> HIDE DEF judged, passed
  <2>1. QED
    BY <1>1, <1>3, <1>4 DEF PlanInv, TasksHaveNodes
<1>8. StageTells'
  <2> HIDE DEF judged, passed
  <2>1. \A k \in TaskKeys : work[k] \notin {"PENDING_GATE", "FAILED"}
    BY <1>4 DEF PlanInv, StageTells
  <2>2. QED
    BY <1>1, <1>3, <1>4, <2>1 DEF StageTells
<1>9. Looked'
  <2>1. ASSUME NEW n \in DOMAIN tasks, work'[tasks[n].key] = "COMPLETED",
               tasks[n].key \notin approved' \cup moved'
        PROVE  /\ tasks[n].artifacts \subseteq evidence'[tasks[n].key].checked
               /\ tasks[n].judged /\ tasks[n].artifacts # {} => evidence'[tasks[n].key].judged
    <3>1. tasks[n].key \in TaskKeys
      BY <1>1, KeysOfTasks
    <3>2. CASE tasks[n].key = t.key
      <4>1. tasks[n] = t
        BY <1>1, <1>2, <3>2, KeysTell
      <4>2. passed
        <5> HIDE DEF judged, passed
        <5>1. QED
          BY <1>1, <1>3, <1>4, <2>1, <3>2
      <4>3. evidence'[t.key] = [checked |-> t.artifacts \cap left, judged |-> judged]
        <5> HIDE DEF judged, passed
        <5>1. QED
          BY <1>1, <1>3, <1>4
      <4>4. t.artifacts \cap left = t.artifacts
        BY <4>2
      <4>5. t.judged /\ t.artifacts # {} => judged
        BY <4>4
      <4>6. QED
        <5> HIDE DEF judged, passed
        <5>1. QED
          BY <4>1, <4>3, <4>4, <4>5
    <3>3. CASE tasks[n].key # t.key
      <4> HIDE DEF judged, passed
      <4>1. /\ work'[tasks[n].key] = work[tasks[n].key]
            /\ evidence'[tasks[n].key] = evidence[tasks[n].key]
            /\ tasks[n].key \notin approved \cup moved
        BY <1>1, <1>4, <2>1, <3>1, <3>3
      <4>2. QED
        BY <2>1, <4>1 DEF PlanInv, Looked, Excused
    <3>4. QED
      BY <3>2, <3>3
  <2>2. QED
    BY <1>4, <2>1 DEF Looked, Excused
<1>10. QED
  BY <1>5, <1>6, <1>7, <1>8, <1>9 DEF PlanInv

LEMMA FailureKeeps ==
  ASSUME PlanInv, NEW t \in Elements(tasks), TaskFails(t)
  PROVE  PlanInv'
<1>1. tasks \in Seq(PlanTask) /\ work \in [TaskKeys -> NodeStatus]
  BY DEF PlanInv, PlanTypes
<1>2. t.key \in TaskKeys /\ t.key \in Keys(tasks)
  BY <1>1, KeysOfTasks DEF Elements
<1>3. /\ work' = [work EXCEPT ![t.key] = "FAILED"] /\ stage' = "FAILED"
      /\ UNCHANGED <<goal, tasks, evidence, approved, moved>>
  BY DEF TaskFails
<1>4. \A k \in TaskKeys : work'[k] = IF k = t.key THEN "FAILED" ELSE work[k]
  BY <1>1, <1>3
<1>5. PlanTypes' /\ PlanStored'
  <2>1. work' \in [TaskKeys -> NodeStatus]
    BY <1>1, <1>3 DEF NodeStatus
  <2>2. PlanTypes'
    BY <1>3, <2>1 DEF PlanInv, PlanTypes
  <2>3. PlanStored'
    <3>1. PlanStored /\ stage # "NONE"
      BY DEF PlanInv, TaskFails, Runs
    <3>2. UNCHANGED <<goal, tasks>>
      BY <1>3
    <3>3. QED
      BY <3>1, <3>2 DEF PlanStored
  <2>4. QED
    BY <2>2, <2>3
<1>6. TasksHaveNodes' /\ StageTells'
  BY <1>2, <1>3, <1>4 DEF PlanInv, TasksHaveNodes, StageTells
<1>7. \A n \in DOMAIN tasks : tasks[n].key \in TaskKeys
  BY <1>1, KeysOfTasks
<1>8. Looked'
  BY <1>3, <1>4, <1>7 DEF PlanInv, Looked, Excused
<1>9. QED
  BY <1>5, <1>6, <1>8 DEF PlanInv

LEMMA DecisionKeeps ==
  ASSUME PlanInv, NEW k \in TaskKeys, NEW verdict \in {"APPROVE", "REVISE"},
         DecideTask(k, verdict)
  PROVE  PlanInv'
<1>1. tasks \in Seq(PlanTask) /\ work \in [TaskKeys -> NodeStatus]
  BY DEF PlanInv, PlanTypes
<1>2. /\ work' = [work EXCEPT ![k] = IF verdict = "APPROVE" THEN "COMPLETED" ELSE "QUEUED"]
      /\ approved' = IF verdict = "APPROVE" THEN approved \cup {k} ELSE approved
      /\ stage = "WAITING_GATE" /\ stage' = "RUNNING" /\ work[k] = "PENDING_GATE"
      /\ UNCHANGED <<goal, tasks, evidence, moved>>
  BY DEF DecideTask
<1>3. \A j \in TaskKeys : work'[j] = IF j # k THEN work[j]
                                     ELSE IF verdict = "APPROVE" THEN "COMPLETED" ELSE "QUEUED"
  BY <1>1, <1>2
<1>4. PlanTypes' /\ PlanStored'
  BY <1>1, <1>2 DEF PlanInv, PlanTypes, PlanStored, NodeStatus
<1>5. TasksHaveNodes' /\ StageTells'
  BY <1>2, <1>3 DEF PlanInv, TasksHaveNodes, StageTells
<1>6. \A n \in DOMAIN tasks : tasks[n].key \in TaskKeys
  BY <1>1, KeysOfTasks
<1>7. Looked'
  BY <1>2, <1>3, <1>6 DEF PlanInv, Looked, Excused
<1>8. QED
  BY <1>4, <1>5, <1>7 DEF PlanInv

LEMMA NextPlan == PlanInv /\ [PlanningNext]_planVars => PlanInv'
<1> SUFFICES ASSUME PlanInv, [PlanningNext]_planVars PROVE PlanInv'
  OBVIOUS
<1>1. CASE StartGoal
  BY <1>1, AskingKeeps DEF StartGoal
<1>2. CASE AskRevision
  BY <1>2, AskingKeeps DEF AskRevision
<1>3. CASE PlannerStep
  <2>1. CASE ProviderFails \/ NoJson \/ Malformed
    BY <2>1, AskingKeeps DEF ProviderFails, NoJson, Malformed, NotValid, Continue
  <2>2. QED
    BY <1>3, <2>1, PlanKeeps, DeltaKeeps DEF PlannerStep
<1>4. CASE PlanRunStep
  <2>1. CASE CompletePlan
    <3>1. stage' = "COMPLETED" /\ stage = "RUNNING"
          /\ UNCHANGED <<goal, tasks, work, evidence, approved, moved>>
      BY <2>1 DEF CompletePlan
    <3>2. QED
      BY <3>1 DEF PlanInv, PlanTypes, PlanStored, TasksHaveNodes, StageTells, Looked, Excused
  <2>2. QED
    BY <1>4, <2>1, TaskRunKeeps, FailureKeeps DEF PlanRunStep
<1>5. CASE \E k \in TaskKeys, verdict \in {"APPROVE", "REVISE"} : DecideTask(k, verdict)
  BY <1>5, DecisionKeeps
<1>6. CASE UNCHANGED planVars
  BY <1>6, AskingKeeps DEF planVars
<1>7. QED
  BY <1>1, <1>2, <1>3, <1>4, <1>5, <1>6 DEF PlanningNext

LEMMA PlanInvariant == PlanningSpec => []PlanInv
BY InitPlan, NextPlan, PTL DEF PlanningSpec

(* a run that finds no ready task in a graph without cycles has completed them all *)
LEMMA NoneIsLeft ==
  ASSUME PlanInv, CompletePlan
  PROVE  \A n \in DOMAIN tasks : work[tasks[n].key] = "COMPLETED"
<1>1. /\ tasks \in Seq(PlanTask) /\ work \in [TaskKeys -> NodeStatus] /\ TasksHaveNodes
      /\ stage = "RUNNING" /\ Buildable(tasks) /\ KnownRequires(tasks)
      /\ \A t \in Elements(tasks) : ~IsReady(t)
      /\ \A k \in TaskKeys : work[k] \notin {"PENDING_GATE", "FAILED"}
  BY DEF PlanInv, PlanTypes, StageTells, CompletePlan, Runs, Buildable
<1> DEFINE open == {n \in DOMAIN tasks : work[tasks[n].key] # "COMPLETED"}
<1>2. SUFFICES ASSUME open # {} PROVE FALSE
  BY <1>2
<1>3. PICK n \in open : \A m \in open : tasks[m].key \notin tasks[n].requires
  <2>1. open \in SUBSET DOMAIN tasks
    OBVIOUS
  <2> HIDE DEF open
  <2>2. QED
    BY <1>1, <1>2, <2>1 DEF Buildable
<1>4. work[tasks[n].key] = "QUEUED"
  <2>1. tasks[n].key \in Keys(tasks) /\ tasks[n].key \in TaskKeys
    BY <1>1, KeysOfTasks
  <2>2. work[tasks[n].key] \in NodeStatus
    BY <1>1, <2>1
  <2>3. QED
    BY <1>1, <2>1, <2>2 DEF TasksHaveNodes, NodeStatus
<1>5. ASSUME NEW r \in tasks[n].requires PROVE work[r] = "COMPLETED"
  <2>1. PICK m \in DOMAIN tasks : tasks[m].key = r
    BY <1>1 DEF KnownRequires, Keys
  <2>2. QED
    BY <1>3, <2>1
<1>6. QED
  BY <1>1, <1>4, <1>5 DEF IsReady, Elements

(* For any plans, deltas and answers: a session completes only with what its    *)
(* goal asks for looked at by the latest runs of its tasks, as far as no        *)
(* decision or revision excused them (with_goal_expected_artifacts,             *)
(* with_goal_quality_contract, ExecutionPlan.apply_delta).                      *)
THEOREM GoalsAreVerified == PlanningSpec => GoalIsVerified
<1>1. ASSUME PlanInv, [PlanningNext]_planVars, stage # "COMPLETED", stage' = "COMPLETED"
      PROVE  Verified
  <2>1. CompletePlan
    BY <1>1 DEF PlanningNext, PlanRunStep, PlannerStep, StartGoal, AskRevision, ProviderFails,
                NoJson, Malformed, NotValid, Continue, AnswersPlan, AnswersDelta, RunTask,
                TaskFails, DecideTask, planVars
  <2>2. /\ tasks \in Seq(PlanTask) /\ stage # "NONE"
        /\ goal.artifacts \subseteq Named(tasks)
        /\ goal.contract => tasks # <<>> /\ tasks[Len(tasks)].judged
    BY <1>1, <2>1 DEF PlanInv, PlanTypes, PlanStored, CompletePlan
  <2>3. ASSUME NEW n \in DOMAIN tasks, ~Excused(tasks[n].key)
        PROVE  /\ tasks[n].artifacts \subseteq evidence[tasks[n].key].checked
               /\ tasks[n].judged /\ tasks[n].artifacts # {} => evidence[tasks[n].key].judged
    BY <1>1, <2>1, <2>3, NoneIsLeft DEF PlanInv, Looked
  <2>4. ASSUME NEW a \in goal.artifacts
        PROVE  \E t \in Elements(tasks) :
                 a \in t.artifacts /\ (a \in evidence[t.key].checked \/ Excused(t.key))
    <3>1. PICK n \in DOMAIN tasks : a \in tasks[n].artifacts
      BY <2>2, <2>4 DEF Named
    <3>2. QED
      BY <2>3, <3>1 DEF Elements
  <2>5. ASSUME goal.contract
        PROVE  LET last == tasks[Len(tasks)] IN
               last.judged /\ (evidence[last.key].judged \/ Excused(last.key) \/ last.artifacts = {})
    <3>1. Len(tasks) \in DOMAIN tasks
      BY <2>2, <2>5, TaskLists
    <3>2. QED
      BY <2>2, <2>3, <2>5, <3>1
  <2>6. QED
    BY <2>4, <2>5 DEF Verified
<1>2. PlanInv /\ [PlanningNext]_planVars
        => (stage # "COMPLETED" /\ stage' = "COMPLETED" => Verified)
  BY <1>1
<1>3. QED
  BY PlanInvariant, <1>2, PTL DEF PlanningSpec, GoalIsVerified
==============================================================================
