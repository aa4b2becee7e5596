--------------------------- MODULE RedisStreamQueue ---------------------------
(***************************************************************************)
(* RedisStreamQueueAdapter (queue/redis_stream.py) and the workers that      *)
(* poll it (QueueExecutionHost.run_once).  An operation of the adapter is a  *)
(* sequence of Redis commands; one action is one command, so the commands    *)
(* of several workers interleave and a crash or a failing command can cut    *)
(* an operation after any of them.                                           *)
(*                                                                           *)
(* Redis is modelled from the commands the adapter sends: a stream whose     *)
(* entry ids are 1, 2, ..., the pending entries list of the one consumer     *)
(* group, the idle time of each pending entry (a flag: visibility passed),   *)
(* the delivery_state hash and the dead-letter stream.                       *)
(*                                                                           *)
(* A delivery token is unique; here it is the worker and the attempt, which  *)
(* tells a worker's handle apart from every other handle on that entry,      *)
(* since a worker holds one message at a time.                               *)
(***************************************************************************)
EXTENDS Naturals, Sequences, FiniteSets

CONSTANTS
  Sessions,             \* session ids that are enqueued, each once
  Workers,              \* consumers of the group
  Nobody,               \* no worker
  MaxDeliveryAttempts,  \* max_delivery_attempts, set (None never dead-letters)
  MaxEvents             \* bound: operations cut short and dead letters replayed

ASSUME QueueAssumption ==
  /\ Nobody \notin Workers
  /\ MaxDeliveryAttempts \in Nat \ {0}
  /\ MaxEvents \in Nat

VARIABLES
  stream,      \* every entry ever added: [session, attempt]
  present,     \* entries not deleted (XDEL)
  cursor,      \* last entry delivered by XREADGROUP
  owner,       \* worker that holds the entry in the pending entries list
  idle,        \* pending entries whose visibility timeout has passed
  hash,        \* delivery_state: [entry, by, attempt]
  dead,        \* dead letters: [id, session, attempt]
  pc,          \* the next command of each worker
  hand,        \* the entry it works on: [entry, session, attempt, verdict]
  replaying,   \* ids of dead letters replayed and about to be removed
  submitted, settled, cut,   \* sessions enqueued; acked or dropped; lost by a cut nack
  deliveries, replays,       \* deliveries and replays of each session
  raced,       \* a worker acted on an entry another one had reclaimed
  faults,      \* operations cut short
  events,      \* operations cut short and dead letters replayed
  buried       \* dead letters so far, the id of the last one

redis == <<stream, present, cursor, owner, idle, hash, dead>>
history == <<submitted, settled, cut, deliveries, replays, raced, faults, events, buried>>
vars == <<redis, pc, hand, replaying, history>>

Verdict == {"ack", "retry", "drop", "bury"}
NoHand == [entry |-> 0, session |-> Nobody, attempt |-> 0, verdict |-> "ack"]

Init ==
  /\ stream = <<>> /\ present = {} /\ cursor = 0
  /\ owner = <<>> /\ idle = {} /\ hash = {} /\ dead = {}
  /\ pc = [w \in Workers |-> "poll"]
  /\ hand = [w \in Workers |-> NoHand]
  /\ replaying = {}
  /\ submitted = {} /\ settled = {} /\ cut = {}
  /\ deliveries = [s \in Sessions |-> 0]
  /\ replays = [s \in Sessions |-> 0]
  /\ raced = FALSE /\ faults = 0 /\ events = 0 /\ buried = 0

------------------------------------------------------------------------------
(* Redis *)

Pending == {e \in DOMAIN stream : owner[e] # Nobody}

(* XADD to the stream; the new entry is pending for nobody *)
Add(session, attempt) ==
  /\ stream' = Append(stream, [session |-> session, attempt |-> attempt])
  /\ present' = present \cup {Len(stream) + 1}
  /\ owner' = Append(owner, Nobody)
  /\ UNCHANGED <<cursor, idle, hash, dead>>

(* XADD to the dead-letter stream *)
Bury(session, attempt) ==
  /\ dead' = dead \cup {[id |-> buried + 1, session |-> session, attempt |-> attempt]}
  /\ buried' = buried + 1
  /\ UNCHANGED <<stream, present, cursor, owner, idle, hash>>

(* the entry has been pending for visibility_timeout_seconds *)
Expire(e) ==
  /\ e \in Pending \ idle
  /\ idle' = idle \cup {e}
  /\ UNCHANGED <<stream, present, cursor, owner, hash, dead>>
  /\ UNCHANGED <<pc, hand, replaying, history>>

------------------------------------------------------------------------------
(* dequeue *)

ShouldDeadLetter(attempt) == attempt >= MaxDeliveryAttempts

Work(w) == hand[w].entry
Goto(w, step) == pc' = [pc EXCEPT ![w] = step]

Release(w) == Goto(w, "poll") /\ hand' = [hand EXCEPT ![w] = NoHand]

(* a worker is between two commands on the entry *)
Busy(w, e) == Work(w) = e /\ pc[w] \notin {"poll", "run"}

(* variant: an entry whose delivery was never issued is not reclaimed *)
ReclaimIssued == {e \in idle : \E h \in hash : h.entry = e}

Reclaimable == idle

(* XAUTOCLAIM from the start of the stream: the first expired entry *)
Claim(w) ==
  /\ pc[w] = "poll"
  /\ \E e \in Reclaimable :
       /\ \A f \in Reclaimable : e <= f
       /\ owner' = [owner EXCEPT ![e] = w]
       /\ idle' = idle \ {e}
       /\ hand' = [hand EXCEPT ![w] =
            [entry |-> e, session |-> stream[e].session, attempt |-> 0, verdict |-> "ack"]]
       /\ raced' = (raced \/ \E v \in Workers : Busy(v, e))
  /\ Goto(w, "claimed")
  /\ UNCHANGED <<stream, present, cursor, hash, dead, replaying>>
  /\ UNCHANGED <<submitted, settled, cut, deliveries, replays, faults, events, buried>>

(* XAUTOCLAIM finds nothing, then XREADGROUP '>': the next new entry.  An    *)
(* entry that expires between the two is as good as one that expires later.  *)
ReadNew(w) ==
  /\ pc[w] = "poll" /\ Reclaimable = {} /\ cursor < Len(stream)
  /\ cursor' = cursor + 1
  /\ owner' = [owner EXCEPT ![cursor + 1] = w]
  /\ hand' = [hand EXCEPT ![w] =
       [entry |-> cursor + 1, session |-> stream[cursor + 1].session,
        attempt |-> stream[cursor + 1].attempt, verdict |-> "ack"]]
  /\ Goto(w, "issue")
  /\ UNCHANGED <<stream, present, idle, hash, dead, replaying, history>>

(* _current_delivery_message: the attempt in the delivery state, or the one  *)
(* in the fields when there is no state *)
Previous(e) ==
  IF \E h \in hash : h.entry = e
  THEN {h.attempt : h \in {g \in hash : g.entry = e}}
  ELSE {stream[e].attempt}

Inspect(w) ==
  /\ pc[w] = "claimed"
  /\ \E attempt \in Previous(Work(w)) :
       /\ hand' = [hand EXCEPT ![w].attempt = attempt + 1]
       /\ Goto(w, IF ShouldDeadLetter(attempt + 1) THEN "bury" ELSE "issue")
  /\ UNCHANGED <<redis, replaying, history>>

(* a reclaimed entry at its budget: the dead letter is added, then the entry *)
(* is removed; dequeue returns None *)
BuryReclaimed(w) ==
  /\ pc[w] = "bury"
  /\ Bury(hand[w].session, hand[w].attempt)
  /\ hand' = [hand EXCEPT ![w].verdict = "bury"]
  /\ Goto(w, "xack")
  /\ UNCHANGED <<replaying, submitted, settled, cut, deliveries, replays, raced, faults, events>>

Token(w) == [entry |-> Work(w), by |-> w, attempt |-> hand[w].attempt]

(* _issue_delivery: HSET of a new token; the message is delivered *)
Issue(w) ==
  /\ pc[w] = "issue"
  /\ hash' = {h \in hash : h.entry # Work(w)} \cup {Token(w)}
  /\ deliveries' = [deliveries EXCEPT ![hand[w].session] = @ + 1]
  /\ Goto(w, "run")
  /\ UNCHANGED <<stream, present, cursor, owner, idle, dead, hand, replaying>>
  /\ UNCHANGED <<submitted, settled, cut, replays, raced, faults, events, buried>>

------------------------------------------------------------------------------
(* ack and nack *)

(* variant: any handle on an entry that is in delivery matches *)
AnyTokenMatches(w) == \E h \in hash : h.entry = Work(w)

(* _delivery_token_matches *)
DeliveryTokenMatches(w) == Token(w) \in hash

(* run_session ends: it returns (ack), or raises (nack, with or without      *)
(* retry_on_error).  A handle that does not match is ignored.                *)
Settle(w) ==
  /\ pc[w] = "run"
  /\ \/ /\ DeliveryTokenMatches(w)
        /\ \E verdict \in {"ack", "retry", "drop"} :
             hand' = [hand EXCEPT ![w].verdict = verdict]
        /\ Goto(w, "xack")
        /\ raced' = (raced \/ (Token(w) \in hash /\ owner[Work(w)] # w))
     \/ ~DeliveryTokenMatches(w) /\ Release(w) /\ UNCHANGED raced
  /\ UNCHANGED <<redis, replaying>>
  /\ UNCHANGED <<submitted, settled, cut, deliveries, replays, faults, events, buried>>

(* _ack_and_delete: XACK, XDEL, HDEL *)
Xack(w) ==
  /\ pc[w] = "xack"
  /\ owner' = [owner EXCEPT ![Work(w)] = Nobody]
  /\ idle' = idle \ {Work(w)}
  /\ settled' = IF hand[w].verdict \in {"ack", "drop"}
                THEN settled \cup {hand[w].session} ELSE settled
  /\ Goto(w, "xdel")
  /\ UNCHANGED <<stream, present, cursor, hash, dead, hand, replaying>>
  /\ UNCHANGED <<submitted, cut, deliveries, replays, raced, faults, events, buried>>

Xdel(w) ==
  /\ pc[w] = "xdel"
  /\ present' = present \ {Work(w)}
  /\ Goto(w, "hdel")
  /\ UNCHANGED <<stream, cursor, owner, idle, hash, dead, hand, replaying, history>>

Hdel(w) ==
  /\ pc[w] = "hdel"
  /\ hash' = {h \in hash : h.entry # Work(w)}
  /\ IF hand[w].verdict = "retry"
     THEN Goto(w, "append") /\ UNCHANGED hand ELSE Release(w)
  /\ UNCHANGED <<stream, present, cursor, owner, idle, dead, replaying, history>>

(* variant: at its budget a message is dropped, not dead-lettered *)
RetryOrDrop(w) ==
  LET next == hand[w].attempt + 1
  IN  /\ UNCHANGED buried
      /\ IF ShouldDeadLetter(next) THEN UNCHANGED redis
         ELSE Add(hand[w].session, next)

(* _retry_or_dead_letter *)
RetryOrDeadLetter(w) ==
  LET next == hand[w].attempt + 1
  IN  \/ ShouldDeadLetter(next) /\ Bury(hand[w].session, next)
      \/ /\ ~ShouldDeadLetter(next)
         /\ Add(hand[w].session, next) /\ UNCHANGED buried

AppendRetry(w) ==
  /\ pc[w] = "append"
  /\ RetryOrDeadLetter(w)
  /\ Release(w)
  /\ UNCHANGED <<replaying, submitted, settled, cut, deliveries, replays, raced, faults, events>>

(* The worker dies or a command raises.  An entry that is still pending will *)
(* expire; a nack that has removed it and not yet appended the retry loses   *)
(* the message.                                                              *)
Cut(w) ==
  /\ pc[w] # "poll" /\ events < MaxEvents
  /\ events' = events + 1 /\ faults' = faults + 1
  /\ cut' = IF hand[w].verdict = "retry" /\ pc[w] \in {"xdel", "hdel", "append"}
            THEN cut \cup {hand[w].session} ELSE cut
  /\ Release(w)
  /\ UNCHANGED <<redis, replaying, submitted, settled, deliveries, replays, raced, buried>>

------------------------------------------------------------------------------
(* enqueue and replay *)

Enqueue(s) ==
  /\ s \notin submitted
  /\ submitted' = submitted \cup {s}
  /\ Add(s, 0)
  /\ UNCHANGED <<pc, hand, replaying, settled, cut, deliveries, replays, raced, faults, events, buried>>

(* replay_dead_letter: XADD, then XDEL of the dead letter when               *)
(* remove_from_dead_letters; reset_attempt starts the budget again           *)
Replay(d, reset, remove) ==
  /\ replaying = {} /\ events < MaxEvents
  /\ events' = events + 1
  /\ Add(d.session, IF reset THEN 0 ELSE d.attempt)
  /\ replaying' = IF remove THEN {d.id} ELSE {}
  /\ replays' = [replays EXCEPT ![d.session] = @ + 1]
  /\ UNCHANGED <<pc, hand, submitted, settled, cut, deliveries, raced, faults, buried>>

RemoveDeadLetter ==
  /\ replaying # {}
  /\ dead' = {d \in dead : d.id \notin replaying}
  /\ replaying' = {}
  /\ UNCHANGED <<stream, present, cursor, owner, idle, hash, pc, hand, history>>

(* the operator's process dies between the two: the dead letter stays *)
CutReplay ==
  /\ replaying # {}
  /\ replaying' = {}
  /\ UNCHANGED <<redis, pc, hand, history>>

------------------------------------------------------------------------------

Step(w) ==
  \/ Claim(w) \/ ReadNew(w) \/ Inspect(w) \/ BuryReclaimed(w) \/ Issue(w)
  \/ Settle(w) \/ Xack(w) \/ Xdel(w) \/ Hdel(w) \/ AppendRetry(w)

Next ==
  \/ \E w \in Workers : Step(w) \/ Cut(w)
  \/ \E e \in DOMAIN stream : Expire(e)
  \/ \E s \in Sessions : Enqueue(s)
  \/ \E d \in dead, reset, remove \in BOOLEAN : Replay(d, reset, remove)
  \/ RemoveDeadLetter \/ CutReplay

Spec == Init /\ [][Next]_vars

(* A worker polls again and again and its commands return; time passes.      *)
FairSpec ==
  /\ Spec
  /\ \A w \in Workers : WF_vars(Step(w))
  /\ WF_vars(\E e \in DOMAIN stream : Expire(e))
  /\ WF_vars(RemoveDeadLetter)

------------------------------------------------------------------------------
(* Properties *)

Undelivered == {e \in DOMAIN stream : e > cursor}

(* the message will be delivered again: an entry of its session waits or is  *)
(* pending, or a worker is about to append one                               *)
Owed(s) ==
  \/ \E e \in present : /\ stream[e].session = s
                        /\ e \in Undelivered \cup Pending
  \/ \E w \in Workers : /\ hand[w].session = s /\ hand[w].verdict = "retry"
                        /\ pc[w] \in {"xdel", "hdel", "append"}

(* No message is lost: whatever the workers, their crashes and their expired *)
(* handles do, a session that was enqueued is acknowledged, dropped on       *)
(* purpose, a dead letter, or owed another delivery.  The one exception is a *)
(* nack cut between the removal of the entry and the append of its retry     *)
(* (redis_stream.py, nack).                                                  *)
NothingLost ==
  \A s \in submitted :
    s \in settled \cup cut \/ Owed(s) \/ \E d \in dead : d.session = s

(* No worker is about to remove the entry of a delivery that another one     *)
(* holds.  (Not what the code does: the token is read in one command and the *)
(* entry removed in the next ones, and a reclaim may come in between.)       *)
StaleHandlesAreNoOps ==
  \A v, w \in Workers :
    (v # w /\ pc[w] = "xack" /\ hand[w].verdict # "bury" /\ Work(v) = Work(w)) =>
      ~(pc[v] = "run" /\ DeliveryTokenMatches(v))

(* The documented delivery budget: max_delivery_attempts = N allows exactly  *)
(* N deliveries of a message.  Used by DeliveryBudget.                       *)
ExactlyNDeliveries ==
  \A s \in Sessions :
    deliveries[s] <= MaxDeliveryAttempts * (1 + replays[s])

(* The budget holds as long as no worker acts on an entry that another one   *)
(* has reclaimed: at most N deliveries for each time the message was         *)
(* enqueued or replayed, and, when no operation was cut short, a message is  *)
(* dead-lettered only after N of them.                                       *)
DeliveryBudget ==
  ~raced =>
    /\ ExactlyNDeliveries
    /\ faults = 0 =>
         \A d \in dead : deliveries[d.session] >= MaxDeliveryAttempts

(* Every message comes to rest: at some point the stream has nothing left to *)
(* deliver and nothing pending, for ever.                                    *)
Drains == <>[](cursor = Len(stream) /\ Pending = {})
==============================================================================
