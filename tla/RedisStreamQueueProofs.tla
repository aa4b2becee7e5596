------------------------- MODULE RedisStreamQueueProofs -------------------------
(* For any sessions, workers, budget and number of cuts: no message is lost,   *)
(* and the delivery budget holds as long as no worker acts on an entry that    *)
(* another one reclaimed.  The queue in memory keeps every session in one      *)
(* place and its budget exact.                                                 *)
(*                                                                            *)
(* NothingLost is not inductive as it stands.  A dead letter that is being     *)
(* replayed, and an entry whose dead letter is already written and which is    *)
(* about to be removed, still count there; Covered leaves them out, so that    *)
(* their removal takes nothing away.                                           *)
EXTENDS RedisStreamQueue, InMemoryQueue, FiniteSetTheorems, SequenceTheorems, TLAPS

USE QueueAssumption

Steps == {"poll", "claimed", "bury", "issue", "run", "xack", "xdel", "hdel", "append"}
Entry == [session : Sessions, attempt : Nat]
Handle == [entry : Nat, session : Sessions \cup {Nobody}, attempt : Nat, verdict : Verdict]

Types ==
  /\ stream \in Seq(Entry)
  /\ owner \in Seq(Workers \cup {Nobody}) /\ Len(owner) = Len(stream)
  /\ cursor \in Nat /\ cursor <= Len(stream)
  /\ hash \subseteq [entry : Nat, by : Workers, attempt : Nat]
  /\ dead \subseteq [id : Nat, session : Sessions, attempt : Nat]
  /\ pc \in [Workers -> Steps] /\ hand \in [Workers -> Handle]
  /\ buried \in Nat

(* where the entries are that the workers hold                                *)
Places ==
  /\ \A e \in idle : e \in DOMAIN stream /\ owner[e] # Nobody
  /\ \A e \in DOMAIN stream : owner[e] # Nobody => e <= cursor
  /\ \A w \in Workers : pc[w] # "poll" =>
       /\ Work(w) \in 1..cursor
       /\ hand[w].session = stream[Work(w)].session
       /\ pc[w] \in {"xdel", "hdel", "append"} => owner[Work(w)] = Nobody

(* a dead letter is known by its id                                           *)
Letters ==
  /\ \A d \in dead : d.id <= buried
  /\ \A c, d \in dead : c.id = d.id => c = d
  /\ \A r \in replaying : r \in Nat /\ r <= buried

(* the dead letter of the entry is written, the entry is about to be removed  *)
Doomed(e) ==
  \E w \in Workers : Work(w) = e /\ pc[w] = "xack" /\ hand[w].verdict = "bury"

Waits(s) ==
  \E e \in present :
    /\ e \in DOMAIN stream /\ stream[e].session = s
    /\ e > cursor \/ owner[e] # Nobody
    /\ ~Doomed(e)

InHand(s) ==
  \E w \in Workers : /\ hand[w].session = s /\ hand[w].verdict = "retry"
                     /\ pc[w] \in {"xdel", "hdel", "append"}

Buried(s) == \E d \in dead : d.session = s /\ d.id \notin replaying

Covered ==
  \A s \in submitted : s \in settled \cup cut \/ Waits(s) \/ InHand(s) \/ Buried(s)

QueueInv == Types /\ Places /\ Letters /\ Covered

------------------------------------------------------------------------------
(* Types and places *)

LEMMA InitInv == Init => QueueInv
<1> SUFFICES ASSUME Init PROVE QueueInv
  OBVIOUS
<1> USE DEF Init
<1>1. Types
  BY DEF Types, Steps, Handle, NoHand, Verdict
<1>2. Places /\ Letters /\ Covered
  BY DEF Places, Letters, Covered
<1>3. QED
  BY <1>1, <1>2 DEF QueueInv

LEMMA Domains ==
  ASSUME Types
  PROVE  /\ DOMAIN stream = 1..Len(stream) /\ DOMAIN owner = 1..Len(stream)
         /\ Len(stream) \in Nat
         /\ \A e \in DOMAIN stream : stream[e] \in Entry
<1>1. stream \in Seq(Entry) /\ owner \in Seq(Workers \cup {Nobody}) /\ Len(owner) = Len(stream)
  BY DEF Types
<1>2. QED
  BY <1>1, ElementOfSeq

(* a step of one worker that leaves the stream alone                          *)
LEMMA HandTypes ==
  ASSUME Types, NEW w \in Workers, NEW to \in Steps,
         pc' = [pc EXCEPT ![w] = to],
         hand' = hand \/ \E h \in Handle : hand' = [hand EXCEPT ![w] = h]
  PROVE  pc' \in [Workers -> Steps] /\ hand' \in [Workers -> Handle]
BY DEF Types

LEMMA NoHandIsHandle == NoHand \in Handle
BY DEF NoHand, Handle, Verdict

(* XADD keeps the entries that are there                                      *)
LEMMA AddAppends ==
  ASSUME Types, NEW s \in Sessions, NEW a \in Nat, Add(s, a)
  PROVE  /\ stream' \in Seq(Entry)
         /\ owner' \in Seq(Workers \cup {Nobody})
         /\ Len(stream') = Len(stream) + 1 /\ Len(owner') = Len(stream')
         /\ DOMAIN stream = 1..Len(stream) /\ DOMAIN stream' = 1..(Len(stream) + 1)
         /\ \A e \in DOMAIN stream : stream'[e] = stream[e] /\ owner'[e] = owner[e]
         /\ stream'[Len(stream) + 1].session = s
         /\ owner'[Len(stream) + 1] = Nobody
         /\ present' = present \cup {Len(stream) + 1}
<1> DEFINE x == [session |-> s, attempt |-> a]
<1>1. x \in Entry /\ x.session = s
  BY DEF Entry
<1>2. /\ stream' = Append(stream, x) /\ owner' = Append(owner, Nobody)
      /\ present' = present \cup {Len(stream) + 1}
  BY DEF Add
<1>3. stream \in Seq(Entry) /\ owner \in Seq(Workers \cup {Nobody}) /\ Len(owner) = Len(stream)
  BY DEF Types
<1>4. /\ Append(stream, x) \in Seq(Entry) /\ Len(Append(stream, x)) = Len(stream) + 1
      /\ \A e \in 1..Len(stream) : Append(stream, x)[e] = stream[e]
      /\ Append(stream, x)[Len(stream) + 1] = x
  BY <1>1, <1>3, AppendProperties
<1>5. /\ Append(owner, Nobody) \in Seq(Workers \cup {Nobody})
      /\ Len(Append(owner, Nobody)) = Len(owner) + 1
      /\ \A e \in 1..Len(owner) : Append(owner, Nobody)[e] = owner[e]
      /\ Append(owner, Nobody)[Len(owner) + 1] = Nobody
  BY <1>3, AppendProperties
<1>6. DOMAIN stream = 1..Len(stream) /\ DOMAIN stream' = 1..(Len(stream) + 1)
  BY <1>2, <1>3, <1>4
<1>7. QED
  BY <1>1, <1>2, <1>3, <1>4, <1>5, <1>6

LEMMA ClaimTypes ==
  ASSUME Types, Places, NEW w \in Workers, Claim(w)
  PROVE  Types' /\ Places'
<1>1. PICK e \in idle :
        /\ owner' = [owner EXCEPT ![e] = w]
        /\ idle' = idle \ {e}
        /\ hand' = [hand EXCEPT ![w] =
             [entry |-> e, session |-> stream[e].session, attempt |-> 0, verdict |-> "ack"]]
  BY DEF Claim, Reclaimable
<1>2. pc' = [pc EXCEPT ![w] = "claimed"] /\ UNCHANGED <<stream, cursor, hash, dead, buried>>
  BY DEF Claim, Goto
<1>3. /\ e \in DOMAIN stream /\ owner[e] # Nobody /\ e <= cursor
      /\ DOMAIN stream = 1..Len(stream) /\ DOMAIN owner = 1..Len(stream)
      /\ stream[e] \in Entry
  BY Domains DEF Places
<1> DEFINE h == [entry |-> e, session |-> stream[e].session, attempt |-> 0, verdict |-> "ack"]
<1>4. h \in Handle /\ h.entry = e /\ h.session = stream[e].session
  BY <1>3, Domains DEF Handle, Verdict, Entry
<1>5. pc' \in [Workers -> Steps] /\ hand' \in [Workers -> Handle]
  BY <1>1, <1>2, <1>4, HandTypes DEF Steps
<1>6. /\ owner' \in Seq(Workers \cup {Nobody}) /\ Len(owner') = Len(owner)
      /\ owner'[e] = w /\ \A f \in DOMAIN stream : f # e => owner'[f] = owner[f]
  BY <1>1, <1>3 DEF Types
<1>7. Types'
  BY <1>2, <1>5, <1>6 DEF Types
<1>8. w # Nobody
  OBVIOUS
<1>9. /\ \A f \in idle' : f \in DOMAIN stream' /\ owner'[f] # Nobody
      /\ \A f \in DOMAIN stream' : owner'[f] # Nobody => f <= cursor'
  BY <1>1, <1>2, <1>3, <1>6 DEF Places
<1>10. ASSUME NEW v \in Workers, pc'[v] # "poll"
       PROVE  /\ hand'[v].entry \in 1..cursor'
              /\ hand'[v].session = stream'[hand'[v].entry].session
              /\ pc'[v] \in {"xdel", "hdel", "append"} => owner'[hand'[v].entry] = Nobody
  <2>1. CASE v = w
    <3>1. hand'[v] = h /\ pc'[v] = "claimed"
      BY <1>1, <1>2, <2>1 DEF Types
    <3>2. QED
      BY <3>1, <1>2, <1>3, <1>4
  <2>2. CASE v # w
    <3>1. hand'[v] = hand[v] /\ pc'[v] = pc[v]
      BY <1>1, <1>2, <2>2 DEF Types
    <3>2. hand[v].entry \in DOMAIN stream
      BY <3>1, <1>10, <1>3 DEF Places, Work, Types
    <3>3. QED
      BY <3>1, <3>2, <1>2, <1>3, <1>6, <1>10 DEF Places, Work
  <2>3. QED
    BY <2>1, <2>2
<1>11. QED
  BY <1>7, <1>9, <1>10 DEF Places, Work

LEMMA ReadNewTypes ==
  ASSUME Types, Places, NEW w \in Workers, ReadNew(w)
  PROVE  Types' /\ Places'
<1> DEFINE e == cursor + 1
           h == [entry |-> e, session |-> stream[e].session,
                 attempt |-> stream[e].attempt, verdict |-> "ack"]
<1>1. /\ cursor < Len(stream) /\ cursor' = e /\ owner' = [owner EXCEPT ![e] = w]
      /\ hand' = [hand EXCEPT ![w] = h] /\ pc' = [pc EXCEPT ![w] = "issue"]
      /\ UNCHANGED <<stream, idle, hash, dead, buried>>
  BY DEF ReadNew, Goto, history
<1>2. /\ DOMAIN stream = 1..Len(stream) /\ DOMAIN owner = 1..Len(stream)
      /\ e \in DOMAIN stream /\ stream[e] \in Entry
  BY <1>1, Domains DEF Types
<1>3. h \in Handle /\ h.entry = e /\ h.session = stream[e].session
  BY <1>2, Domains DEF Handle, Verdict, Entry
<1>4. pc' \in [Workers -> Steps] /\ hand' \in [Workers -> Handle]
  BY <1>1, <1>3, HandTypes DEF Steps
<1>5. /\ owner' \in Seq(Workers \cup {Nobody}) /\ Len(owner') = Len(owner)
      /\ owner'[e] = w /\ \A f \in DOMAIN stream : f # e => owner'[f] = owner[f]
  BY <1>1, <1>2 DEF Types
<1>6. Types'
  BY <1>1, <1>2, <1>4, <1>5 DEF Types
<1>7. /\ \A f \in idle' : f \in DOMAIN stream' /\ owner'[f] # Nobody
      /\ \A f \in DOMAIN stream' : owner'[f] # Nobody => f <= cursor'
  BY <1>1, <1>2, <1>5 DEF Places, Types
<1>8. ASSUME NEW v \in Workers, pc'[v] # "poll"
      PROVE  /\ hand'[v].entry \in 1..cursor'
             /\ hand'[v].session = stream'[hand'[v].entry].session
             /\ pc'[v] \in {"xdel", "hdel", "append"} => owner'[hand'[v].entry] = Nobody
  <2>1. CASE v = w
    <3>1. hand'[v] = h /\ pc'[v] = "issue"
      BY <1>1, <2>1 DEF Types
    <3>2. QED
      BY <3>1, <1>1, <1>2, <1>3
  <2>2. CASE v # w
    <3>1. hand'[v] = hand[v] /\ pc'[v] = pc[v]
      BY <1>1, <2>2 DEF Types
    <3>2. hand[v].entry \in DOMAIN stream /\ hand[v].entry # e /\ hand[v].entry \in 1..cursor
      BY <3>1, <1>8, <1>2 DEF Places, Work, Types
    <3>3. QED
      BY <3>1, <3>2, <1>1, <1>2, <1>5, <1>8 DEF Places, Work, Types
  <2>3. QED
    BY <2>1, <2>2
<1>9. QED
  BY <1>6, <1>7, <1>8 DEF Places, Work

(* a step of one worker that goes on with the entry it holds                  *)
LEMMA GoOnTypes ==
  ASSUME Types, Places, NEW w \in Workers, NEW to \in Steps, NEW h \in Handle,
         pc' = [pc EXCEPT ![w] = to], hand' = [hand EXCEPT ![w] = h],
         h.entry = Work(w), h.session = hand[w].session, pc[w] # "poll",
         pc[w] \in {"xdel", "hdel"} \/ to \notin {"xdel", "hdel", "append"},
         UNCHANGED <<stream, owner, idle, cursor>>,
         hash' \subseteq [entry : Nat, by : Workers, attempt : Nat],
         dead' \subseteq [id : Nat, session : Sessions, attempt : Nat],
         buried' \in Nat
  PROVE  Types' /\ Places'
<1>1. pc' \in [Workers -> Steps] /\ hand' \in [Workers -> Handle]
  BY HandTypes
<1>2. Types'
  BY <1>1 DEF Types
<1>3. ASSUME NEW v \in Workers, pc'[v] # "poll"
      PROVE  /\ hand'[v].entry \in 1..cursor'
             /\ hand'[v].session = stream'[hand'[v].entry].session
             /\ pc'[v] \in {"xdel", "hdel", "append"} => owner'[hand'[v].entry] = Nobody
  <2>1. CASE v = w
    <3>1. hand'[v] = h /\ pc'[v] = to
      BY <2>1 DEF Types
    <3>2. QED
      BY <3>1, <2>1 DEF Places, Work
  <2>2. CASE v # w
    <3>1. hand'[v] = hand[v] /\ pc'[v] = pc[v]
      BY <2>2 DEF Types
    <3>2. QED
      BY <3>1, <1>3 DEF Places, Work
  <2>3. QED
    BY <2>1, <2>2
<1>4. QED
  BY <1>2, <1>3 DEF Places, Work

(* a step of one worker that lets go of its entry                             *)
LEMMA ReleaseTypes ==
  ASSUME Types, Places, NEW w \in Workers, Release(w),
         UNCHANGED <<stream, owner, idle, cursor>>,
         hash' \subseteq [entry : Nat, by : Workers, attempt : Nat],
         dead' \subseteq [id : Nat, session : Sessions, attempt : Nat],
         buried' \in Nat
  PROVE  Types' /\ Places'
<1>1. pc' = [pc EXCEPT ![w] = "poll"] /\ hand' = [hand EXCEPT ![w] = NoHand]
  BY DEF Release, Goto
<1>2. pc' \in [Workers -> Steps] /\ hand' \in [Workers -> Handle]
  BY <1>1, NoHandIsHandle, HandTypes DEF Steps
<1>3. Types'
  BY <1>2 DEF Types
<1>4. ASSUME NEW v \in Workers, pc'[v] # "poll"
      PROVE  v # w /\ hand'[v] = hand[v] /\ pc'[v] = pc[v]
  BY <1>1, <1>4 DEF Types
<1>5. QED
  BY <1>3, <1>4 DEF Places, Work

(* an entry is added while the workers stay, or one of them lets go           *)
LEMMA AddTypes ==
  ASSUME Types, Places, NEW s \in Sessions, NEW a \in Nat, Add(s, a), buried' \in Nat,
         UNCHANGED <<pc, hand>> \/ \E w \in Workers : Release(w)
  PROVE  Types' /\ Places'
<1>1. /\ stream' \in Seq(Entry) /\ owner' \in Seq(Workers \cup {Nobody})
      /\ Len(stream') = Len(stream) + 1 /\ Len(owner') = Len(stream')
      /\ DOMAIN stream = 1..Len(stream) /\ DOMAIN stream' = 1..(Len(stream) + 1)
      /\ \A e \in DOMAIN stream : stream'[e] = stream[e] /\ owner'[e] = owner[e]
      /\ owner'[Len(stream) + 1] = Nobody
  BY AddAppends
<1>2. UNCHANGED <<cursor, idle, hash, dead>>
  BY DEF Add
<1>3. /\ pc' \in [Workers -> Steps] /\ hand' \in [Workers -> Handle]
      /\ \A v \in Workers : pc'[v] # "poll" => hand'[v] = hand[v] /\ pc'[v] = pc[v]
  <2>1. CASE UNCHANGED <<pc, hand>>
    BY <2>1 DEF Types
  <2>2. CASE \E w \in Workers : Release(w)
    BY <2>2, NoHandIsHandle DEF Types, Release, Goto, Steps
  <2>3. QED
    BY <2>1, <2>2
<1>4. Len(stream) \in Nat /\ cursor \in Nat /\ cursor <= Len(stream)
  BY Domains DEF Types
<1>5. Types'
  BY <1>1, <1>2, <1>3, <1>4 DEF Types
<1>6. /\ \A f \in idle' : f \in DOMAIN stream' /\ owner'[f] # Nobody
      /\ \A f \in DOMAIN stream' : owner'[f] # Nobody => f <= cursor'
  BY <1>1, <1>2, <1>4 DEF Places
<1>7. ASSUME NEW v \in Workers, pc'[v] # "poll"
      PROVE  /\ hand'[v].entry \in 1..cursor'
             /\ hand'[v].session = stream'[hand'[v].entry].session
             /\ pc'[v] \in {"xdel", "hdel", "append"} => owner'[hand'[v].entry] = Nobody
  <2>1. /\ hand'[v] = hand[v] /\ pc'[v] = pc[v] /\ hand[v].entry \in 1..cursor
        /\ hand[v].entry \in DOMAIN stream
    BY <1>1, <1>3, <1>4, <1>7 DEF Places, Work
  <2>2. QED
    BY <2>1, <1>1, <1>2, <1>7 DEF Places, Work
<1>8. QED
  BY <1>5, <1>6, <1>7 DEF Places, Work

LEMMA NextTypes ==
  ASSUME QueueInv, Next
  PROVE  Types' /\ Places'
<1> USE DEF QueueInv
<1> DEFINE Hash == [entry : Nat, by : Workers, attempt : Nat]
           Dead == [id : Nat, session : Sessions, attempt : Nat]
<1>0. /\ \A h \in hash : h \in Hash
      /\ \A d \in dead : d \in Dead
      /\ \A w \in Workers : hand[w] \in Handle
  BY DEF Types
<1>1. ASSUME NEW w \in Workers, pc[w] # "poll"
      PROVE  /\ hand[w].session \in Sessions /\ Work(w) \in Nat /\ hand[w].attempt \in Nat
             /\ hand[w].verdict \in Verdict
  <2>1. Work(w) \in DOMAIN stream /\ hand[w].session = stream[Work(w)].session
    BY <1>1, Domains DEF Places, Types
  <2>2. QED
    BY <2>1, <1>0, Domains DEF Entry, Handle, Work
<1>2. ASSUME NEW w \in Workers, Inspect(w) PROVE Types' /\ Places'
  <2>1. PICK a \in Previous(Work(w)) :
          /\ hand' = [hand EXCEPT ![w].attempt = a + 1]
          /\ pc' = [pc EXCEPT ![w] = IF ShouldDeadLetter(a + 1) THEN "bury" ELSE "issue"]
    BY <1>2 DEF Inspect, Goto
  <2>2. pc[w] = "claimed" /\ UNCHANGED <<stream, owner, idle, cursor, hash, dead, buried>>
    BY <1>2 DEF Inspect, redis, history
  <2>3. Work(w) \in DOMAIN stream
    BY <2>2, Domains DEF Places, Types
  <2>4. a \in Nat
    BY <2>1, <2>3, <1>0, Domains DEF Previous, Entry
  <2>5. [hand[w] EXCEPT !.attempt = a + 1] \in Handle
    BY <2>4, <1>0 DEF Handle
  <2>6. QED
    BY <2>1, <2>2, <2>5, GoOnTypes DEF Steps, Work, Handle, Types
<1>3. ASSUME NEW w \in Workers, BuryReclaimed(w) PROVE Types' /\ Places'
  <2>1. /\ pc[w] = "bury" /\ pc' = [pc EXCEPT ![w] = "xack"]
        /\ hand' = [hand EXCEPT ![w].verdict = "bury"]
        /\ dead' = dead \cup {[id |-> buried + 1, session |-> hand[w].session,
                               attempt |-> hand[w].attempt]}
        /\ buried' = buried + 1 /\ UNCHANGED <<stream, owner, idle, cursor, hash>>
    BY <1>3 DEF BuryReclaimed, Bury, Goto
  <2>2. [hand[w] EXCEPT !.verdict = "bury"] \in Handle
    BY <1>0 DEF Handle, Verdict
  <2>3. dead' \subseteq Dead /\ buried' \in Nat /\ hash' \subseteq Hash
    BY <2>1, <1>1 DEF Types
  <2>4. QED
    BY <2>1, <2>2, <2>3, <1>0, GoOnTypes DEF Steps, Work, Handle
<1>4. ASSUME NEW w \in Workers, Issue(w) PROVE Types' /\ Places'
  <2>1. /\ pc[w] = "issue" /\ pc' = [pc EXCEPT ![w] = "run"] /\ hand' = hand
        /\ hash' = {h \in hash : h.entry # Work(w)} \cup {Token(w)}
        /\ UNCHANGED <<stream, owner, idle, cursor, dead, buried>>
    BY <1>4 DEF Issue, Goto
  <2>2. Token(w) \in Hash
    BY <2>1, <1>1 DEF Token
  <2>3. hash' \subseteq Hash /\ dead' \subseteq Dead /\ buried' \in Nat
    BY <2>1, <2>2 DEF Types
  <2>4. hand' = [hand EXCEPT ![w] = hand[w]]
    BY <2>1 DEF Types
  <2>5. QED
    BY <2>1, <2>3, <2>4, <1>0, GoOnTypes DEF Steps, Work
<1>5. ASSUME NEW w \in Workers, Settle(w) PROVE Types' /\ Places'
  <2>1. pc[w] = "run" /\ UNCHANGED <<stream, owner, idle, cursor, hash, dead, buried>>
    BY <1>5 DEF Settle, redis
  <2>2. CASE Release(w)
    BY <2>1, <2>2, ReleaseTypes DEF Types
  <2>3. CASE /\ pc' = [pc EXCEPT ![w] = "xack"]
             /\ \E verdict \in {"ack", "retry", "drop"} : hand' = [hand EXCEPT ![w].verdict = verdict]
    <3>1. PICK verdict \in {"ack", "retry", "drop"} : hand' = [hand EXCEPT ![w].verdict = verdict]
      BY <2>3
    <3>2. [hand[w] EXCEPT !.verdict = verdict] \in Handle
      BY <1>0 DEF Handle, Verdict
    <3>3. QED
      BY <2>1, <2>3, <3>1, <3>2, <1>0, GoOnTypes DEF Steps, Work, Handle, Types
  <2>4. QED
    BY <1>5, <2>2, <2>3 DEF Settle, Goto
<1>6. ASSUME NEW w \in Workers, Xack(w) PROVE Types' /\ Places'
  <2>1. /\ pc[w] = "xack" /\ pc' = [pc EXCEPT ![w] = "xdel"] /\ hand' = hand
        /\ owner' = [owner EXCEPT ![Work(w)] = Nobody] /\ idle' = idle \ {Work(w)}
        /\ UNCHANGED <<stream, cursor, hash, dead, buried>>
    BY <1>6 DEF Xack, Goto
  <2>2. Work(w) \in DOMAIN stream
    BY <2>1, Domains DEF Places, Types
  <2>3. /\ owner' \in Seq(Workers \cup {Nobody}) /\ Len(owner') = Len(owner)
        /\ owner'[Work(w)] = Nobody
        /\ \A f \in DOMAIN stream : f # Work(w) => owner'[f] = owner[f]
    BY <2>1, <2>2, Domains DEF Types
  <2>4. pc' \in [Workers -> Steps] /\ \A v \in Workers : v # w => pc'[v] = pc[v]
    BY <2>1 DEF Types, Steps
  <2>5. Types'
    BY <2>1, <2>3, <2>4 DEF Types
  <2>6. /\ \A f \in idle' : f \in DOMAIN stream' /\ owner'[f] # Nobody
        /\ \A f \in DOMAIN stream' : owner'[f] # Nobody => f <= cursor'
    BY <2>1, <2>3 DEF Places
  <2>7. ASSUME NEW v \in Workers, pc'[v] # "poll"
        PROVE  /\ hand'[v].entry \in 1..cursor'
               /\ hand'[v].session = stream'[hand'[v].entry].session
               /\ pc'[v] \in {"xdel", "hdel", "append"} => owner'[hand'[v].entry] = Nobody
    <3>1. pc[v] # "poll" /\ hand[v].entry \in 1..cursor /\ hand[v].entry \in DOMAIN stream
      BY <2>1, <2>4, <2>7, Domains DEF Places, Work, Types
    <3>2. QED
      BY <3>1, <2>1, <2>3, <2>4 DEF Places, Work
  <2>8. QED
    BY <2>5, <2>6, <2>7 DEF Places, Work
<1>7. ASSUME NEW w \in Workers, Xdel(w) PROVE Types' /\ Places'
  <2>1. /\ pc[w] = "xdel" /\ pc' = [pc EXCEPT ![w] = "hdel"]
        /\ UNCHANGED <<stream, owner, idle, cursor, hash, dead, buried>>
    BY <1>7 DEF Xdel, Goto, history
  <2>2. hand' = [hand EXCEPT ![w] = hand[w]]
    BY <1>7 DEF Xdel, Types
  <2>3. QED
    BY <2>1, <2>2, <1>0, GoOnTypes DEF Steps, Work, Types
<1>8. ASSUME NEW w \in Workers, Hdel(w) PROVE Types' /\ Places'
  <2>1. /\ pc[w] = "hdel" /\ hash' \subseteq Hash
        /\ UNCHANGED <<stream, owner, idle, cursor, dead, buried>>
    BY <1>8 DEF Hdel, Types, history
  <2>2. CASE Release(w)
    BY <2>1, <2>2, ReleaseTypes DEF Types
  <2>3. CASE pc' = [pc EXCEPT ![w] = "append"] /\ hand' = hand
    <3>1. hand' = [hand EXCEPT ![w] = hand[w]]
      BY <2>3 DEF Types
    <3>2. QED
      BY <2>1, <2>3, <3>1, <1>0, GoOnTypes DEF Steps, Work, Types
  <2>4. QED
    BY <1>8, <2>2, <2>3 DEF Hdel, Goto
<1>9. ASSUME NEW w \in Workers, AppendRetry(w) PROVE Types' /\ Places'
  <2>1. pc[w] = "append" /\ Release(w) /\ RetryOrDeadLetter(w)
    BY <1>9 DEF AppendRetry
  <2>2. hand[w].session \in Sessions /\ hand[w].attempt + 1 \in Nat
    BY <2>1, <1>1
  <2>3. CASE Bury(hand[w].session, hand[w].attempt + 1)
    <3>1. /\ dead' \subseteq Dead /\ buried' \in Nat
          /\ UNCHANGED <<stream, owner, idle, cursor, hash>>
      BY <2>2, <2>3 DEF Bury, Types
    <3>2. QED
      BY <3>1, <2>1, ReleaseTypes DEF Types
  <2>4. CASE Add(hand[w].session, hand[w].attempt + 1) /\ UNCHANGED buried
    BY <2>1, <2>2, <2>4, AddTypes DEF Types
  <2>5. QED
    BY <2>1, <2>3, <2>4 DEF RetryOrDeadLetter
<1>10. ASSUME NEW w \in Workers, Cut(w) PROVE Types' /\ Places'
  <2>1. Release(w) /\ UNCHANGED <<stream, owner, idle, cursor, hash, dead, buried>>
    BY <1>10 DEF Cut, redis
  <2>2. QED
    BY <2>1, ReleaseTypes DEF Types
<1>11. ASSUME NEW s \in Sessions, Enqueue(s) PROVE Types' /\ Places'
  BY <1>11, AddTypes DEF Enqueue, Types
<1>12. ASSUME NEW d \in dead, NEW reset \in BOOLEAN, NEW remove \in BOOLEAN,
              Replay(d, reset, remove)
       PROVE  Types' /\ Places'
  <2>1. /\ Add(d.session, IF reset THEN 0 ELSE d.attempt)
        /\ UNCHANGED <<pc, hand, buried>>
    BY <1>12 DEF Replay
  <2>2. d.session \in Sessions /\ (IF reset THEN 0 ELSE d.attempt) \in Nat
    BY <1>0
  <2>3. QED
    BY <2>1, <2>2, AddTypes DEF Types
<1>13. ASSUME RemoveDeadLetter \/ CutReplay PROVE Types' /\ Places'
  <2>1. /\ dead' \subseteq dead /\ buried' = buried
        /\ UNCHANGED <<stream, owner, idle, cursor, hash, pc, hand>>
    BY <1>13 DEF RemoveDeadLetter, CutReplay, redis, history
  <2>2. dead' \subseteq Dead
    BY <2>1, <1>0
  <2>3. Types'
    BY <2>1, <2>2 DEF Types
  <2>4. Places'
    BY <2>1 DEF Places, Work
  <2>5. QED
    BY <2>3, <2>4
<1>14. ASSUME NEW e \in DOMAIN stream, Expire(e) PROVE Types' /\ Places'
  BY <1>14 DEF Expire, Pending, Types, Places, Work, history
<1>15. QED
  BY <1>2, <1>3, <1>4, <1>5, <1>6, <1>7, <1>8, <1>9, <1>10, <1>11, <1>12, <1>13, <1>14,
     ClaimTypes, ReadNewTypes DEF Next, Step

------------------------------------------------------------------------------
(* Dead letters *)

LEMMA BuryLetters ==
  ASSUME QueueInv, NEW s, NEW a, Bury(s, a), UNCHANGED replaying
  PROVE  Letters' /\ dead \subseteq dead' /\ \E d \in dead' : d.session = s /\ d.id \notin replaying'
<1> DEFINE x == [id |-> buried + 1, session |-> s, attempt |-> a]
<1>1. dead' = dead \cup {x} /\ buried' = buried + 1 /\ x.id = buried + 1 /\ x.session = s
  BY DEF Bury
<1>2. buried \in Nat /\ \A d \in dead : d.id \in Nat /\ d.id <= buried
  BY DEF QueueInv, Types, Letters
<1>3. \A r \in replaying : r \in Nat /\ r <= buried
  BY DEF QueueInv, Letters
<1>4. Letters'
  BY <1>1, <1>2, <1>3 DEF QueueInv, Letters
<1>5. x \in dead' /\ x.session = s /\ x.id \notin replaying'
  BY <1>1, <1>2, <1>3
<1>6. QED
  BY <1>1, <1>4, <1>5

LEMMA NextLetters ==
  ASSUME QueueInv, Next
  PROVE  Letters'
<1>1. ASSUME UNCHANGED <<dead, buried, replaying>> PROVE Letters'
  BY <1>1 DEF QueueInv, Letters
<1>2. ASSUME NEW w \in Workers, Step(w) \/ Cut(w) PROVE Letters'
  <2>1. CASE BuryReclaimed(w)
    BY <2>1, BuryLetters DEF BuryReclaimed
  <2>2. CASE AppendRetry(w)
    BY <2>2, <1>1, BuryLetters DEF AppendRetry, RetryOrDeadLetter, Add
  <2>3. CASE Claim(w) \/ ReadNew(w) \/ Inspect(w) \/ Issue(w) \/ Settle(w) \/ Xack(w)
             \/ Xdel(w) \/ Hdel(w) \/ Cut(w)
    <3>1. UNCHANGED <<dead, buried, replaying>>
      BY <2>3 DEF Claim, ReadNew, Inspect, Issue, Settle, Xack, Xdel, Hdel, Cut, redis, history
    <3>2. QED
      BY <3>1, <1>1
  <2>4. QED
    BY <1>2, <2>1, <2>2, <2>3 DEF Step
<1>3. ASSUME NEW d \in dead, NEW reset \in BOOLEAN, NEW remove \in BOOLEAN,
             Replay(d, reset, remove)
      PROVE  Letters'
  <2>1. UNCHANGED <<dead, buried>> /\ replaying' \subseteq {d.id}
    BY <1>3 DEF Replay, Add
  <2>2. d.id \in Nat /\ d.id <= buried
    BY DEF QueueInv, Types, Letters
  <2>3. QED
    BY <2>1, <2>2 DEF QueueInv, Letters
<1>4. ASSUME RemoveDeadLetter \/ CutReplay PROVE Letters'
  <2>1. dead' \subseteq dead /\ buried' = buried /\ replaying' = {}
    BY <1>4 DEF RemoveDeadLetter, CutReplay, redis, history
  <2>2. QED
    BY <2>1 DEF QueueInv, Letters
<1>5. ASSUME NEW s \in Sessions, Enqueue(s) PROVE Letters'
  BY <1>1, <1>5 DEF Enqueue, Add
<1>6. ASSUME NEW e \in DOMAIN stream, Expire(e) PROVE Letters'
  BY <1>1, <1>6 DEF Expire, history
<1>7. QED
  BY <1>2, <1>3, <1>4, <1>5, <1>6 DEF Next

------------------------------------------------------------------------------
(* Nothing is lost *)

Safe(s) == s \in settled \cup cut \/ Waits(s) \/ InHand(s) \/ Buried(s)

(* what covers a session is replaced by something that covers it              *)
LEMMA CoverStays ==
  ASSUME Covered, UNCHANGED submitted,
         settled \subseteq settled', cut \subseteq cut',
         \A s \in submitted : Waits(s) \/ InHand(s) \/ Buried(s) => Safe(s)'
  PROVE  Covered'
BY DEF Covered, Safe

(* a step that leaves entries and dead letters alone, dooms nothing, and      *)
(* lets go of no retry                                                        *)
LEMMA QuietStep ==
  ASSUME Covered, UNCHANGED <<submitted, stream, present, dead, replaying>>,
         settled \subseteq settled', cut \subseteq cut',
         \A e \in DOMAIN stream :
           e > cursor \/ owner[e] # Nobody => e > cursor' \/ owner'[e] # Nobody,
         \A e : Doomed(e)' => Doomed(e),
         \A s : InHand(s) => InHand(s)' \/ s \in cut'
  PROVE  Covered'
<1>1. ASSUME NEW s, Waits(s) PROVE Waits(s)'
  BY <1>1 DEF Waits
<1>2. ASSUME NEW s, Buried(s) PROVE Buried(s)'
  BY <1>2 DEF Buried
<1>3. QED
  BY <1>1, <1>2, CoverStays DEF Safe

(* an entry is added; dead letters may be on their way out                    *)
LEMMA AddCovers ==
  ASSUME QueueInv, NEW s \in Sessions, NEW a \in Nat, Add(s, a),
         submitted' \subseteq submitted \cup {s}, UNCHANGED <<settled, cut>>,
         \A e : Doomed(e)' => Doomed(e),
         \A t : InHand(t) => InHand(t)' \/ t = s,
         \A t : Buried(t) => Buried(t)' \/ t = s
  PROVE  Covered'
<1>1. /\ Len(stream) \in Nat /\ cursor \in Nat /\ cursor <= Len(stream)
      /\ DOMAIN stream = 1..Len(stream) /\ DOMAIN stream' = 1..(Len(stream) + 1)
      /\ \A e \in DOMAIN stream : stream'[e] = stream[e] /\ owner'[e] = owner[e]
      /\ stream'[Len(stream) + 1].session = s
      /\ present' = present \cup {Len(stream) + 1} /\ cursor' = cursor
  BY AddAppends, Domains DEF QueueInv, Types, Add
<1>0. PICK n \in Nat : n = Len(stream) + 1
  BY <1>1
<1>2. ~Doomed(n)
  <2>1. ASSUME NEW w \in Workers, Work(w) = n, pc[w] = "xack" PROVE FALSE
    BY <2>1, <1>0, <1>1 DEF QueueInv, Places
  <2>2. QED
    BY <2>1 DEF Doomed
<1>3. Waits(s)'
  <2>1. /\ n \in present' /\ n \in DOMAIN stream' /\ stream'[n].session = s
        /\ n > cursor' /\ ~Doomed(n)'
    BY <1>0, <1>1, <1>2
  <2>2. QED
    BY <2>1 DEF Waits
<1>4. ASSUME NEW t, Waits(t) PROVE Waits(t)'
  <2>1. PICK e \in present : /\ e \in DOMAIN stream /\ stream[e].session = t
                             /\ e > cursor \/ owner[e] # Nobody
                             /\ ~Doomed(e)
    BY <1>4 DEF Waits
  <2>2. /\ e \in present' /\ e \in DOMAIN stream' /\ stream'[e].session = t
        /\ e > cursor' \/ owner'[e] # Nobody
        /\ ~Doomed(e)'
    BY <2>1, <1>1
  <2>3. QED
    BY <2>2 DEF Waits
<1>5. ASSUME NEW t \in submitted' PROVE Safe(t)'
  BY <1>3, <1>4, <1>5 DEF QueueInv, Covered, Safe
<1>6. QED
  BY <1>5 DEF Covered, Safe

(* a step of one worker that does not reach "xack" dooms no entry             *)
LEMMA NoDoom ==
  ASSUME QueueInv, NEW w \in Workers, NEW to \in Steps,
         pc' = [pc EXCEPT ![w] = to], hand' = hand \/ \E h : hand' = [hand EXCEPT ![w] = h],
         to # "xack" \/ hand'[w].verdict # "bury"
  PROVE  \A e : Doomed(e)' => Doomed(e)
<1>1. ASSUME NEW e, NEW v \in Workers,
             hand'[v].entry = e, pc'[v] = "xack", hand'[v].verdict = "bury"
      PROVE  Doomed(e)
  <2>1. v # w /\ hand'[v] = hand[v] /\ pc'[v] = pc[v]
    BY <1>1 DEF QueueInv, Types
  <2>2. QED
    BY <2>1, <1>1 DEF Doomed, Work
<1>2. QED
  BY <1>1 DEF Doomed, Work

(* ... and the retries of the others stay in hand                             *)
RetryInHand(w, s) ==
  /\ hand[w].session = s /\ hand[w].verdict = "retry"
  /\ pc[w] \in {"xdel", "hdel", "append"}

LEMMA OtherHands ==
  ASSUME QueueInv, NEW w \in Workers, NEW to \in Steps,
         pc' = [pc EXCEPT ![w] = to], hand' = hand \/ \E h : hand' = [hand EXCEPT ![w] = h]
  PROVE  \A s : InHand(s) => InHand(s)' \/ RetryInHand(w, s)
<1>1. \A v \in Workers : v # w => hand'[v] = hand[v] /\ pc'[v] = pc[v]
  BY DEF QueueInv, Types
<1>2. ASSUME NEW s, NEW v \in Workers, v # w, RetryInHand(v, s)
      PROVE InHand(s)'
  BY <1>1, <1>2 DEF InHand, RetryInHand
<1>3. QED
  BY <1>2 DEF InHand, RetryInHand

LEMMA StepCovers ==
  ASSUME QueueInv, NEW w \in Workers, Step(w) \/ Cut(w)
  PROVE  Covered'
<1> USE DEF QueueInv
<1>1. CASE Claim(w)
  <2>1. /\ pc[w] = "poll" /\ pc' = [pc EXCEPT ![w] = "claimed"]
        /\ \E h : hand' = [hand EXCEPT ![w] = h]
        /\ \E e : owner' = [owner EXCEPT ![e] = w]
        /\ UNCHANGED <<submitted, stream, present, cursor, dead, replaying, settled, cut>>
    BY <1>1 DEF Claim, Goto
  <2>2. \A e \in DOMAIN stream : owner[e] # Nobody => owner'[e] # Nobody
    <3>1. w # Nobody /\ DOMAIN owner = DOMAIN stream
      BY Domains
    <3>2. QED
      BY <2>1, <3>1
  <2>3. (\A e : Doomed(e)' => Doomed(e)) /\ \A s : InHand(s) => InHand(s)'
    BY <2>1, NoDoom, OtherHands DEF Steps, RetryInHand
  <2>4. QED
    BY <2>1, <2>2, <2>3, QuietStep
<1>2. CASE ReadNew(w)
  <2>1. /\ pc[w] = "poll" /\ pc' = [pc EXCEPT ![w] = "issue"]
        /\ \E h : hand' = [hand EXCEPT ![w] = h]
        /\ cursor < Len(stream) /\ cursor' = cursor + 1
        /\ owner' = [owner EXCEPT ![cursor + 1] = w]
        /\ UNCHANGED <<submitted, stream, present, dead, replaying, settled, cut>>
    BY <1>2 DEF ReadNew, Goto, history
  <2>2. \A e \in DOMAIN stream :
          e > cursor \/ owner[e] # Nobody => e > cursor' \/ owner'[e] # Nobody
    <3>1. /\ w # Nobody /\ DOMAIN owner = DOMAIN stream /\ DOMAIN stream = 1..Len(stream)
          /\ cursor \in Nat /\ Len(stream) \in Nat
      BY Domains DEF Types
    <3>2. QED
      BY <2>1, <3>1
  <2>3. (\A e : Doomed(e)' => Doomed(e)) /\ \A s : InHand(s) => InHand(s)'
    BY <2>1, NoDoom, OtherHands DEF Steps, RetryInHand
  <2>4. QED
    BY <2>1, <2>2, <2>3, QuietStep
<1>3. CASE Inspect(w)
  <2>1. /\ pc[w] = "claimed"
        /\ pc' = [pc EXCEPT ![w] = "bury"] \/ pc' = [pc EXCEPT ![w] = "issue"]
        /\ \E h : hand' = [hand EXCEPT ![w] = h]
        /\ UNCHANGED <<submitted, stream, present, owner, cursor, dead, replaying, settled, cut>>
    BY <1>3 DEF Inspect, Goto, redis, history
  <2>2. (\A e : Doomed(e)' => Doomed(e)) /\ \A s : InHand(s) => InHand(s)'
    BY <2>1, NoDoom, OtherHands DEF Steps, RetryInHand
  <2>3. QED
    BY <2>1, <2>2, QuietStep
<1>4. CASE Issue(w)
  <2>1. /\ pc[w] = "issue" /\ pc' = [pc EXCEPT ![w] = "run"] /\ hand' = hand
        /\ UNCHANGED <<submitted, stream, present, owner, cursor, dead, replaying, settled, cut>>
    BY <1>4 DEF Issue, Goto
  <2>2. (\A e : Doomed(e)' => Doomed(e)) /\ \A s : InHand(s) => InHand(s)'
    BY <2>1, NoDoom, OtherHands DEF Steps, RetryInHand
  <2>3. QED
    BY <2>1, <2>2, QuietStep
<1>5. CASE Settle(w)
  <2>1. /\ pc[w] = "run"
        /\ UNCHANGED <<submitted, stream, present, owner, cursor, dead, replaying, settled, cut>>
    BY <1>5 DEF Settle, redis
  <2>2. \/ pc' = [pc EXCEPT ![w] = "poll"] /\ hand' = [hand EXCEPT ![w] = NoHand]
        \/ /\ pc' = [pc EXCEPT ![w] = "xack"]
           /\ \E verdict \in {"ack", "retry", "drop"} : hand' = [hand EXCEPT ![w].verdict = verdict]
    BY <1>5 DEF Settle, Release, Goto
  <2>3. /\ \E to \in Steps : pc' = [pc EXCEPT ![w] = to]
        /\ \E h : hand' = [hand EXCEPT ![w] = h]
        /\ pc'[w] = "xack" => hand'[w].verdict # "bury"
    BY <2>2 DEF Steps, Types, Handle
  <2>4. (\A e : Doomed(e)' => Doomed(e)) /\ \A s : InHand(s) => InHand(s)'
    <3>1. PICK to \in Steps : pc' = [pc EXCEPT ![w] = to]
      BY <2>3
    <3>2. to # "xack" \/ hand'[w].verdict # "bury"
      BY <2>3, <3>1 DEF Types
    <3>3. QED
      BY <2>1, <2>3, <3>1, <3>2, NoDoom, OtherHands DEF RetryInHand
  <2>5. QED
    BY <2>1, <2>4, QuietStep
<1>6. CASE Xdel(w)
  <2>1. /\ pc[w] = "xdel" /\ pc' = [pc EXCEPT ![w] = "hdel"] /\ hand' = hand
        /\ present' = present \ {Work(w)}
        /\ UNCHANGED <<submitted, stream, owner, cursor, dead, replaying, settled, cut>>
    BY <1>6 DEF Xdel, Goto, history
  <2>2. owner[Work(w)] = Nobody /\ Work(w) \in 1..cursor
    BY <2>1 DEF Places
  <2>3. \A e : Doomed(e)' => Doomed(e)
    BY <2>1, NoDoom DEF Steps
  <2>4. ASSUME NEW s, Waits(s) PROVE Waits(s)'
    <3>1. PICK e \in present : /\ e \in DOMAIN stream /\ stream[e].session = s
                               /\ e > cursor \/ owner[e] # Nobody
                               /\ ~Doomed(e)
      BY <2>4 DEF Waits
    <3>2. e # Work(w)
      BY <3>1, <2>2 DEF Types
    <3>3. QED
      BY <2>1, <2>3, <3>1, <3>2 DEF Waits
  <2>5. ASSUME NEW s, InHand(s) PROVE InHand(s)'
    BY <2>1, <2>5 DEF InHand, Types
  <2>6. ASSUME NEW s, Buried(s) PROVE Buried(s)'
    BY <2>1, <2>6 DEF Buried
  <2>7. QED
    BY <2>1, <2>4, <2>5, <2>6, CoverStays DEF Safe
<1>7. CASE Hdel(w)
  <2>1. /\ pc[w] = "hdel"
        /\ UNCHANGED <<submitted, stream, present, owner, cursor, dead, replaying, settled, cut>>
        /\ \/ /\ hand[w].verdict = "retry" /\ pc' = [pc EXCEPT ![w] = "append"] /\ hand' = hand
           \/ /\ hand[w].verdict # "retry" /\ pc' = [pc EXCEPT ![w] = "poll"]
              /\ hand' = [hand EXCEPT ![w] = NoHand]
    BY <1>7 DEF Hdel, Release, Goto, history
  <2>2. \A e : Doomed(e)' => Doomed(e)
    BY <2>1, NoDoom DEF Steps
  <2>3. ASSUME NEW s, InHand(s) PROVE InHand(s)'
    <3>1. CASE hand[w].verdict = "retry"
      BY <2>1, <2>3, <3>1 DEF InHand, Types
    <3>2. CASE hand[w].verdict # "retry"
      BY <2>1, <2>3, <3>2, OtherHands DEF Steps, RetryInHand
    <3>3. QED
      BY <3>1, <3>2
  <2>4. QED
    BY <2>1, <2>2, <2>3, QuietStep
<1>8. CASE Cut(w)
  <2>1. /\ pc' = [pc EXCEPT ![w] = "poll"] /\ hand' = [hand EXCEPT ![w] = NoHand]
        /\ cut' = IF hand[w].verdict = "retry" /\ pc[w] \in {"xdel", "hdel", "append"}
                  THEN cut \cup {hand[w].session} ELSE cut
        /\ UNCHANGED <<submitted, stream, present, owner, cursor, dead, replaying, settled>>
    BY <1>8 DEF Cut, Release, Goto, redis
  <2>2. \A e : Doomed(e)' => Doomed(e)
    BY <2>1, NoDoom DEF Steps
  <2>3. \A s : InHand(s) => InHand(s)' \/ s \in cut'
    BY <2>1, OtherHands DEF Steps, RetryInHand
  <2>4. cut \subseteq cut'
    BY <2>1
  <2>5. QED
    BY <2>1, <2>2, <2>3, <2>4, QuietStep
<1>9. CASE Xack(w)
  <2>1. /\ pc[w] = "xack" /\ pc' = [pc EXCEPT ![w] = "xdel"] /\ hand' = hand
        /\ owner' = [owner EXCEPT ![Work(w)] = Nobody]
        /\ settled' = IF hand[w].verdict \in {"ack", "drop"}
                      THEN settled \cup {hand[w].session} ELSE settled
        /\ UNCHANGED <<submitted, stream, present, cursor, dead, replaying, cut>>
    BY <1>9 DEF Xack, Goto
  <2>2. /\ hand[w].session = stream[Work(w)].session
        /\ hand[w].verdict \in {"ack", "drop", "retry", "bury"}
    BY <2>1 DEF Places, Types, Handle, Verdict
  <2>3. \A e : Doomed(e)' => Doomed(e)
    BY <2>1, NoDoom DEF Steps
  <2>4. ASSUME NEW s, InHand(s) PROVE InHand(s)'
    BY <2>1, <2>4, OtherHands DEF Steps, RetryInHand
  <2>5. ASSUME NEW s, Waits(s) PROVE Safe(s)'
    <3>1. PICK e \in present : /\ e \in DOMAIN stream /\ stream[e].session = s
                               /\ e > cursor \/ owner[e] # Nobody
                               /\ ~Doomed(e)
      BY <2>5 DEF Waits
    <3>2. CASE e # Work(w)
      <4>1. owner'[e] = owner[e]
        BY <2>1, <3>1, <3>2, Domains
      <4>2. QED
        BY <2>1, <2>3, <3>1, <4>1 DEF Waits, Safe
    <3>3. CASE e = Work(w)
      <4>1. hand[w].verdict # "bury" /\ hand[w].session = s
        BY <2>1, <2>2, <3>1, <3>3 DEF Doomed
      <4>2. CASE hand[w].verdict = "retry"
        <5>1. InHand(s)'
          BY <2>1, <4>1, <4>2 DEF InHand, Types
        <5>2. QED
          BY <5>1 DEF Safe
      <4>3. CASE hand[w].verdict \in {"ack", "drop"}
        BY <2>1, <4>1, <4>3 DEF Safe
      <4>4. QED
        BY <2>2, <4>1, <4>2, <4>3
    <3>4. QED
      BY <3>2, <3>3
  <2>6. ASSUME NEW s, Buried(s) PROVE Buried(s)'
    BY <2>1, <2>6 DEF Buried
  <2>7. settled \subseteq settled'
    BY <2>1
  <2>8. QED
    BY <2>1, <2>4, <2>5, <2>6, <2>7, CoverStays DEF Safe
<1>10. CASE BuryReclaimed(w)
  <2>1. /\ pc[w] = "bury" /\ pc' = [pc EXCEPT ![w] = "xack"]
        /\ hand' = [hand EXCEPT ![w].verdict = "bury"]
        /\ UNCHANGED <<submitted, stream, present, owner, cursor, replaying, settled, cut>>
    BY <1>10 DEF BuryReclaimed, Bury, Goto
  <2>2. dead \subseteq dead' /\ \E d \in dead' : d.session = hand[w].session /\ d.id \notin replaying'
    BY <1>10, BuryLetters DEF BuryReclaimed
  <2>3. ASSUME NEW s, s = hand[w].session PROVE Buried(s)'
    BY <2>2, <2>3 DEF Buried
  <2>4. hand[w].session = stream[Work(w)].session
    BY <2>1 DEF Places
  <2>5. \A s : InHand(s) => InHand(s)'
    BY <2>1, OtherHands DEF Steps, RetryInHand
  <2>6. ASSUME NEW s, Waits(s), s # hand[w].session PROVE Waits(s)'
    <3>1. PICK e \in present : /\ e \in DOMAIN stream /\ stream[e].session = s
                               /\ e > cursor \/ owner[e] # Nobody
                               /\ ~Doomed(e)
      BY <2>6 DEF Waits
    <3>2. e # Work(w)
      BY <2>4, <2>6, <3>1
    <3>3. ~Doomed(e)'
      <4>1. ASSUME NEW v \in Workers, hand'[v].entry = e, pc'[v] = "xack", hand'[v].verdict = "bury"
            PROVE  Doomed(e)
        <5>1. CASE v = w
          BY <2>1, <3>2, <4>1, <5>1 DEF Types, Handle, Work
        <5>2. CASE v # w
          BY <2>1, <4>1, <5>2 DEF Types, Doomed, Work
        <5>3. QED
          BY <5>1, <5>2
      <4>2. QED
        BY <3>1, <4>1 DEF Doomed, Work
    <3>4. QED
      BY <2>1, <3>1, <3>3 DEF Waits
  <2>7. ASSUME NEW s, Buried(s) PROVE Buried(s)'
    BY <2>1, <2>2, <2>7 DEF Buried
  <2>8. QED
    BY <2>1, <2>3, <2>5, <2>6, <2>7, CoverStays DEF Safe
<1>11. CASE AppendRetry(w)
  <2>1. /\ pc[w] = "append" /\ pc' = [pc EXCEPT ![w] = "poll"]
        /\ hand' = [hand EXCEPT ![w] = NoHand]
        /\ UNCHANGED <<submitted, settled, cut, replaying>>
        /\ RetryOrDeadLetter(w)
    BY <1>11 DEF AppendRetry, Release, Goto
  <2>2. \A e : Doomed(e)' => Doomed(e)
    BY <2>1, NoDoom DEF Steps
  <2>3. \A s : InHand(s) => InHand(s)' \/ s = hand[w].session
    BY <2>1, OtherHands DEF Steps, RetryInHand
  <2>4. hand[w].session \in Sessions /\ hand[w].attempt + 1 \in Nat
    <3>1. Work(w) \in DOMAIN stream /\ hand[w].session = stream[Work(w)].session
      BY <2>1, Domains DEF Places, Types
    <3>2. hand[w] \in Handle
      BY DEF Types
    <3>3. QED
      BY <3>1, <3>2, Domains DEF Entry, Handle
  <2>5. CASE Bury(hand[w].session, hand[w].attempt + 1)
    <3>1. dead \subseteq dead' /\ \E d \in dead' : d.session = hand[w].session /\ d.id \notin replaying'
      BY <2>1, <2>5, BuryLetters
    <3>2. UNCHANGED <<stream, present, owner, cursor>>
      BY <2>5 DEF Bury
    <3>3. ASSUME NEW s, s = hand[w].session PROVE Buried(s)'
      BY <3>1, <3>3 DEF Buried
    <3>4. ASSUME NEW s, Waits(s) PROVE Waits(s)'
      BY <2>2, <3>2, <3>4 DEF Waits
    <3>5. ASSUME NEW s, Buried(s) PROVE Buried(s)'
      BY <2>1, <3>1, <3>5 DEF Buried
    <3>6. QED
      BY <2>1, <2>3, <3>3, <3>4, <3>5, CoverStays DEF Safe
  <2>6. CASE Add(hand[w].session, hand[w].attempt + 1)
    <3>1. dead' = dead
      BY <2>6 DEF Add
    <3>2. \A s : Buried(s) => Buried(s)'
      BY <2>1, <3>1 DEF Buried
    <3>3. QED
      BY <2>1, <2>2, <2>3, <2>4, <2>6, <3>2, AddCovers
  <2>7. QED
    BY <2>1, <2>5, <2>6 DEF RetryOrDeadLetter
<1>12. QED
  BY <1>1, <1>2, <1>3, <1>4, <1>5, <1>6, <1>7, <1>8, <1>9, <1>10, <1>11 DEF Step

LEMMA NextCovers ==
  ASSUME QueueInv, Next
  PROVE  Covered'
<1> USE DEF QueueInv
<1>1. ASSUME NEW s \in Sessions, Enqueue(s) PROVE Covered'
  <2>1. /\ Add(s, 0) /\ submitted' = submitted \cup {s}
        /\ UNCHANGED <<settled, cut, pc, hand, dead, replaying>>
    BY <1>1 DEF Enqueue, Add
  <2>2. /\ \A e : Doomed(e)' => Doomed(e)
        /\ \A t : InHand(t) => InHand(t)'
        /\ \A t : Buried(t) => Buried(t)'
    BY <2>1 DEF Doomed, InHand, Buried, Work
  <2>3. QED
    BY <2>1, <2>2, AddCovers
<1>2. ASSUME NEW d \in dead, NEW reset \in BOOLEAN, NEW remove \in BOOLEAN,
             Replay(d, reset, remove)
      PROVE  Covered'
  <2>1. /\ Add(d.session, IF reset THEN 0 ELSE d.attempt)
        /\ replaying = {} /\ replaying' \subseteq {d.id}
        /\ UNCHANGED <<submitted, settled, cut, pc, hand, dead>>
    BY <1>2 DEF Replay, Add
  <2>2. d.session \in Sessions /\ (IF reset THEN 0 ELSE d.attempt) \in Nat
    BY DEF Types
  <2>3. /\ \A e : Doomed(e)' => Doomed(e)
        /\ \A t : InHand(t) => InHand(t)'
    BY <2>1 DEF Doomed, InHand, Work
  <2>4. ASSUME NEW t, Buried(t), t # d.session PROVE Buried(t)'
    <3>1. PICK c \in dead : c.session = t
      BY <2>4 DEF Buried
    <3>2. c.id # d.id
      BY <2>4, <3>1 DEF Letters
    <3>3. QED
      BY <2>1, <3>1, <3>2 DEF Buried
  <2>5. QED
    BY <2>1, <2>2, <2>3, <2>4, AddCovers
<1>3. ASSUME RemoveDeadLetter \/ CutReplay PROVE Covered'
  <2>1. /\ \A d \in dead : d.id \notin replaying => d \in dead'
        /\ replaying' = {}
        /\ UNCHANGED <<submitted, settled, cut, stream, present, owner, cursor, pc, hand>>
    BY <1>3 DEF RemoveDeadLetter, CutReplay, redis, history
  <2>2. ASSUME NEW s, Buried(s) PROVE Buried(s)'
    BY <2>1, <2>2 DEF Buried
  <2>3. ASSUME NEW s, Waits(s) \/ InHand(s) PROVE Waits(s)' \/ InHand(s)'
    BY <2>1, <2>3 DEF Waits, InHand, Doomed, Work
  <2>4. QED
    BY <2>1, <2>2, <2>3, CoverStays DEF Safe
<1>4. ASSUME NEW e \in DOMAIN stream, Expire(e) PROVE Covered'
  <2>1. UNCHANGED <<submitted, settled, cut, stream, present, owner, cursor, dead, replaying, pc, hand>>
    BY <1>4 DEF Expire, history
  <2>2. /\ \A f : Doomed(f)' => Doomed(f)
        /\ \A s : InHand(s) => InHand(s)'
    BY <2>1 DEF InHand, Doomed, Work
  <2>3. QED
    BY <2>1, <2>2, QuietStep
<1>5. QED
  BY <1>1, <1>2, <1>3, <1>4, StepCovers DEF Next

LEMMA StutterInv == QueueInv /\ UNCHANGED vars => QueueInv'
<1> SUFFICES ASSUME QueueInv, UNCHANGED vars PROVE QueueInv'
  OBVIOUS
<1> USE DEF vars, redis, history, QueueInv
<1>1. Types'
  BY DEF Types
<1>2. Places' /\ Letters'
  BY DEF Places, Letters, Work
<1>3. Covered'
  BY DEF Covered, Waits, InHand, Buried, Doomed, Work
<1>4. QED
  BY <1>1, <1>2, <1>3

(* The inductive invariant: types, the places of the entries that workers     *)
(* hold, the ids of the dead letters, and what covers every session.          *)
THEOREM QueueInvariant == Spec => []QueueInv
<1>1. QueueInv /\ [Next]_vars => QueueInv'
  BY NextTypes, NextLetters, NextCovers, StutterInv DEF QueueInv
<1>2. QED
  BY InitInv, <1>1, PTL DEF Spec

(* No message is lost, whatever the workers, their crashes, expired handles   *)
(* and replays do: the one exception is a nack cut in its middle.             *)
THEOREM NoMessageLost == Spec => []NothingLost
<1>1. QueueInv => NothingLost
  <2>1. ASSUME QueueInv, NEW s, Waits(s) PROVE Owed(s)
    <3>1. PICK e \in present : /\ e \in DOMAIN stream /\ stream[e].session = s
                               /\ e > cursor \/ owner[e] # Nobody
      BY <2>1 DEF Waits
    <3>2. QED
      BY <3>1 DEF Owed, Undelivered, Pending
  <2>2. ASSUME QueueInv, NEW s, InHand(s) PROVE Owed(s)
    BY <2>2 DEF InHand, Owed
  <2>3. ASSUME QueueInv, NEW s, Buried(s) PROVE \E d \in dead : d.session = s
    BY <2>3 DEF Buried
  <2>4. QED
    BY <2>1, <2>2, <2>3 DEF QueueInv, Covered, NothingLost
<1>2. QED
  BY QueueInvariant, <1>1, PTL
------------------------------------------------------------------------------
(* The delivery budget *)
(*                                                                            *)
(* As long as no worker acts on an entry that another one has reclaimed       *)
(* (Exclusive), the deliveries a session can still have are the credits of    *)
(* its entries: c credits for an entry allow c more deliveries of it and of   *)
(* its retries.  A delivery spends one, an enqueue or a replay adds at most   *)
(* the budget, and nothing else makes any, so deliveries and credits together *)
(* stay below what the enqueue and the replays allow (Bound).                 *)

Limit == MaxDeliveryAttempts

BudgetTypes ==
  /\ submitted \subseteq Sessions /\ raced \in BOOLEAN /\ faults \in Nat
  /\ deliveries \in [Sessions -> Nat] /\ replays \in [Sessions -> Nat]

(* an entry has at most one delivery state, and only once it is delivered     *)
Tokens ==
  /\ \A h \in hash : h.entry \in 1..cursor
  /\ \A g, h \in hash : g.entry = h.entry => g = h

OnlySubmitted ==
  /\ \A e \in DOMAIN stream : stream[e].session \in submitted
  /\ \A d \in dead : d.session \in submitted
  /\ \A s \in Sessions \ submitted : deliveries[s] = 0

Removing(w) == pc[w] \in {"xdel", "hdel", "append"}

(* what a worker works on is its own                                          *)
Exclusive ==
  /\ \A w \in Workers : pc[w] \in {"claimed", "bury", "issue", "xack"} => owner[Work(w)] = w
  /\ \A v, w \in Workers : Removing(v) /\ Removing(w) /\ Work(v) = Work(w) => v = w
  /\ \A w \in Workers : pc[w] = "xack" /\ hand[w].verdict # "bury" => Token(w) \in hash
  /\ \A w \in Workers : pc[w] = "append" => hand[w].verdict = "retry"

(* k is a credit of entry e.  A message at its budget that is replayed as it  *)
(* is is delivered once all the same, hence k = 0.                            *)
Unread(e, k) == e > cursor /\ (k = 0 \/ k + stream[e].attempt < Limit)

Issuing(e, k) ==
  \E w \in Workers : /\ pc[w] = "issue" /\ Work(w) = e
                     /\ k = 0 \/ k + hand[w].attempt < Limit

Held(e, k) ==
  e <= cursor /\ owner[e] # Nobody /\ \E a \in Previous(e) : k + a + 1 < Limit

Retrying(e, k) ==
  \E w \in Workers : /\ Removing(w) /\ hand[w].verdict = "retry" /\ Work(w) = e
                     /\ k + hand[w].attempt + 1 < Limit

Credit(e, k) == Unread(e, k) \/ Issuing(e, k) \/ Held(e, k) \/ Retrying(e, k)

Credits(s) ==
  {c \in (DOMAIN stream) \X (0..(Limit - 1)) :
     stream[c[1]].session = s /\ Credit(c[1], c[2])}

Bound ==
  \A s \in Sessions : deliveries[s] + Cardinality(Credits(s)) <= Limit * (1 + replays[s])

(* with no operation cut short, the attempt in a message has been delivered   *)
Earned ==
  /\ \A e \in DOMAIN stream : e > cursor => stream[e].attempt <= deliveries[stream[e].session]
  /\ \A e \in DOMAIN stream : owner[e] # Nobody =>
       \/ \A a \in Previous(e) : a + 1 <= deliveries[stream[e].session]
       \/ \E w \in Workers : pc[w] = "issue" /\ Work(w) = e
  /\ \A w \in Workers : pc[w] = "issue" => hand[w].attempt <= deliveries[hand[w].session]
  /\ \A w \in Workers : pc[w] = "bury" =>
       Limit <= hand[w].attempt /\ hand[w].attempt <= deliveries[hand[w].session]
  /\ \A w \in Workers : (pc[w] = "xack" \/ Removing(w)) /\ hand[w].verdict = "retry" =>
       hand[w].attempt + 1 <= deliveries[hand[w].session]
  /\ \A d \in dead : Limit <= d.attempt /\ d.attempt <= deliveries[d.session]

Known == BudgetTypes /\ Tokens /\ OnlySubmitted

BudgetInv == Known /\ (~raced => Exclusive /\ Bound /\ (faults = 0 => Earned))

LEMMA AtWork ==
  ASSUME Types, Places, NEW w \in Workers, pc[w] # "poll"
  PROVE  /\ Work(w) \in DOMAIN stream /\ Work(w) \in 1..cursor /\ Work(w) \in Nat
         /\ hand[w].session = stream[Work(w)].session /\ hand[w].session \in Sessions
         /\ hand[w].attempt \in Nat /\ hand[w].verdict \in Verdict
<1>1. /\ Work(w) \in 1..cursor /\ hand[w].session = stream[Work(w)].session
      /\ hand[w] \in Handle /\ cursor \in Nat /\ cursor <= Len(stream)
  BY DEF Places, Types
<1>2. Work(w) \in DOMAIN stream
  BY <1>1, Domains
<1>3. QED
  BY <1>1, <1>2, Domains DEF Entry, Handle

(* the state of an entry's delivery: the attempts are numbers, and a handle   *)
(* whose token is there tells the only one                                    *)
LEMMA PreviousAttempts ==
  ASSUME Types, Tokens, NEW e \in DOMAIN stream
  PROVE  /\ Previous(e) \subseteq Nat
         /\ \A h \in hash : h.entry = e => Previous(e) = {h.attempt}
         /\ e > cursor => Previous(e) = {stream[e].attempt}
<1>1. \A h \in hash : h \in [entry : Nat, by : Workers, attempt : Nat]
  BY DEF Types
<1>2. stream[e].attempt \in Nat
  BY Domains DEF Entry
<1>3. Previous(e) \subseteq Nat
  BY <1>1, <1>2 DEF Previous
<1>4. ASSUME NEW h \in hash, h.entry = e PROVE Previous(e) = {h.attempt}
  BY <1>4 DEF Previous, Tokens
<1>5. ASSUME e > cursor PROVE Previous(e) = {stream[e].attempt}
  <2>1. cursor \in Nat
    BY DEF Types
  <2>2. \A h \in hash : h.entry # e
    BY <1>5, <2>1 DEF Tokens
  <2>3. QED
    BY <2>2 DEF Previous
<1>6. QED
  BY <1>3, <1>4, <1>5

LEMMA AddTokens ==
  ASSUME Types, OnlySubmitted, Tokens, NEW s \in Sessions, NEW a \in Nat, Add(s, a),
         s \in submitted', submitted \subseteq submitted', UNCHANGED deliveries
  PROVE  Tokens' /\ OnlySubmitted'
<1>1. UNCHANGED <<cursor, hash, dead>>
  BY DEF Add
<1>2. Tokens'
  BY <1>1 DEF Tokens
<1>3. /\ DOMAIN stream' = 1..(Len(stream) + 1) /\ DOMAIN stream = 1..Len(stream)
      /\ Len(stream) \in Nat
      /\ \A e \in DOMAIN stream : stream'[e] = stream[e]
      /\ stream'[Len(stream) + 1].session = s
  BY AddAppends, Domains
<1>4. ASSUME NEW e \in DOMAIN stream' PROVE stream'[e].session \in submitted'
  <2>1. e \in DOMAIN stream \/ e = Len(stream) + 1
    BY <1>3
  <2>2. QED
    BY <2>1, <1>3 DEF OnlySubmitted
<1>5. QED
  BY <1>1, <1>2, <1>4 DEF OnlySubmitted

LEMMA NextKnown ==
  ASSUME QueueInv, Known, Next
  PROVE  Known'
<1> USE DEF QueueInv, Known
<1>1. ASSUME UNCHANGED <<stream, submitted, deliveries, replays>>, raced' \in BOOLEAN, faults' \in Nat,
             hash' \subseteq hash, cursor' \in Nat, cursor <= cursor', dead' \subseteq dead
      PROVE  Known'
  <2>1. cursor \in Nat
    BY DEF Types
  <2>2. BudgetTypes' /\ OnlySubmitted'
    BY <1>1 DEF BudgetTypes, OnlySubmitted
  <2>3. Tokens'
    BY <2>1, <1>1 DEF Tokens
  <2>4. QED
    BY <2>2, <2>3
<1>2. ASSUME NEW w \in Workers, Issue(w) PROVE Known'
  <2>1. /\ pc[w] = "issue" /\ hash' = {h \in hash : h.entry # Work(w)} \cup {Token(w)}
        /\ deliveries' = [deliveries EXCEPT ![hand[w].session] = @ + 1]
        /\ UNCHANGED <<stream, cursor, dead, submitted, replays, raced, faults>>
    BY <1>2 DEF Issue
  <2>2. /\ Work(w) \in 1..cursor /\ hand[w].session \in Sessions
        /\ hand[w].session \in submitted /\ Token(w).entry = Work(w)
    BY <2>1, AtWork DEF OnlySubmitted, Token
  <2>3. BudgetTypes'
    BY <2>1, <2>2 DEF BudgetTypes
  <2>4. Tokens'
    BY <2>1, <2>2 DEF Tokens
  <2>5. OnlySubmitted'
    BY <2>1, <2>2 DEF OnlySubmitted, BudgetTypes
  <2>6. QED
    BY <2>3, <2>4, <2>5
<1>3. ASSUME NEW s, s \in submitted, NEW a, Bury(s, a),
             UNCHANGED <<submitted, deliveries, replays, raced, faults>>
      PROVE  Known'
  <2>1. /\ dead' = dead \cup {[id |-> buried + 1, session |-> s, attempt |-> a]}
        /\ UNCHANGED <<stream, hash, cursor>>
    BY <1>3 DEF Bury
  <2>2. \A d \in dead' : d.session \in submitted
    BY <2>1, <1>3 DEF OnlySubmitted
  <2>3. QED
    BY <2>1, <2>2, <1>3 DEF BudgetTypes, Tokens, OnlySubmitted
<1>4. ASSUME NEW w \in Workers, AppendRetry(w) PROVE Known'
  <2>1. /\ pc[w] = "append" /\ RetryOrDeadLetter(w)
        /\ UNCHANGED <<submitted, deliveries, replays, raced, faults>>
    BY <1>4 DEF AppendRetry
  <2>2. /\ hand[w].session \in Sessions /\ hand[w].session \in submitted
        /\ hand[w].attempt + 1 \in Nat
    BY <2>1, AtWork DEF OnlySubmitted
  <2>3. CASE Bury(hand[w].session, hand[w].attempt + 1)
    BY <2>1, <2>2, <2>3, <1>3
  <2>4. CASE Add(hand[w].session, hand[w].attempt + 1)
    BY <2>1, <2>2, <2>4, AddTokens DEF BudgetTypes
  <2>5. QED
    BY <2>1, <2>3, <2>4 DEF RetryOrDeadLetter
<1>5. ASSUME NEW w \in Workers, BuryReclaimed(w) PROVE Known'
  <2>1. /\ pc[w] = "bury" /\ Bury(hand[w].session, hand[w].attempt)
        /\ UNCHANGED <<submitted, deliveries, replays, raced, faults>>
    BY <1>5 DEF BuryReclaimed
  <2>2. hand[w].session \in submitted
    BY <2>1, AtWork DEF OnlySubmitted
  <2>3. QED
    BY <2>1, <2>2, <1>3
<1>6. ASSUME NEW s \in Sessions, Enqueue(s) PROVE Known'
  <2>1. /\ Add(s, 0) /\ submitted' = submitted \cup {s}
        /\ UNCHANGED <<deliveries, replays, raced, faults>>
    BY <1>6 DEF Enqueue
  <2>2. QED
    BY <2>1, AddTokens DEF BudgetTypes
<1>7. ASSUME NEW d \in dead, NEW reset \in BOOLEAN, NEW remove \in BOOLEAN,
             Replay(d, reset, remove)
      PROVE  Known'
  <2>1. /\ Add(d.session, IF reset THEN 0 ELSE d.attempt)
        /\ replays' = [replays EXCEPT ![d.session] = @ + 1]
        /\ UNCHANGED <<submitted, deliveries, raced, faults>>
    BY <1>7 DEF Replay
  <2>2. /\ d.session \in Sessions /\ (IF reset THEN 0 ELSE d.attempt) \in Nat
        /\ d.session \in submitted
    BY DEF Types, OnlySubmitted
  <2>3. QED
    BY <2>1, <2>2, AddTokens DEF BudgetTypes
<1>8. cursor \in Nat /\ raced \in BOOLEAN /\ faults \in Nat
  BY DEF Types, BudgetTypes
<1>9. ASSUME NEW w \in Workers,
             Claim(w) \/ ReadNew(w) \/ Inspect(w) \/ Settle(w) \/ Xack(w) \/ Xdel(w) \/ Hdel(w) \/ Cut(w)
      PROVE  Known'
  <2>1. UNCHANGED <<stream, submitted, deliveries, replays, dead>> /\ hash' \subseteq hash
    BY <1>9 DEF Claim, ReadNew, Inspect, Settle, Xack, Xdel, Hdel, Cut, redis, history
  <2>2. raced' \in BOOLEAN /\ faults' \in Nat
    <3>1. raced' \in BOOLEAN
      BY <1>9, <1>8 DEF Claim, ReadNew, Inspect, Settle, Xack, Xdel, Hdel, Cut, history
    <3>2. faults' = faults \/ faults' = faults + 1
      BY <1>9 DEF Claim, ReadNew, Inspect, Settle, Xack, Xdel, Hdel, Cut, history
    <3>3. QED
      BY <3>1, <3>2, <1>8
  <2>3. cursor' \in Nat /\ cursor <= cursor'
    BY <1>9, <1>8 DEF Claim, ReadNew, Inspect, Settle, Xack, Xdel, Hdel, Cut, redis
  <2>4. QED
    BY <2>1, <2>2, <2>3, <1>1
<1>10. ASSUME RemoveDeadLetter \/ CutReplay PROVE Known'
  <2>1. UNCHANGED <<stream, submitted, deliveries, replays, raced, faults, hash, cursor>> /\ dead' \subseteq dead
    BY <1>10 DEF RemoveDeadLetter, CutReplay, redis, history
  <2>2. QED
    BY <2>1, <1>8, <1>1
<1>11. ASSUME NEW e \in DOMAIN stream, Expire(e) PROVE Known'
  <2>1. UNCHANGED <<stream, submitted, deliveries, replays, raced, faults, hash, cursor, dead>>
    BY <1>11 DEF Expire, history
  <2>2. QED
    BY <2>1, <1>8, <1>1
<1>12. QED
  BY <1>2, <1>4, <1>5, <1>6, <1>7, <1>9, <1>10, <1>11 DEF Next, Step

(* A claim of an entry on which a worker is at work is a race, and so is the  *)
(* settlement of a delivery whose entry was claimed: without them, a worker   *)
(* that is going to remove or to deliver an entry is its only owner.          *)
LEMMA NextExclusive ==
  ASSUME QueueInv, Known, Exclusive, Next, ~raced'
  PROVE  Exclusive'
<1> USE DEF QueueInv, Known
<1>0. /\ pc \in [Workers -> Steps] /\ hand \in [Workers -> Handle]
      /\ DOMAIN owner = DOMAIN stream /\ DOMAIN stream = 1..Len(stream) /\ Len(stream) \in Nat
      /\ cursor \in Nat /\ Nobody \notin Workers
  BY Domains DEF Types
<1> DEFINE Mine(x) == x \in {"claimed", "bury", "issue", "xack"}
(* a command that moves one worker and takes no entry from another *)
<1>1. ASSUME NEW w \in Workers, NEW to \in Steps, pc' = [pc EXCEPT ![w] = to],
             \A v \in Workers : v # w => hand'[v] = hand[v],
             \A v \in Workers : v # w /\ Mine(pc[v]) => owner'[Work(v)] = owner[Work(v)],
             \A v \in Workers : v # w /\ pc[v] = "xack" /\ Token(v) \in hash => Token(v) \in hash',
             Mine(to) => owner'[hand'[w].entry] = w,
             to \in {"xdel", "hdel", "append"} =>
               \A v \in Workers : v # w /\ Removing(v) => Work(v) # hand'[w].entry,
             to = "xack" /\ hand'[w].verdict # "bury" =>
               [entry |-> hand'[w].entry, by |-> w, attempt |-> hand'[w].attempt] \in hash',
             to = "append" => hand'[w].verdict = "retry"
      PROVE  Exclusive'
  <2>1. \A v \in Workers : v # w => pc'[v] = pc[v]
    BY <1>1, <1>0
  <2>2. pc'[w] = to
    BY <1>1, <1>0
  <2>3. ASSUME NEW v \in Workers, Mine(pc'[v]) PROVE owner'[hand'[v].entry] = v
    <3>1. CASE v = w
      BY <3>1, <2>2, <2>3, <1>1
    <3>2. CASE v # w
      BY <3>2, <2>1, <2>3, <1>1 DEF Exclusive, Work
    <3>3. QED
      BY <3>1, <3>2
  <2>4. ASSUME NEW u \in Workers, NEW v \in Workers,
               pc'[u] \in {"xdel", "hdel", "append"}, pc'[v] \in {"xdel", "hdel", "append"},
               hand'[u].entry = hand'[v].entry
        PROVE  u = v
    BY <2>1, <2>2, <2>4, <1>1 DEF Exclusive, Work, Removing
  <2>5. ASSUME NEW v \in Workers, pc'[v] = "xack", hand'[v].verdict # "bury"
        PROVE  [entry |-> hand'[v].entry, by |-> v, attempt |-> hand'[v].attempt] \in hash'
    <3>1. CASE v = w
      BY <3>1, <2>2, <2>5, <1>1
    <3>2. CASE v # w
      BY <3>2, <2>1, <2>5, <1>1 DEF Exclusive, Work, Token
    <3>3. QED
      BY <3>1, <3>2
  <2>6. ASSUME NEW v \in Workers, pc'[v] = "append" PROVE hand'[v].verdict = "retry"
    BY <2>1, <2>2, <2>6, <1>1 DEF Exclusive
  <2>7. QED
    BY <2>3, <2>4, <2>5, <2>6 DEF Exclusive, Work, Removing, Token
<1>2. ASSUME NEW w \in Workers, Claim(w) PROVE Exclusive'
  <2>1. PICK e \in idle :
          /\ owner' = [owner EXCEPT ![e] = w]
          /\ hand' = [hand EXCEPT ![w] =
               [entry |-> e, session |-> stream[e].session, attempt |-> 0, verdict |-> "ack"]]
          /\ raced' = (raced \/ \E v \in Workers : Busy(v, e))
    BY <1>2 DEF Claim, Reclaimable
  <2>2. pc[w] = "poll" /\ pc' = [pc EXCEPT ![w] = "claimed"] /\ hash' = hash
    BY <1>2 DEF Claim, Goto
  <2>3. e \in DOMAIN owner /\ hand'[w].entry = e
    BY <2>1, <1>0 DEF Places
  <2>4. \A v \in Workers : Mine(pc[v]) => Work(v) # e
    BY <2>1 DEF Busy
  <2>5. /\ \A v \in Workers : Mine(pc[v]) => owner'[Work(v)] = owner[Work(v)]
        /\ owner'[hand'[w].entry] = w
    BY <2>1, <2>3, <2>4
  <2>6. \A v \in Workers : v # w => hand'[v] = hand[v]
    BY <2>1, <1>0
  <2>7. QED
    BY <2>2, <2>5, <2>6, <1>1 DEF Steps
<1>3. ASSUME NEW w \in Workers, ReadNew(w) PROVE Exclusive'
  <2>1. /\ pc[w] = "poll" /\ pc' = [pc EXCEPT ![w] = "issue"] /\ hash' = hash
        /\ owner' = [owner EXCEPT ![cursor + 1] = w]
        /\ hand' = [hand EXCEPT ![w] =
             [entry |-> cursor + 1, session |-> stream[cursor + 1].session,
              attempt |-> stream[cursor + 1].attempt, verdict |-> "ack"]]
        /\ cursor < Len(stream)
    BY <1>3 DEF ReadNew, Goto
  <2>2. cursor + 1 \in DOMAIN owner /\ hand'[w].entry = cursor + 1
    BY <2>1, <1>0
  <2>3. \A v \in Workers : Mine(pc[v]) => Work(v) # cursor + 1
    BY <1>0 DEF Places
  <2>4. /\ \A v \in Workers : Mine(pc[v]) => owner'[Work(v)] = owner[Work(v)]
        /\ owner'[hand'[w].entry] = w
    BY <2>1, <2>2, <2>3
  <2>5. \A v \in Workers : v # w => hand'[v] = hand[v]
    BY <2>1, <1>0
  <2>6. QED
    BY <2>1, <2>4, <2>5, <1>1 DEF Steps
<1>4. ASSUME NEW w \in Workers, Inspect(w) PROVE Exclusive'
  <2>1. PICK a \in Previous(Work(w)) : hand' = [hand EXCEPT ![w].attempt = a + 1]
    BY <1>4 DEF Inspect
  <2>2. /\ pc[w] = "claimed" /\ owner' = owner /\ hash' = hash
        /\ pc' = [pc EXCEPT ![w] = "bury"] \/ pc' = [pc EXCEPT ![w] = "issue"]
    BY <1>4 DEF Inspect, Goto, redis
  <2>3. hand'[w].entry = Work(w) /\ \A v \in Workers : v # w => hand'[v] = hand[v]
    BY <2>1, <1>0 DEF Work, Handle
  <2>4. owner[Work(w)] = w
    BY <2>2 DEF Exclusive
  <2>5. QED
    BY <2>2, <2>3, <2>4, <1>1 DEF Steps
<1>5. ASSUME NEW w \in Workers, BuryReclaimed(w) PROVE Exclusive'
  <2>1. /\ pc[w] = "bury" /\ pc' = [pc EXCEPT ![w] = "xack"] /\ owner' = owner /\ hash' = hash
        /\ hand' = [hand EXCEPT ![w].verdict = "bury"]
    BY <1>5 DEF BuryReclaimed, Bury, Goto
  <2>2. /\ hand'[w].entry = Work(w) /\ hand'[w].verdict = "bury"
        /\ \A v \in Workers : v # w => hand'[v] = hand[v]
    BY <2>1, <1>0 DEF Work, Handle
  <2>3. owner[Work(w)] = w
    BY <2>1 DEF Exclusive
  <2>4. QED
    BY <2>1, <2>2, <2>3, <1>1 DEF Steps
<1>6. ASSUME NEW w \in Workers, Issue(w) PROVE Exclusive'
  <2>1. /\ pc[w] = "issue" /\ pc' = [pc EXCEPT ![w] = "run"] /\ owner' = owner /\ hand' = hand
        /\ hash' = {h \in hash : h.entry # Work(w)} \cup {Token(w)}
    BY <1>6 DEF Issue, Goto
  <2>2. ASSUME NEW v \in Workers, v # w, pc[v] = "xack", Token(v) \in hash
        PROVE  Token(v) \in hash'
    <3>1. owner[Work(v)] = v /\ owner[Work(w)] = w
      BY <2>1, <2>2 DEF Exclusive
    <3>2. Token(v).entry # Work(w)
      BY <3>1, <2>2 DEF Token
    <3>3. QED
      BY <3>2, <2>1, <2>2
  <2>3. QED
    BY <2>1, <2>2, <1>1 DEF Steps
<1>7. ASSUME NEW w \in Workers, Settle(w) PROVE Exclusive'
  <2>1. pc[w] = "run" /\ owner' = owner /\ hash' = hash
    BY <1>7 DEF Settle, redis
  <2>2. CASE Release(w)
    <3>1. pc' = [pc EXCEPT ![w] = "poll"] /\ \A v \in Workers : v # w => hand'[v] = hand[v]
      BY <2>2, <1>0 DEF Release, Goto
    <3>2. QED
      BY <3>1, <2>1, <1>1 DEF Steps
  <2>3. CASE DeliveryTokenMatches(w) /\ Goto(w, "xack")
             /\ raced' = (raced \/ (Token(w) \in hash /\ owner[Work(w)] # w))
             /\ \E verdict \in {"ack", "retry", "drop"} : hand' = [hand EXCEPT ![w].verdict = verdict]
    <3>1. Token(w) \in hash /\ owner[Work(w)] = w /\ pc' = [pc EXCEPT ![w] = "xack"]
      BY <2>3 DEF DeliveryTokenMatches, Goto
    <3>2. PICK verdict \in {"ack", "retry", "drop"} : hand' = [hand EXCEPT ![w].verdict = verdict]
      BY <2>3
    <3>3. /\ hand'[w].entry = Work(w) /\ hand'[w].attempt = hand[w].attempt
          /\ \A v \in Workers : v # w => hand'[v] = hand[v]
      BY <3>2, <1>0 DEF Work, Handle
    <3>4. QED
      BY <2>1, <3>1, <3>3, <1>1 DEF Steps, Token
  <2>4. QED
    BY <1>7, <2>2, <2>3 DEF Settle
<1>8. ASSUME NEW w \in Workers, Xack(w) PROVE Exclusive'
  <2>1. /\ pc[w] = "xack" /\ pc' = [pc EXCEPT ![w] = "xdel"] /\ hand' = hand /\ hash' = hash
        /\ owner' = [owner EXCEPT ![Work(w)] = Nobody]
    BY <1>8 DEF Xack, Goto
  <2>2. owner[Work(w)] = w
    BY <2>1 DEF Exclusive
  <2>3. ASSUME NEW v \in Workers, v # w, Mine(pc[v]) PROVE owner'[Work(v)] = owner[Work(v)]
    <3>1. owner[Work(v)] = v
      BY <2>3 DEF Exclusive
    <3>2. QED
      BY <3>1, <2>1, <2>2, <2>3
  <2>4. ASSUME NEW v \in Workers, Removing(v) PROVE Work(v) # Work(w)
    BY <2>2, <2>4, <1>0 DEF Places, Removing
  <2>5. hand'[w].entry = Work(w)
    BY <2>1 DEF Work
  <2>6. QED
    BY <2>1, <2>3, <2>4, <2>5, <1>1 DEF Steps
<1>9. ASSUME NEW w \in Workers, Xdel(w) PROVE Exclusive'
  <2>1. /\ pc[w] = "xdel" /\ pc' = [pc EXCEPT ![w] = "hdel"] /\ UNCHANGED <<hand, hash, owner>>
    BY <1>9 DEF Xdel, Goto
  <2>2. \A v \in Workers : v # w /\ Removing(v) => Work(v) # hand'[w].entry
    BY <2>1 DEF Exclusive, Removing, Work
  <2>3. QED
    BY <2>1, <2>2, <1>1 DEF Steps
<1>10. ASSUME NEW w \in Workers, Hdel(w) PROVE Exclusive'
  <2>1. /\ pc[w] = "hdel" /\ owner' = owner /\ hash' = {h \in hash : h.entry # Work(w)}
    BY <1>10 DEF Hdel
  <2>2. ASSUME NEW v \in Workers, pc[v] = "xack", Token(v) \in hash PROVE Token(v) \in hash'
    <3>1. owner[Work(v)] = v /\ owner[Work(w)] = Nobody
      BY <2>1, <2>2 DEF Exclusive, Places
    <3>2. Token(v).entry # Work(w)
      BY <3>1, <1>0 DEF Token
    <3>3. QED
      BY <3>2, <2>1, <2>2
  <2>3. CASE Release(w)
    <3>1. pc' = [pc EXCEPT ![w] = "poll"] /\ \A v \in Workers : v # w => hand'[v] = hand[v]
      BY <2>3, <1>0 DEF Release, Goto
    <3>2. QED
      BY <3>1, <2>1, <2>2, <1>1 DEF Steps
  <2>4. CASE pc' = [pc EXCEPT ![w] = "append"] /\ hand' = hand /\ hand[w].verdict = "retry"
    <3>1. \A v \in Workers : v # w /\ Removing(v) => Work(v) # hand'[w].entry
      BY <2>1, <2>4 DEF Exclusive, Removing, Work
    <3>2. QED
      BY <2>1, <2>2, <2>4, <3>1, <1>1 DEF Steps
  <2>5. QED
    BY <1>10, <2>3, <2>4 DEF Hdel, Goto
(* a new entry is nobody's *)
<1>11. ASSUME NEW s \in Sessions, NEW a \in Nat, Add(s, a),
              \A v \in Workers : pc'[v] = "poll" \/ (pc'[v] = pc[v] /\ hand'[v] = hand[v])
       PROVE  Exclusive'
  <2>1. hash' = hash /\ \A e \in DOMAIN stream : owner'[e] = owner[e]
    BY <1>11, AddAppends DEF Add
  <2>2. \A v \in Workers : pc[v] # "poll" => Work(v) \in DOMAIN stream
    BY AtWork
  <2>3. ASSUME NEW v \in Workers, Mine(pc'[v]) PROVE owner'[hand'[v].entry] = v
    <3>1. pc'[v] = pc[v] /\ hand'[v] = hand[v] /\ pc[v] # "poll"
      BY <1>11, <2>3
    <3>2. QED
      BY <3>1, <2>1, <2>2, <2>3 DEF Exclusive, Work
  <2>4. QED
    BY <1>11, <2>1, <2>3 DEF Exclusive, Work, Removing, Token
<1>12. ASSUME \A v \in Workers : pc'[v] = "poll" \/ (pc'[v] = pc[v] /\ hand'[v] = hand[v]),
              UNCHANGED <<owner, hash>>
       PROVE  Exclusive'
  BY <1>12 DEF Exclusive, Work, Removing, Token
<1>13. ASSUME NEW w \in Workers, Release(w)
       PROVE  \A v \in Workers : pc'[v] = "poll" \/ (pc'[v] = pc[v] /\ hand'[v] = hand[v])
  BY <1>13, <1>0 DEF Release, Goto
<1>14. ASSUME NEW w \in Workers, AppendRetry(w) PROVE Exclusive'
  <2>1. pc[w] = "append" /\ RetryOrDeadLetter(w) /\ Release(w)
    BY <1>14 DEF AppendRetry
  <2>2. hand[w].session \in Sessions /\ hand[w].attempt + 1 \in Nat
    BY <2>1, AtWork
  <2>3. QED
    BY <2>1, <2>2, <1>11, <1>12, <1>13 DEF RetryOrDeadLetter, Bury
<1>15. ASSUME NEW w \in Workers, Cut(w) PROVE Exclusive'
  BY <1>15, <1>12, <1>13 DEF Cut, redis
<1>16. ASSUME NEW s \in Sessions, Enqueue(s) PROVE Exclusive'
  BY <1>16, <1>11 DEF Enqueue
<1>17. ASSUME NEW d \in dead, NEW reset \in BOOLEAN, NEW remove \in BOOLEAN,
              Replay(d, reset, remove)
       PROVE  Exclusive'
  <2>1. Add(d.session, IF reset THEN 0 ELSE d.attempt) /\ UNCHANGED <<pc, hand>>
    BY <1>17 DEF Replay
  <2>2. d.session \in Sessions /\ (IF reset THEN 0 ELSE d.attempt) \in Nat
    BY DEF Types
  <2>3. QED
    BY <2>1, <2>2, <1>11
<1>18. ASSUME RemoveDeadLetter \/ CutReplay PROVE Exclusive'
  BY <1>18, <1>12 DEF RemoveDeadLetter, CutReplay, redis
<1>19. ASSUME NEW e \in DOMAIN stream, Expire(e) PROVE Exclusive'
  BY <1>19, <1>12 DEF Expire
<1>20. QED
  BY <1>2, <1>3, <1>4, <1>5, <1>6, <1>7, <1>8, <1>9, <1>10, <1>14, <1>15, <1>16, <1>17,
     <1>18, <1>19 DEF Next, Step

LEMMA LimitIsPositive == Limit \in Nat /\ Limit > 0 /\ Limit - 1 \in Nat
BY DEF Limit

LEMMA CreditsAreFinite ==
  ASSUME Types, NEW s
  PROVE  IsFiniteSet(Credits(s)) /\ Cardinality(Credits(s)) \in Nat
<1>1. IsFiniteSet(DOMAIN stream)
  BY Domains, FS_Interval
<1>2. IsFiniteSet(0..(Limit - 1))
  BY LimitIsPositive, FS_Interval
<1>3. IsFiniteSet((DOMAIN stream) \X (0..(Limit - 1)))
  BY <1>1, <1>2, FS_Product
<1>4. Credits(s) \in SUBSET ((DOMAIN stream) \X (0..(Limit - 1)))
  BY DEF Credits
<1>5. IsFiniteSet(Credits(s))
  BY <1>3, <1>4, FS_Subset
<1>6. QED
  BY <1>5, FS_CardinalityType

(* credits that move from one entry to another are no more than before        *)
LEMMA MovedCredits ==
  ASSUME NEW C, IsFiniteSet(C), NEW K, IsFiniteSet(K), NEW e, NEW n,
         {e} \X K \subseteq C, NEW D, D \subseteq (C \ ({e} \X K)) \cup ({n} \X K)
  PROVE  Cardinality(D) \in Nat /\ Cardinality(D) <= Cardinality(C)
<1>1. /\ IsFiniteSet({e} \X K) /\ IsFiniteSet({n} \X K)
      /\ Cardinality({e} \X K) = Cardinality({n} \X K)
  <2>1. \A x : IsFiniteSet({x}) /\ Cardinality({x}) = 1
    BY FS_Singleton
  <2>2. /\ IsFiniteSet({e} \X K) /\ Cardinality({e} \X K) = Cardinality({e}) * Cardinality(K)
    BY <2>1, FS_Product
  <2>3. /\ IsFiniteSet({n} \X K) /\ Cardinality({n} \X K) = Cardinality({n}) * Cardinality(K)
    BY <2>1, FS_Product
  <2>4. QED
    BY <2>1, <2>2, <2>3
<1> DEFINE A == {e} \X K
           B == {n} \X K
           R == C \ A
<1>2. IsFiniteSet(R) /\ Cardinality(R) = Cardinality(C) - Cardinality(C \cap A)
  BY FS_Difference
<1>3. C \cap A = A
  OBVIOUS
<1>4. /\ IsFiniteSet(R \cup B)
      /\ Cardinality(R \cup B) = Cardinality(R) + Cardinality(B) - Cardinality(R \cap B)
  BY <1>1, <1>2, FS_Union
<1>5. IsFiniteSet(R \cap B)
  BY <1>2, FS_Intersection
<1>6. /\ Cardinality(R \cap B) \in Nat /\ Cardinality(C) \in Nat /\ Cardinality(A) \in Nat
      /\ Cardinality(B) \in Nat /\ Cardinality(R) \in Nat
  BY <1>1, <1>2, <1>5, FS_CardinalityType
<1>7. D \in SUBSET (R \cup B)
  OBVIOUS
<1>8. IsFiniteSet(D) /\ Cardinality(D) <= Cardinality(R \cup B)
  BY <1>4, <1>7, FS_Subset
<1>9. Cardinality(D) \in Nat
  BY <1>8, FS_CardinalityType
<1>10. Cardinality(A) = Cardinality(B)
  BY <1>1
<1>11. Cardinality(R) = Cardinality(C) - Cardinality(A)
  BY <1>2, <1>3
<1>12. ASSUME NEW a \in Nat, NEW b \in Nat, NEW c \in Nat, NEW r \in Nat, NEW i \in Nat,
              NEW u, NEW d \in Nat, a = b, r = c - a, u = r + b - i, d <= u
       PROVE  d <= c
  BY <1>12
<1> HIDE DEF A, B, R
<1>13. Cardinality(D) <= Cardinality(C)
  BY <1>4, <1>6, <1>8, <1>9, <1>10, <1>11, <1>12
<1>14. QED
  BY <1>9, <1>13

(* no more credits for any session: the bound stays                           *)
LEMMA FewerCredits ==
  ASSUME Types, BudgetTypes, Bound, UNCHANGED <<deliveries, replays>>,
         \A s \in Sessions : Credits(s)' \subseteq Credits(s)
  PROVE  Bound'
<1>1. ASSUME NEW s \in Sessions
      PROVE  deliveries'[s] + Cardinality(Credits(s)') <= Limit * (1 + replays'[s])
  <2>1. IsFiniteSet(Credits(s)) /\ Cardinality(Credits(s)) \in Nat
    BY CreditsAreFinite
  <2>2. Credits(s)' \in SUBSET Credits(s)
    BY <1>1
  <2>3. IsFiniteSet(Credits(s)') /\ Cardinality(Credits(s)') <= Cardinality(Credits(s))
    BY <2>1, <2>2, FS_Subset
  <2>4. Cardinality(Credits(s)') \in Nat
    BY <2>3, FS_CardinalityType
  <2>5. deliveries[s] + Cardinality(Credits(s)) <= Limit * (1 + replays[s])
    BY DEF Bound
  <2>6. deliveries[s] \in Nat /\ Limit * (1 + replays[s]) \in Nat
    BY LimitIsPositive DEF BudgetTypes
  <2>7. QED
    BY <2>1, <2>3, <2>4, <2>5, <2>6
<1>2. QED
  BY <1>1 DEF Bound

(* A command of one worker makes no credit if what it holds afterwards is one *)
(* it had.                                                                    *)
LEMMA NoNewCredit ==
  ASSUME stream' = stream, Len(stream) \in Nat, DOMAIN stream = 1..Len(stream),
         cursor \in Nat, cursor' \in Nat, cursor <= cursor',
         NEW w \in Workers,
         \A v \in Workers : v # w => pc'[v] = pc[v] /\ hand'[v] = hand[v],
         \A k \in 0..(Limit - 1) :
           /\ pc'[w] = "issue" /\ (k = 0 \/ k + hand'[w].attempt < Limit)
                => Credit(hand'[w].entry, k)
           /\ pc'[w] \in {"xdel", "hdel", "append"} /\ hand'[w].verdict = "retry"
              /\ k + hand'[w].attempt + 1 < Limit
                => Credit(hand'[w].entry, k),
         \A e \in DOMAIN stream, k \in 0..(Limit - 1) : Held(e, k)' => Credit(e, k)
  PROVE  /\ \A e \in DOMAIN stream, k \in 0..(Limit - 1) : Credit(e, k)' => Credit(e, k)
         /\ \A s \in Sessions : Credits(s)' \subseteq Credits(s)
<1>1. ASSUME NEW e \in DOMAIN stream, NEW k \in 0..(Limit - 1), Credit(e, k)'
      PROVE  Credit(e, k)
  <2>1. CASE Unread(e, k)'
    <3>1. e > cursor' /\ (k = 0 \/ k + stream[e].attempt < Limit)
      BY <2>1 DEF Unread
    <3>2. e \in Nat
      OBVIOUS
    <3>3. QED
      BY <3>1, <3>2 DEF Unread, Credit
  <2>2. CASE Issuing(e, k)'
    <3>1. PICK v \in Workers : /\ pc'[v] = "issue" /\ hand'[v].entry = e
                               /\ k = 0 \/ k + hand'[v].attempt < Limit
      BY <2>2 DEF Issuing, Work
    <3>2. CASE v = w
      BY <3>1, <3>2
    <3>3. CASE v # w
      BY <3>1, <3>3 DEF Issuing, Work, Credit
    <3>4. QED
      BY <3>2, <3>3
  <2>3. CASE Retrying(e, k)'
    <3>1. PICK v \in Workers : /\ pc'[v] \in {"xdel", "hdel", "append"}
                               /\ hand'[v].verdict = "retry" /\ hand'[v].entry = e
                               /\ k + hand'[v].attempt + 1 < Limit
      BY <2>3 DEF Retrying, Work, Removing
    <3>2. CASE v = w
      BY <3>1, <3>2
    <3>3. CASE v # w
      BY <3>1, <3>3 DEF Retrying, Work, Removing, Credit
    <3>4. QED
      BY <3>2, <3>3
  <2>4. QED
    BY <1>1, <2>1, <2>2, <2>3 DEF Credit
<1>2. QED
  BY <1>1 DEF Credits

LEMMA PreviousStays ==
  ASSUME NEW e, stream'[e] = stream[e],
         \A h : h \in hash' /\ h.entry = e <=> h \in hash /\ h.entry = e
  PROVE  Previous(e)' = Previous(e)
<1>1. (\E h \in hash' : h.entry = e) <=> \E h \in hash : h.entry = e
  OBVIOUS
<1>2. {g \in hash' : g.entry = e} = {g \in hash : g.entry = e}
  OBVIOUS
<1>3. QED
  BY <1>1, <1>2 DEF Previous

LEMMA HeldStays ==
  ASSUME NEW e, NEW k, cursor' = cursor, stream' = stream,
         owner'[e] # Nobody => owner[e] # Nobody,
         \A h : h \in hash' /\ h.entry = e <=> h \in hash /\ h.entry = e,
         Held(e, k)'
  PROVE  Credit(e, k)
<1>1. Previous(e)' = Previous(e)
  BY PreviousStays
<1>2. e <= cursor' /\ owner'[e] # Nobody /\ \E a \in Previous(e)' : k + a + 1 < Limit
  BY DEF Held
<1>3. QED
  BY <1>1, <1>2 DEF Held, Credit

(* Every command of a worker but the delivery and the append of a retry       *)
(* makes no credit.                                                           *)
LEMMA QuietCredits ==
  ASSUME QueueInv, Known, Exclusive, NEW w \in Workers, ~raced',
         \/ Claim(w) \/ ReadNew(w) \/ Inspect(w) \/ BuryReclaimed(w) \/ Issue(w) \/ Settle(w)
         \/ Xack(w) \/ Xdel(w) \/ Hdel(w) \/ Cut(w)
  PROVE  /\ \A e \in DOMAIN stream, k \in 0..(Limit - 1) : Credit(e, k)' => Credit(e, k)
         /\ \A s \in Sessions : Credits(s)' \subseteq Credits(s)
<1> USE DEF QueueInv, Known
<1>0. /\ pc \in [Workers -> Steps] /\ hand \in [Workers -> Handle]
      /\ DOMAIN owner = DOMAIN stream /\ DOMAIN stream = 1..Len(stream) /\ Len(stream) \in Nat
      /\ cursor \in Nat /\ Nobody \notin Workers
  BY Domains DEF Types
<1>1. CASE Claim(w)
  <2>1. PICK e \in idle :
          /\ owner' = [owner EXCEPT ![e] = w]
          /\ hand' = [hand EXCEPT ![w] =
               [entry |-> e, session |-> stream[e].session, attempt |-> 0, verdict |-> "ack"]]
    BY <1>1 DEF Claim, Reclaimable
  <2>2. /\ pc' = [pc EXCEPT ![w] = "claimed"] /\ hash' = hash /\ cursor' = cursor
        /\ stream' = stream
    BY <1>1 DEF Claim, Goto
  <2>3. \A f \in DOMAIN stream : owner'[f] # Nobody => owner[f] # Nobody
    BY <2>1, <1>0 DEF Places
  <2>4. \A f \in DOMAIN stream, k \in 0..(Limit - 1) : Held(f, k)' => Credit(f, k)
    BY <2>2, <2>3, HeldStays
  <2>5. /\ pc'[w] = "claimed"
        /\ \A v \in Workers : v # w => pc'[v] = pc[v] /\ hand'[v] = hand[v]
    BY <2>1, <2>2, <1>0
  <2>6. QED
    BY <2>2, <2>4, <2>5, <1>0, NoNewCredit
<1>2. CASE ReadNew(w)
  <2>1. /\ pc' = [pc EXCEPT ![w] = "issue"] /\ hash' = hash /\ stream' = stream
        /\ cursor' = cursor + 1 /\ owner' = [owner EXCEPT ![cursor + 1] = w]
        /\ hand' = [hand EXCEPT ![w] =
             [entry |-> cursor + 1, session |-> stream[cursor + 1].session,
              attempt |-> stream[cursor + 1].attempt, verdict |-> "ack"]]
        /\ cursor < Len(stream)
    BY <1>2 DEF ReadNew, Goto
  <2>2. cursor + 1 \in DOMAIN stream /\ stream[cursor + 1].attempt \in Nat
    BY <2>1, <1>0, Domains DEF Entry
  <2>3. Previous(cursor + 1) = {stream[cursor + 1].attempt}
    BY <2>2, <1>0, PreviousAttempts
  <2>4. ASSUME NEW f \in DOMAIN stream, NEW k \in 0..(Limit - 1), Held(f, k)'
        PROVE  Credit(f, k)
    <3>1. Previous(f)' = Previous(f)
      BY <2>1, PreviousStays
    <3>2. f <= cursor + 1 /\ owner'[f] # Nobody /\ \E a \in Previous(f) : k + a + 1 < Limit
      BY <2>1, <2>4, <3>1 DEF Held
    <3>3. CASE f = cursor + 1
      <4>1. k + stream[f].attempt + 1 < Limit /\ k \in Nat /\ stream[f].attempt \in Nat
        BY <3>2, <3>3, <2>2, <2>3
      <4>2. f > cursor /\ k + stream[f].attempt < Limit
        BY <4>1, <3>3, <1>0, LimitIsPositive
      <4>3. QED
        BY <4>2 DEF Unread, Credit
    <3>4. CASE f # cursor + 1
      <4>1. f <= cursor /\ owner[f] # Nobody
        BY <3>2, <3>4, <2>1, <1>0
      <4>2. QED
        BY <4>1, <3>2 DEF Held, Credit
    <3>5. QED
      BY <3>3, <3>4
  <2>5. /\ pc'[w] = "issue" /\ hand'[w].entry = cursor + 1
        /\ hand'[w].attempt = stream[cursor + 1].attempt
        /\ \A v \in Workers : v # w => pc'[v] = pc[v] /\ hand'[v] = hand[v]
    BY <2>1, <1>0
  <2>6. ASSUME NEW k \in 0..(Limit - 1), k = 0 \/ k + stream[cursor + 1].attempt < Limit
        PROVE  Credit(cursor + 1, k)
    BY <2>6, <1>0 DEF Unread, Credit
  <2>7. QED
    BY <2>1, <2>4, <2>5, <2>6, <1>0, NoNewCredit
<1>3. CASE Inspect(w)
  <2>1. PICK a \in Previous(Work(w)) :
          /\ hand' = [hand EXCEPT ![w].attempt = a + 1]
          /\ pc' = [pc EXCEPT ![w] = IF ShouldDeadLetter(a + 1) THEN "bury" ELSE "issue"]
    BY <1>3 DEF Inspect, Goto
  <2>2. pc[w] = "claimed" /\ UNCHANGED <<stream, cursor, owner, hash>>
    BY <1>3 DEF Inspect, redis
  <2>3. /\ Work(w) \in DOMAIN stream /\ Work(w) <= cursor /\ owner[Work(w)] # Nobody
        /\ a \in Nat
    <3>1. Work(w) \in DOMAIN stream /\ Work(w) \in 1..cursor
      BY <2>2, AtWork
    <3>2. owner[Work(w)] = w
      BY <2>2 DEF Exclusive
    <3>3. QED
      BY <3>1, <3>2, <2>1, <1>0, PreviousAttempts
  <2>4. \A f \in DOMAIN stream, k \in 0..(Limit - 1) : Held(f, k)' => Credit(f, k)
    BY <2>2, HeldStays
  <2>5. /\ pc'[w] = (IF ShouldDeadLetter(a + 1) THEN "bury" ELSE "issue")
        /\ hand'[w].entry = Work(w) /\ hand'[w].attempt = a + 1
        /\ \A v \in Workers : v # w => pc'[v] = pc[v] /\ hand'[v] = hand[v]
    BY <2>1, <1>0 DEF Work, Handle
  <2>6. ASSUME NEW k \in 0..(Limit - 1), pc'[w] = "issue",
               k = 0 \/ k + (a + 1) < Limit
        PROVE  Credit(Work(w), k)
    <3>1. a + 1 < Limit
      BY <2>3, <2>5, <2>6, LimitIsPositive DEF ShouldDeadLetter, Limit
    <3>2. k + a + 1 < Limit
      BY <3>1, <2>3, <2>6
    <3>3. QED
      BY <3>2, <2>1, <2>3 DEF Held, Credit
  <2>7. QED
    BY <2>2, <2>4, <2>5, <2>6, <1>0, NoNewCredit
<1>4. CASE BuryReclaimed(w) \/ Settle(w)
  <2>1. UNCHANGED <<stream, cursor, owner, hash>>
    BY <1>4 DEF BuryReclaimed, Bury, Settle, redis
  <2>2. /\ pc'[w] \notin {"issue", "xdel", "hdel", "append"}
        /\ \A v \in Workers : v # w => pc'[v] = pc[v] /\ hand'[v] = hand[v]
    BY <1>4, <1>0 DEF BuryReclaimed, Settle, Goto, Release
  <2>3. \A f \in DOMAIN stream, k \in 0..(Limit - 1) : Held(f, k)' => Credit(f, k)
    BY <2>1, HeldStays
  <2>4. QED
    BY <2>1, <2>2, <2>3, <1>0, NoNewCredit
<1>5. CASE Issue(w)
  <2>1. /\ pc[w] = "issue" /\ pc' = [pc EXCEPT ![w] = "run"]
        /\ UNCHANGED <<stream, cursor, owner, hand>>
        /\ hash' = {h \in hash : h.entry # Work(w)} \cup {Token(w)}
    BY <1>5 DEF Issue, Goto
  <2>2. Token(w).entry = Work(w) /\ Token(w).attempt = hand[w].attempt
    BY DEF Token
  <2>3. ASSUME NEW f, f = Work(w) PROVE Previous(f)' = {hand[w].attempt}
    <3>1. {h \in hash' : h.entry = f} = {Token(w)}
      BY <2>1, <2>2, <2>3
    <3>2. Previous(f)' = {h.attempt : h \in {Token(w)}}
      BY <3>1 DEF Previous
    <3>3. QED
      BY <3>2, <2>2
  <2>4. ASSUME NEW f \in DOMAIN stream, NEW k \in 0..(Limit - 1), Held(f, k)'
        PROVE  Credit(f, k)
    <3>1. CASE f = Work(w)
      <4>1. k + hand[w].attempt + 1 < Limit
        BY <2>3, <2>4, <3>1 DEF Held
      <4>2. hand[w].attempt \in Nat
        BY <2>1, AtWork
      <4>3. k + hand[w].attempt < Limit
        BY <4>1, <4>2, LimitIsPositive
      <4>4. QED
        BY <4>3, <3>1, <2>1 DEF Issuing, Credit
    <3>2. CASE f # Work(w)
      <4>1. \A h : h \in hash' /\ h.entry = f <=> h \in hash /\ h.entry = f
        BY <3>2, <2>1, <2>2
      <4>2. QED
        BY <4>1, <2>1, <2>4, HeldStays
    <3>3. QED
      BY <3>1, <3>2
  <2>5. /\ pc'[w] = "run"
        /\ \A v \in Workers : v # w => pc'[v] = pc[v] /\ hand'[v] = hand[v]
    BY <2>1, <1>0
  <2>6. QED
    BY <2>1, <2>4, <2>5, <1>0, NoNewCredit
<1>6. CASE Xack(w)
  <2>1. /\ pc[w] = "xack" /\ pc' = [pc EXCEPT ![w] = "xdel"]
        /\ UNCHANGED <<stream, cursor, hash, hand>>
        /\ owner' = [owner EXCEPT ![Work(w)] = Nobody]
    BY <1>6 DEF Xack, Goto
  <2>2. /\ Work(w) \in DOMAIN stream /\ Work(w) \in 1..cursor /\ owner[Work(w)] = w
    BY <2>1, AtWork DEF Exclusive
  <2>3. ASSUME NEW k \in 0..(Limit - 1), hand[w].verdict = "retry",
               k + hand[w].attempt + 1 < Limit
        PROVE  Credit(Work(w), k)
    <3>1. Token(w) \in hash /\ Token(w).entry = Work(w) /\ Token(w).attempt = hand[w].attempt
      BY <2>1, <2>3 DEF Exclusive, Token
    <3>2. Previous(Work(w)) = {hand[w].attempt}
      BY <3>1, <2>2, PreviousAttempts
    <3>3. QED
      BY <3>2, <2>2, <2>3, <1>0 DEF Held, Credit
  <2>4. \A f \in DOMAIN stream : owner'[f] # Nobody => owner[f] # Nobody
    BY <2>1, <1>0
  <2>5. \A f \in DOMAIN stream, k \in 0..(Limit - 1) : Held(f, k)' => Credit(f, k)
    BY <2>1, <2>4, HeldStays
  <2>6. /\ pc'[w] = "xdel" /\ hand'[w] = hand[w] /\ hand[w].entry = Work(w)
        /\ \A v \in Workers : v # w => pc'[v] = pc[v] /\ hand'[v] = hand[v]
    BY <2>1, <1>0 DEF Work
  <2>7. QED
    BY <2>1, <2>3, <2>5, <2>6, <1>0, NoNewCredit
<1>7. CASE Xdel(w) \/ Hdel(w)
  <2>1. /\ pc[w] \in {"xdel", "hdel"} /\ UNCHANGED <<stream, cursor, owner>>
        /\ hash' \subseteq hash /\ \A h \in hash : h.entry # Work(w) => h \in hash'
    BY <1>7 DEF Xdel, Hdel
  <2>2. owner[Work(w)] = Nobody
    BY <2>1 DEF Places
  <2>3. ASSUME NEW f \in DOMAIN stream, NEW k \in 0..(Limit - 1), Held(f, k)'
        PROVE  Credit(f, k)
    <3>1. f # Work(w)
      BY <2>1, <2>2, <2>3 DEF Held
    <3>2. \A h : h \in hash' /\ h.entry = f <=> h \in hash /\ h.entry = f
      BY <3>1, <2>1
    <3>3. QED
      BY <3>2, <2>1, <2>3, HeldStays
  <2>4. /\ pc'[w] # "issue"
        /\ pc'[w] \in {"xdel", "hdel", "append"} => hand'[w] = hand[w]
        /\ \A v \in Workers : v # w => pc'[v] = pc[v] /\ hand'[v] = hand[v]
    BY <1>7, <1>0 DEF Xdel, Hdel, Goto, Release
  <2>5. ASSUME NEW k \in 0..(Limit - 1), hand[w].verdict = "retry",
               k + hand[w].attempt + 1 < Limit
        PROVE  Credit(hand[w].entry, k)
    BY <2>1, <2>5 DEF Retrying, Removing, Work, Credit
  <2>6. QED
    BY <2>1, <2>3, <2>4, <2>5, <1>0, NoNewCredit
<1>8. CASE Cut(w)
  <2>1. UNCHANGED <<stream, cursor, owner, hash>>
    BY <1>8 DEF Cut, redis
  <2>2. /\ pc'[w] = "poll"
        /\ \A v \in Workers : v # w => pc'[v] = pc[v] /\ hand'[v] = hand[v]
    BY <1>8, <1>0 DEF Cut, Goto, Release
  <2>3. \A f \in DOMAIN stream, k \in 0..(Limit - 1) : Held(f, k)' => Credit(f, k)
    BY <2>1, HeldStays
  <2>4. QED
    BY <2>1, <2>2, <2>3, <1>0, NoNewCredit
<1>9. QED
  BY <1>1, <1>2, <1>3, <1>4, <1>5, <1>6, <1>7, <1>8

(* a delivery spends a credit of its entry: the last, or the only one         *)
LEMMA IssueBound ==
  ASSUME QueueInv, Known, Exclusive, Bound, NEW w \in Workers, ~raced', Issue(w)
  PROVE  Bound'
<1> USE DEF QueueInv, Known
<1>1. /\ pc[w] = "issue" /\ pc' = [pc EXCEPT ![w] = "run"]
      /\ UNCHANGED <<stream, cursor, owner, hand, replays>>
      /\ hash' = {h \in hash : h.entry # Work(w)} \cup {Token(w)}
      /\ deliveries' = [deliveries EXCEPT ![hand[w].session] = @ + 1]
  BY DEF Issue, Goto
<1>2. /\ Work(w) \in DOMAIN stream /\ Work(w) \in 1..cursor /\ owner[Work(w)] = w
      /\ hand[w].session = stream[Work(w)].session /\ hand[w].session \in Sessions
      /\ hand[w].attempt \in Nat
  BY <1>1, AtWork DEF Exclusive
<1>3. PICK e : e = Work(w)
  OBVIOUS
<1>4. PICK k \in 0..(Limit - 1) :
        k + hand[w].attempt + 1 = Limit \/ (k = 0 /\ hand[w].attempt >= Limit)
  <2>1. CASE hand[w].attempt >= Limit
    BY <2>1, LimitIsPositive
  <2>2. CASE ~(hand[w].attempt >= Limit)
    <3>1. Limit - 1 - hand[w].attempt \in 0..(Limit - 1)
      BY <2>2, <1>2, LimitIsPositive
    <3>2. (Limit - 1 - hand[w].attempt) + hand[w].attempt + 1 = Limit
      BY <1>2, LimitIsPositive
    <3>3. QED
      BY <3>1, <3>2
  <2>3. QED
    BY <2>1, <2>2
<1>5. Credit(e, k)
  BY <1>1, <1>2, <1>3, <1>4, LimitIsPositive DEF Issuing, Credit
<1>6. ~Credit(e, k)'
  <2>0. pc \in [Workers -> Steps] /\ Nobody \notin Workers /\ cursor \in Nat
    BY DEF Types
  <2>1. ~Unread(e, k)'
    BY <1>1, <1>2, <1>3, <2>0 DEF Unread
  <2>2. ASSUME NEW v \in Workers, pc'[v] = "issue", hand'[v].entry = e PROVE FALSE
    <3>1. v # w /\ pc[v] = "issue" /\ Work(v) = e
      BY <2>2, <1>1, <2>0 DEF Work
    <3>2. owner[e] = v
      BY <3>1 DEF Exclusive
    <3>3. QED
      BY <3>1, <3>2, <1>2, <1>3
  <2>3. ASSUME NEW v \in Workers, pc'[v] \in {"xdel", "hdel", "append"}, hand'[v].entry = e
        PROVE  FALSE
    <3>1. v # w /\ pc[v] \in {"xdel", "hdel", "append"} /\ Work(v) = e
      BY <2>3, <1>1, <2>0 DEF Work
    <3>2. owner[e] = Nobody
      BY <3>1 DEF Places
    <3>3. QED
      BY <3>2, <1>2, <1>3, <2>0
  <2>4. ~Held(e, k)'
    <3>1. {h \in hash' : h.entry = e} = {Token(w)}
      BY <1>1, <1>3 DEF Token
    <3>2. Token(w).attempt = hand[w].attempt
      BY DEF Token
    <3>3. Previous(e)' = {hand[w].attempt}
      BY <3>1, <3>2 DEF Previous
    <3>4. ~(k + hand[w].attempt + 1 < Limit)
      BY <1>2, <1>4, LimitIsPositive
    <3>5. QED
      BY <3>3, <3>4 DEF Held
  <2>5. ~Issuing(e, k)' /\ ~Retrying(e, k)'
    BY <2>2, <2>3 DEF Issuing, Retrying, Removing, Work
  <2>6. QED
    BY <2>1, <2>4, <2>5 DEF Credit
<1>7. \A s \in Sessions : Credits(s)' \subseteq Credits(s)
  BY QuietCredits
<1>8. ASSUME NEW s \in Sessions
      PROVE  deliveries'[s] + Cardinality(Credits(s)') <= Limit * (1 + replays'[s])
  <2>1. IsFiniteSet(Credits(s)) /\ Cardinality(Credits(s)) \in Nat
    BY CreditsAreFinite
  <2>2. deliveries[s] + Cardinality(Credits(s)) <= Limit * (1 + replays[s])
    BY DEF Bound
  <2>3. deliveries[s] \in Nat /\ Limit * (1 + replays[s]) \in Nat /\ replays' = replays
    BY <1>1, LimitIsPositive DEF BudgetTypes
  <2>4. CASE s # hand[w].session
    <3>1. Credits(s)' \in SUBSET Credits(s)
      BY <1>7
    <3>2. IsFiniteSet(Credits(s)') /\ Cardinality(Credits(s)') <= Cardinality(Credits(s))
      BY <2>1, <3>1, FS_Subset
    <3>3. Cardinality(Credits(s)') \in Nat
      BY <3>2, FS_CardinalityType
    <3>4. deliveries'[s] = deliveries[s]
      BY <1>1, <2>4 DEF BudgetTypes
    <3>5. QED
      BY <2>1, <2>2, <2>3, <3>2, <3>3, <3>4
  <2>5. CASE s = hand[w].session
    <3>1. <<e, k>> \in Credits(s)
      BY <2>5, <1>2, <1>3, <1>5 DEF Credits
    <3>2. <<e, k>> \notin Credits(s)'
      BY <1>6 DEF Credits
    <3>3. Credits(s)' \in SUBSET (Credits(s) \ {<<e, k>>})
      BY <1>7, <3>2
    <3>4. /\ IsFiniteSet(Credits(s) \ {<<e, k>>})
          /\ Cardinality(Credits(s) \ {<<e, k>>}) = Cardinality(Credits(s)) - 1
      BY <2>1, <3>1, FS_RemoveElement
    <3>5. /\ IsFiniteSet(Credits(s)')
          /\ Cardinality(Credits(s)') <= Cardinality(Credits(s) \ {<<e, k>>})
      BY <3>3, <3>4, FS_Subset
    <3>6. Cardinality(Credits(s)') \in Nat
      BY <3>5, FS_CardinalityType
    <3>7. deliveries'[s] = deliveries[s] + 1
      BY <1>1, <2>5 DEF BudgetTypes
    <3>8. QED
      BY <2>1, <2>2, <2>3, <3>4, <3>5, <3>6, <3>7
  <2>6. QED
    BY <2>4, <2>5
<1>9. QED
  BY <1>8 DEF Bound

(* XADD gives its session credits for the new entry, and no other             *)
LEMMA AddCredits ==
  ASSUME QueueInv, NEW s \in Sessions, NEW a \in Nat, Add(s, a),
         \A v \in Workers : pc'[v] = "poll" \/ (pc'[v] = pc[v] /\ hand'[v] = hand[v])
  PROVE  /\ \A e \in DOMAIN stream, k \in 0..(Limit - 1) : Credit(e, k)' => Credit(e, k)
         /\ \A t \in Sessions : t # s => Credits(t)' \subseteq Credits(t)
         /\ \A c \in Credits(s)' : \/ c \in Credits(s)
                                   \/ /\ c \in {Len(stream) + 1} \X (0..(Limit - 1))
                                      /\ c[2] = 0 \/ c[2] + a < Limit
<1> USE DEF QueueInv
<1>1. /\ Len(stream) \in Nat /\ cursor \in Nat /\ cursor <= Len(stream)
      /\ DOMAIN stream = 1..Len(stream) /\ DOMAIN stream' = 1..(Len(stream) + 1)
      /\ \A e \in DOMAIN stream : stream'[e] = stream[e] /\ owner'[e] = owner[e]
      /\ stream'[Len(stream) + 1].session = s
      /\ owner'[Len(stream) + 1] = Nobody
      /\ cursor' = cursor /\ hash' = hash
  BY Domains, AddAppends DEF Types, Add
<1>2. stream'[Len(stream) + 1].attempt = a
  <2>1. stream' = Append(stream, [session |-> s, attempt |-> a])
    BY DEF Add
  <2>2. stream \in Seq(Entry) /\ [session |-> s, attempt |-> a] \in Entry
    BY DEF Types, Entry
  <2>3. stream'[Len(stream) + 1] = [session |-> s, attempt |-> a]
    BY <2>1, <2>2, AppendProperties
  <2>4. QED
    BY <2>3
<1>3. \A v \in Workers : pc[v] # "poll" => Work(v) \in DOMAIN stream
  BY AtWork
<1>4. ASSUME NEW e, NEW k, Issuing(e, k)' PROVE e \in DOMAIN stream /\ Issuing(e, k)
  <2>1. PICK v \in Workers : /\ pc'[v] = "issue" /\ hand'[v].entry = e
                             /\ k = 0 \/ k + hand'[v].attempt < Limit
    BY <1>4 DEF Issuing, Work
  <2>2. pc[v] = "issue" /\ hand'[v] = hand[v]
    BY <2>1
  <2>3. QED
    BY <2>1, <2>2, <1>3 DEF Issuing, Work
<1>5. ASSUME NEW e, NEW k, Retrying(e, k)' PROVE e \in DOMAIN stream /\ Retrying(e, k)
  <2>1. PICK v \in Workers : /\ pc'[v] \in {"xdel", "hdel", "append"}
                             /\ hand'[v].verdict = "retry" /\ hand'[v].entry = e
                             /\ k + hand'[v].attempt + 1 < Limit
    BY <1>5 DEF Retrying, Removing, Work
  <2>2. pc[v] = pc'[v] /\ pc[v] # "poll" /\ hand'[v] = hand[v]
    BY <2>1
  <2>3. QED
    BY <2>1, <2>2, <1>3 DEF Retrying, Removing, Work
<1>6. ASSUME NEW e \in DOMAIN stream, NEW k, Credit(e, k)' PROVE Credit(e, k)
  <2>1. CASE Unread(e, k)'
    BY <2>1, <1>1 DEF Unread, Credit
  <2>2. CASE Held(e, k)'
    <3>1. Previous(e)' = Previous(e)
      BY <1>1, PreviousStays
    <3>2. QED
      BY <2>2, <3>1, <1>1 DEF Held, Credit
  <2>3. QED
    BY <1>6, <2>1, <2>2, <1>4, <1>5 DEF Credit
<1>7. ASSUME NEW n, n = Len(stream) + 1, NEW k, Credit(n, k)' PROVE k = 0 \/ k + a < Limit
  <2>1. n \notin DOMAIN stream /\ owner'[n] = Nobody /\ stream'[n].attempt = a
    BY <1>1, <1>2, <1>7
  <2>2. ~Issuing(n, k)' /\ ~Retrying(n, k)'
    BY <2>1, <1>4, <1>5
  <2>3. ~Held(n, k)'
    BY <2>1 DEF Held
  <2>4. Unread(n, k)'
    BY <1>7, <2>2, <2>3 DEF Credit
  <2>5. QED
    BY <2>1, <2>4 DEF Unread
<1>8. ASSUME NEW t \in Sessions, NEW c \in Credits(t)'
      PROVE  \/ c \in Credits(t)
             \/ /\ t = s /\ c \in {Len(stream) + 1} \X (0..(Limit - 1))
                /\ c[2] = 0 \/ c[2] + a < Limit
  <2>1. PICK e \in DOMAIN stream', k \in 0..(Limit - 1) :
          c = <<e, k>> /\ stream'[e].session = t /\ Credit(e, k)'
    BY DEF Credits
  <2>2. CASE e \in DOMAIN stream
    BY <2>1, <2>2, <1>1, <1>6 DEF Credits
  <2>3. CASE e = Len(stream) + 1
    <3>1. k = 0 \/ k + a < Limit
      BY <2>1, <2>3, <1>7
    <3>2. stream'[e].session = s
      BY <2>3, <1>1
    <3>3. QED
      BY <2>1, <2>3, <3>1, <3>2
  <2>4. QED
    BY <2>1, <2>2, <2>3, <1>1
<1>9. QED
  BY <1>6, <1>8

(* an enqueue or a replay: what its entry can bring was allowed for           *)
LEMMA AddBound ==
  ASSUME QueueInv, Known, Bound, NEW s \in Sessions, NEW a \in Nat, Add(s, a),
         UNCHANGED <<pc, hand, deliveries>>, NEW r \in Nat, replays' = [replays EXCEPT ![s] = r],
         deliveries[s] + Cardinality(Credits(s)) + Limit <= Limit * (1 + r)
  PROVE  Bound'
<1> USE DEF QueueInv, Known
<1>1. /\ \A t \in Sessions : t # s => Credits(t)' \subseteq Credits(t)
      /\ \A c \in Credits(s)' : c \in Credits(s) \/ c \in {Len(stream) + 1} \X (0..(Limit - 1))
  BY AddCredits
<1>2. ASSUME NEW t \in Sessions
      PROVE  deliveries'[t] + Cardinality(Credits(t)') <= Limit * (1 + replays'[t])
  <2>1. IsFiniteSet(Credits(t)) /\ Cardinality(Credits(t)) \in Nat
    BY CreditsAreFinite
  <2>2. CASE t # s
    <3>1. Credits(t)' \in SUBSET Credits(t)
      BY <2>2, <1>1
    <3>2. IsFiniteSet(Credits(t)') /\ Cardinality(Credits(t)') <= Cardinality(Credits(t))
      BY <2>1, <3>1, FS_Subset
    <3>3. Cardinality(Credits(t)') \in Nat
      BY <3>2, FS_CardinalityType
    <3>4. deliveries[t] + Cardinality(Credits(t)) <= Limit * (1 + replays[t])
      BY DEF Bound
    <3>5. /\ deliveries'[t] = deliveries[t] /\ replays'[t] = replays[t]
          /\ deliveries[t] \in Nat /\ Limit * (1 + replays[t]) \in Nat
      BY <2>2, LimitIsPositive DEF BudgetTypes
    <3>6. QED
      BY <2>1, <3>2, <3>3, <3>4, <3>5
  <2>3. CASE t = s
    <3> DEFINE K == 0..(Limit - 1)
               New == {Len(stream) + 1} \X K
    <3>1. IsFiniteSet(K) /\ Cardinality(K) = Limit
      <4>1. 0 \in Int /\ Limit - 1 \in Int /\ ~(0 > Limit - 1) /\ (Limit - 1) - 0 + 1 = Limit
        BY LimitIsPositive
      <4>2. QED
        BY <4>1, FS_Interval
    <3>2. IsFiniteSet(New) /\ Cardinality(New) = Limit
      <4>1. IsFiniteSet({Len(stream) + 1}) /\ Cardinality({Len(stream) + 1}) = 1
        BY FS_Singleton
      <4>2. IsFiniteSet(New) /\ Cardinality(New) = 1 * Limit
        BY <3>1, <4>1, FS_Product
      <4>3. QED
        BY <4>2, LimitIsPositive
    <3>3. Credits(t)' \in SUBSET (Credits(t) \cup New)
      BY <2>3, <1>1
    <3> HIDE DEF New
    <3>4. /\ IsFiniteSet(Credits(t) \cup New)
          /\ Cardinality(Credits(t) \cup New)
               = Cardinality(Credits(t)) + Cardinality(New) - Cardinality(Credits(t) \cap New)
      BY <2>1, <3>2, FS_Union
    <3>5. Cardinality(Credits(t) \cap New) \in Nat
      BY <2>1, FS_Intersection, FS_CardinalityType
    <3>6. IsFiniteSet(Credits(t)') /\ Cardinality(Credits(t)') <= Cardinality(Credits(t) \cup New)
      BY <3>3, <3>4, FS_Subset
    <3>7. Cardinality(Credits(t)') \in Nat
      BY <3>6, FS_CardinalityType
    <3>8. Cardinality(Credits(t)') <= Cardinality(Credits(t)) + Limit
      BY <2>1, <3>2, <3>4, <3>5, <3>6, <3>7, LimitIsPositive
    <3>9. /\ deliveries'[t] = deliveries[t] /\ replays'[t] = r /\ deliveries[t] \in Nat
          /\ Limit * (1 + r) \in Nat
          /\ deliveries[t] + Cardinality(Credits(t)) + Limit <= Limit * (1 + r)
      BY <2>3, LimitIsPositive DEF BudgetTypes
    <3>10. QED
      BY <2>1, <3>7, <3>8, <3>9, LimitIsPositive
  <2>4. QED
    BY <2>2, <2>3
<1>3. QED
  BY <1>2 DEF Bound

(* a retry takes the credits of the entry that was removed                    *)
LEMMA AppendBound ==
  ASSUME QueueInv, Known, Exclusive, Bound, NEW w \in Workers, AppendRetry(w),
         NEW s, s = hand[w].session, NEW a, a = hand[w].attempt + 1, ~ShouldDeadLetter(a)
  PROVE  Bound'
<1> USE DEF QueueInv, Known
<1>1. /\ pc[w] = "append" /\ Add(s, a)
      /\ Release(w) /\ UNCHANGED <<deliveries, replays>>
  BY DEF AppendRetry, RetryOrDeadLetter
<1>2. /\ Work(w) \in DOMAIN stream /\ Work(w) \in 1..cursor
      /\ owner[Work(w)] = Nobody
      /\ stream[Work(w)].session = s /\ s \in Sessions
      /\ hand[w].attempt \in Nat /\ a \in Nat
  BY <1>1, AtWork DEF Places
<1>3. /\ pc \in [Workers -> Steps] /\ hand \in [Workers -> Handle] /\ Nobody \notin Workers
      /\ cursor \in Nat
  BY DEF Types
<1>4. /\ pc' = [pc EXCEPT ![w] = "poll"]
      /\ \A v \in Workers : pc'[v] = "poll" \/ (pc'[v] = pc[v] /\ hand'[v] = hand[v])
  BY <1>1, <1>3 DEF Release, Goto
<1> DEFINE K == {k \in 0..(Limit - 1) : k + a < Limit}
<1>5. /\ \A e \in DOMAIN stream, k \in 0..(Limit - 1) : Credit(e, k)' => Credit(e, k)
      /\ \A t \in Sessions : t # s => Credits(t)' \subseteq Credits(t)
      /\ \A c \in Credits(s)' : \/ c \in Credits(s)
                                \/ /\ c \in {Len(stream) + 1} \X (0..(Limit - 1))
                                   /\ c[2] = 0 \/ c[2] + a < Limit
  BY <1>1, <1>2, <1>4, AddCredits
<1>6. a < Limit
  BY <1>2, LimitIsPositive DEF ShouldDeadLetter, Limit
<1>7. PICK e : e = Work(w)
  OBVIOUS
<1>8. ASSUME NEW k PROVE ~Credit(e, k)'
  <2>0. /\ owner'[e] = Nobody /\ cursor' = cursor
    <3>1. e \in DOMAIN stream
      BY <1>2, <1>7
    <3>2. \A f \in DOMAIN stream : owner'[f] = owner[f]
      BY <1>1, <1>2, <1>6, AddAppends
    <3>3. QED
      BY <3>1, <3>2, <1>1, <1>2, <1>7 DEF Add
  <2>1. ~Unread(e, k)'
    BY <2>0, <1>2, <1>3, <1>7 DEF Unread
  <2>2. ~Held(e, k)'
    BY <2>0 DEF Held
  <2>3. ASSUME NEW v \in Workers, pc'[v] = "issue", hand'[v].entry = e PROVE FALSE
    <3>1. pc[v] = "issue" /\ Work(v) = e
      BY <2>3, <1>4 DEF Work
    <3>2. owner[e] = v
      BY <3>1 DEF Exclusive
    <3>3. QED
      BY <3>2, <1>2, <1>3, <1>7
  <2>4. ASSUME NEW v \in Workers, pc'[v] \in {"xdel", "hdel", "append"}, hand'[v].entry = e
        PROVE  FALSE
    <3>1. pc[v] \in {"xdel", "hdel", "append"} /\ Work(v) = e /\ pc'[v] # "poll"
      BY <2>4, <1>4 DEF Work
    <3>2. v = w
      BY <3>1, <1>1, <1>7 DEF Exclusive, Removing
    <3>3. QED
      BY <3>1, <3>2, <1>3, <1>4
  <2>5. ~Issuing(e, k)' /\ ~Retrying(e, k)'
    BY <2>3, <2>4 DEF Issuing, Retrying, Removing, Work
  <2>6. QED
    BY <2>1, <2>2, <2>5 DEF Credit
<1>9. hand[w].verdict = "retry"
  BY <1>1 DEF Exclusive
<1>10. QED
  <2>1. {e} \X K \subseteq Credits(s)
    <3>1. ASSUME NEW k \in K PROVE <<e, k>> \in Credits(s)
      <4>1. k + hand[w].attempt + 1 < Limit
        BY <1>2, LimitIsPositive
      <4>2. Retrying(e, k)
        BY <4>1, <1>1, <1>7, <1>9 DEF Retrying, Removing
      <4>3. QED
        BY <4>2, <1>2, <1>7 DEF Credits, Credit
    <3>2. QED
      BY <3>1
  <2>2. ASSUME NEW c, c \in Credits(s)'
        PROVE  c \in (Credits(s) \ ({e} \X K)) \cup ({Len(stream) + 1} \X K)
    <3>1. CASE c \in Credits(s)
      <4>1. PICK f, k : c = <<f, k>> /\ Credit(f, k)'
        BY <2>2 DEF Credits
      <4>2. f # e
        BY <4>1, <1>8
      <4>3. QED
        BY <3>1, <4>1, <4>2
    <3>2. CASE /\ c \in {Len(stream) + 1} \X (0..(Limit - 1))
               /\ c[2] = 0 \/ c[2] + a < Limit
      <4>1. PICK k \in 0..(Limit - 1) : c = <<Len(stream) + 1, k>>
        BY <3>2
      <4>2. k = 0 \/ k + a < Limit
        BY <3>2, <4>1
      <4>3. k \in K
        BY <4>2, <1>6, LimitIsPositive
      <4>4. QED
        BY <4>1, <4>3
    <3>3. QED
      BY <2>2, <3>1, <3>2, <1>5
  <2>3. IsFiniteSet(K)
    <3>1. IsFiniteSet(0..(Limit - 1)) /\ K \in SUBSET (0..(Limit - 1))
      BY LimitIsPositive, FS_Interval
    <3>2. QED
      BY <3>1, FS_Subset
  <2>4. IsFiniteSet(Credits(s))
    BY CreditsAreFinite
  <2>5. Credits(s)' \subseteq (Credits(s) \ ({e} \X K)) \cup ({Len(stream) + 1} \X K)
    BY <2>2
  <2> HIDE DEF K
  <2>6. Cardinality(Credits(s)') \in Nat /\ Cardinality(Credits(s)') <= Cardinality(Credits(s))
    <3>1. PICK D : D = Credits(s)'
      OBVIOUS
    <3>2. PICK n : n = Len(stream) + 1
      OBVIOUS
    <3>3. D \subseteq (Credits(s) \ ({e} \X K)) \cup ({n} \X K)
      BY <2>5, <3>1, <3>2
    <3>4. Cardinality(D) \in Nat /\ Cardinality(D) <= Cardinality(Credits(s))
      BY <2>1, <2>3, <2>4, <3>3, MovedCredits
    <3>5. QED
      BY <3>1, <3>4
  <2>7. ASSUME NEW t \in Sessions
        PROVE  deliveries'[t] + Cardinality(Credits(t)') <= Limit * (1 + replays'[t])
    <3>1. IsFiniteSet(Credits(t)) /\ Cardinality(Credits(t)) \in Nat
      BY CreditsAreFinite
    <3>2. Cardinality(Credits(t)') \in Nat /\ Cardinality(Credits(t)') <= Cardinality(Credits(t))
      <4>1. CASE t = s
        BY <2>6, <4>1
      <4>2. CASE t # s
        <5>1. Credits(t)' \in SUBSET Credits(t)
          BY <4>2, <1>5
        <5>2. QED
          BY <3>1, <5>1, FS_Subset, FS_CardinalityType
      <4>3. QED
        BY <4>1, <4>2
    <3>3. /\ deliveries[t] + Cardinality(Credits(t)) <= Limit * (1 + replays[t])
          /\ deliveries[t] \in Nat /\ Limit * (1 + replays[t]) \in Nat
      BY LimitIsPositive DEF Bound, BudgetTypes
    <3>4. QED
      BY <3>1, <3>2, <3>3, <1>1
  <2>8. QED
    BY <2>7 DEF Bound

LEMMA NextBound ==
  ASSUME QueueInv, Known, Exclusive, Bound, Next, ~raced'
  PROVE  Bound'
<1> USE DEF QueueInv, Known
<1>1. ASSUME NEW w \in Workers,
             \/ Claim(w) \/ ReadNew(w) \/ Inspect(w) \/ BuryReclaimed(w) \/ Settle(w)
             \/ Xack(w) \/ Xdel(w) \/ Hdel(w) \/ Cut(w)
      PROVE  Bound'
  <2>1. UNCHANGED <<deliveries, replays>>
    BY <1>1 DEF Claim, ReadNew, Inspect, BuryReclaimed, Settle, Xack, Xdel, Hdel, Cut, history
  <2>2. \A s \in Sessions : Credits(s)' \subseteq Credits(s)
    BY <1>1, QuietCredits
  <2>3. QED
    BY <2>1, <2>2, FewerCredits
<1>2. ASSUME NEW w \in Workers, Issue(w) PROVE Bound'
  BY <1>2, IssueBound
(* the stream, the hands and the delivery states stay, but for a worker that  *)
(* is done *)
<1>3. ASSUME UNCHANGED <<stream, cursor, owner, hash, deliveries, replays>>,
             \A v \in Workers : pc'[v] = "poll" \/ (pc'[v] = pc[v] /\ hand'[v] = hand[v])
      PROVE  Bound'
  <2>1. ASSUME NEW e \in DOMAIN stream, NEW k, Credit(e, k)' PROVE Credit(e, k)
    <3>1. Held(e, k)' => Credit(e, k)
      BY <1>3, HeldStays
    <3>2. Unread(e, k)' => Credit(e, k)
      BY <1>3 DEF Unread, Credit
    <3>3. Issuing(e, k)' => Credit(e, k)
      <4>1. SUFFICES ASSUME NEW v \in Workers, pc'[v] = "issue", hand'[v].entry = e,
                            k = 0 \/ k + hand'[v].attempt < Limit
                     PROVE  Credit(e, k)
        BY DEF Issuing, Work
      <4>2. pc[v] = "issue" /\ hand'[v] = hand[v]
        BY <4>1, <1>3
      <4>3. QED
        BY <4>1, <4>2 DEF Issuing, Work, Credit
    <3>4. Retrying(e, k)' => Credit(e, k)
      <4>1. SUFFICES ASSUME NEW v \in Workers, pc'[v] \in {"xdel", "hdel", "append"},
                            hand'[v].verdict = "retry", hand'[v].entry = e,
                            k + hand'[v].attempt + 1 < Limit
                     PROVE  Credit(e, k)
        BY DEF Retrying, Removing, Work
      <4>2. pc'[v] = pc[v] /\ hand'[v] = hand[v]
        BY <4>1, <1>3
      <4>3. QED
        BY <4>1, <4>2 DEF Retrying, Removing, Work, Credit
    <3>5. QED
      BY <2>1, <3>1, <3>2, <3>3, <3>4 DEF Credit
  <2>2. \A s \in Sessions : Credits(s)' \subseteq Credits(s)
    BY <1>3, <2>1 DEF Credits
  <2>3. QED
    BY <1>3, <2>2, FewerCredits
<1>4. ASSUME NEW w \in Workers, AppendRetry(w) PROVE Bound'
  <2>1. /\ pc[w] = "append" /\ Release(w) /\ UNCHANGED <<deliveries, replays>>
        /\ RetryOrDeadLetter(w)
    BY <1>4 DEF AppendRetry
  <2>2. CASE ShouldDeadLetter(hand[w].attempt + 1)
    <3>1. UNCHANGED <<stream, cursor, owner, hash>>
      BY <2>1, <2>2 DEF RetryOrDeadLetter, Bury
    <3>2. \A v \in Workers : pc'[v] = "poll" \/ (pc'[v] = pc[v] /\ hand'[v] = hand[v])
      BY <2>1 DEF Types, Release, Goto
    <3>3. QED
      BY <2>1, <3>1, <3>2, <1>3
  <2>3. CASE ~ShouldDeadLetter(hand[w].attempt + 1)
    BY <1>4, <2>3, AppendBound
  <2>4. QED
    BY <2>2, <2>3
<1>5. ASSUME NEW s \in Sessions, Enqueue(s) PROVE Bound'
  <2>1. s \notin submitted /\ Add(s, 0) /\ UNCHANGED <<pc, hand, deliveries, replays>>
    BY <1>5 DEF Enqueue
  <2>2. deliveries[s] = 0 /\ replays[s] \in Nat
    BY <2>1 DEF OnlySubmitted, BudgetTypes
  <2>3. Credits(s) = {}
    BY <2>1 DEF Credits, OnlySubmitted
  <2>4. Cardinality(Credits(s)) = 0
    BY <2>3, FS_EmptySet
  <2>5. Limit <= Limit * (1 + replays[s])
    <3>1. ASSUME NEW l \in Nat, NEW r \in Nat PROVE l <= l * (1 + r)
      <4>1. l * (1 + r) = l + l * r /\ l * r \in Nat
        OBVIOUS
      <4>2. QED
        BY <4>1
    <3>2. QED
      BY <2>2, <3>1, LimitIsPositive
  <2>6. replays' = [replays EXCEPT ![s] = replays[s]]
    BY <2>1 DEF BudgetTypes
  <2>7. deliveries[s] + Cardinality(Credits(s)) + Limit <= Limit * (1 + replays[s])
    BY <2>2, <2>4, <2>5, LimitIsPositive
  <2>8. PICK a \in Nat, r \in Nat : a = 0 /\ r = replays[s]
    BY <2>2
  <2>9. Add(s, a)
    BY <2>1, <2>8
  <2>10. UNCHANGED <<pc, hand, deliveries>> /\ replays' = [replays EXCEPT ![s] = r]
    BY <2>1, <2>6, <2>8
  <2>11. deliveries[s] + Cardinality(Credits(s)) + Limit <= Limit * (1 + r)
    BY <2>7, <2>8
  <2>12. QED
    BY <2>9, <2>10, <2>11, AddBound
<1>6. ASSUME NEW d \in dead, NEW reset \in BOOLEAN, NEW remove \in BOOLEAN,
             Replay(d, reset, remove)
      PROVE  Bound'
  <2>1. PICK s, a : s = d.session /\ a = (IF reset THEN 0 ELSE d.attempt)
    OBVIOUS
  <2>2. /\ s \in Sessions /\ a \in Nat /\ replays[s] \in Nat /\ deliveries[s] \in Nat
    BY <2>1 DEF Types, BudgetTypes
  <2>3. /\ Add(s, a) /\ UNCHANGED <<pc, hand, deliveries>>
        /\ replays' = [replays EXCEPT ![s] = replays[s] + 1]
    BY <1>6, <2>1 DEF Replay
  <2>4. deliveries[s] + Cardinality(Credits(s)) <= Limit * (1 + replays[s])
    BY <2>2 DEF Bound
  <2>5. Cardinality(Credits(s)) \in Nat
    BY CreditsAreFinite
  <2>6. Limit * (1 + (replays[s] + 1)) = Limit * (1 + replays[s]) + Limit
    <3>1. ASSUME NEW l \in Nat, NEW r \in Nat PROVE l * (1 + (r + 1)) = l * (1 + r) + l
      OBVIOUS
    <3>2. QED
      BY <2>2, <3>1, LimitIsPositive
  <2>7. Limit * (1 + replays[s]) \in Nat
    BY <2>2, LimitIsPositive
  <2>8. deliveries[s] + Cardinality(Credits(s)) + Limit <= Limit * (1 + (replays[s] + 1))
    <3>1. ASSUME NEW x \in Nat, NEW c \in Nat, NEW l \in Nat, NEW m \in Nat, NEW n,
                 x + c <= m, n = m + l
          PROVE  x + c + l <= n
      BY <3>1
    <3>2. Limit \in Nat
      BY LimitIsPositive
    <3>3. QED
      BY <2>2, <2>4, <2>5, <2>6, <2>7, <3>1, <3>2
  <2>9. replays[s] + 1 \in Nat
    BY <2>2
  <2>10. QED
    BY <2>2, <2>3, <2>8, <2>9, AddBound
<1>7. ASSUME RemoveDeadLetter \/ CutReplay PROVE Bound'
  BY <1>7, <1>3 DEF RemoveDeadLetter, CutReplay, redis, history
<1>8. ASSUME NEW e \in DOMAIN stream, Expire(e) PROVE Bound'
  BY <1>8, <1>3 DEF Expire, history
<1>9. QED
  BY <1>1, <1>2, <1>4, <1>5, <1>6, <1>7, <1>8 DEF Next, Step

(* With no operation cut short, every attempt a message has been told was     *)
(* delivered: it is told the next one only after a delivery, and a claim of   *)
(* an entry that was never delivered is a race.                               *)
LEMMA NextEarned ==
  ASSUME QueueInv, Known, Exclusive, Earned, Next, ~raced', faults' = 0
  PROVE  Earned'
<1> USE DEF QueueInv, Known
<1>0. /\ pc \in [Workers -> Steps] /\ hand \in [Workers -> Handle]
      /\ DOMAIN owner = DOMAIN stream /\ DOMAIN stream = 1..Len(stream) /\ Len(stream) \in Nat
      /\ cursor \in Nat /\ cursor <= Len(stream) /\ Nobody \notin Workers /\ Limit \in Nat
      /\ deliveries \in [Sessions -> Nat]
      /\ \A e \in DOMAIN stream : stream[e].session \in Sessions /\ stream[e].attempt \in Nat
      /\ \A d \in dead : d.session \in Sessions /\ d.attempt \in Nat
  BY Domains, LimitIsPositive DEF Types, BudgetTypes, Entry
<1> DEFINE Told(h) == h.attempt + 1 <= deliveries[h.session]
           Late(x) == x \in {"xack", "xdel", "hdel", "append"}
(* a command of a worker that was not about to deliver *)
<1>1. ASSUME NEW w \in Workers, NEW to \in Steps, pc[w] # "issue", pc' = [pc EXCEPT ![w] = to],
             \A v \in Workers : v # w => hand'[v] = hand[v],
             UNCHANGED <<stream, deliveries>>, cursor' \in Nat, cursor <= cursor',
             \A d \in dead' : Limit <= d.attempt /\ d.attempt <= deliveries[d.session],
             \A e \in DOMAIN stream : owner'[e] # Nobody =>
               \/ /\ owner[e] # Nobody
                  /\ \A h : h \in hash' /\ h.entry = e <=> h \in hash /\ h.entry = e
               \/ to = "issue" /\ hand'[w].entry = e,
             to = "issue" => hand'[w].attempt <= deliveries[hand'[w].session],
             to = "bury" => /\ Limit <= hand'[w].attempt
                            /\ hand'[w].attempt <= deliveries[hand'[w].session],
             Late(to) /\ hand'[w].verdict = "retry" => Told(hand'[w])
      PROVE  Earned'
  <2>1. \A v \in Workers : v # w => pc'[v] = pc[v]
    BY <1>1, <1>0
  <2>2. pc'[w] = to
    BY <1>1, <1>0
  <2>3. ASSUME NEW e \in DOMAIN stream, owner'[e] # Nobody
        PROVE  \/ \A a \in Previous(e)' : a + 1 <= deliveries[stream[e].session]
               \/ \E v \in Workers : pc'[v] = "issue" /\ hand'[v].entry = e
    <3>1. CASE to = "issue" /\ hand'[w].entry = e
      BY <3>1, <2>2
    <3>2. CASE /\ owner[e] # Nobody
               /\ \A h : h \in hash' /\ h.entry = e <=> h \in hash /\ h.entry = e
      <4>1. Previous(e)' = Previous(e)
        BY <1>1, <3>2, PreviousStays
      <4>2. \/ \A a \in Previous(e) : a + 1 <= deliveries[stream[e].session]
            \/ \E v \in Workers : pc[v] = "issue" /\ hand[v].entry = e
        BY <3>2 DEF Earned, Work
      <4>3. CASE \E v \in Workers : pc[v] = "issue" /\ hand[v].entry = e
        BY <4>3, <1>1, <2>1
      <4>4. QED
        BY <4>1, <4>2, <4>3
    <3>3. QED
      BY <2>3, <3>1, <3>2, <1>1
  <2>4. ASSUME NEW e \in DOMAIN stream, e > cursor'
        PROVE  stream[e].attempt <= deliveries[stream[e].session]
    BY <2>4, <1>1, <1>0 DEF Earned
  <2>5. ASSUME NEW v \in Workers, pc'[v] = "issue"
        PROVE  hand'[v].attempt <= deliveries[hand'[v].session]
    BY <2>5, <2>1, <2>2, <1>1 DEF Earned
  <2>6. ASSUME NEW v \in Workers, pc'[v] = "bury"
        PROVE  Limit <= hand'[v].attempt /\ hand'[v].attempt <= deliveries[hand'[v].session]
    BY <2>6, <2>1, <2>2, <1>1 DEF Earned
  <2>7. ASSUME NEW v \in Workers, Late(pc'[v]), hand'[v].verdict = "retry"
        PROVE  Told(hand'[v])
    <3>1. CASE v = w
      BY <3>1, <2>2, <2>7, <1>1
    <3>2. CASE v # w
      BY <3>2, <2>1, <2>7, <1>1 DEF Earned, Removing
    <3>3. QED
      BY <3>1, <3>2
  <2>8. QED
    BY <1>1, <2>3, <2>4, <2>5, <2>6, <2>7 DEF Earned, Work, Removing
(* what is told of the entry in hand: no other worker is about to deliver it *)
<1>2. ASSUME NEW w \in Workers, pc[w] # "poll", pc[w] # "issue", owner[Work(w)] = w,
             NEW a \in Previous(Work(w))
      PROVE  a \in Nat /\ a + 1 <= deliveries[hand[w].session]
  <2>1. /\ Work(w) \in DOMAIN stream /\ hand[w].session = stream[Work(w)].session
        /\ owner[Work(w)] # Nobody
    BY <1>2, <1>0, AtWork
  <2>2. ASSUME NEW v \in Workers, pc[v] = "issue", Work(v) = Work(w) PROVE FALSE
    <3>1. owner[Work(v)] = v
      BY <2>2 DEF Exclusive
    <3>2. QED
      BY <3>1, <2>2, <1>2
  <2>3. \A b \in Previous(Work(w)) : b + 1 <= deliveries[stream[Work(w)].session]
    BY <2>1, <2>2 DEF Earned
  <2>4. QED
    BY <2>1, <2>3, PreviousAttempts
<1>3. ASSUME NEW w \in Workers, Claim(w) PROVE Earned'
  <2>1. PICK e \in idle :
          /\ owner' = [owner EXCEPT ![e] = w]
          /\ hand' = [hand EXCEPT ![w] =
               [entry |-> e, session |-> stream[e].session, attempt |-> 0, verdict |-> "ack"]]
    BY <1>3 DEF Claim, Reclaimable
  <2>2. /\ pc[w] = "poll" /\ pc' = [pc EXCEPT ![w] = "claimed"]
        /\ UNCHANGED <<stream, deliveries, cursor, hash, dead>>
    BY <1>3 DEF Claim, Goto
  <2>3. \A f \in DOMAIN stream : owner'[f] # Nobody => owner[f] # Nobody
    BY <2>1, <1>0 DEF Places
  <2>4. \A v \in Workers : v # w => hand'[v] = hand[v]
    BY <2>1, <1>0
  <2>5. \A d \in dead' : Limit <= d.attempt /\ d.attempt <= deliveries[d.session]
    BY <2>2 DEF Earned
  <2>6. cursor' \in Nat /\ cursor <= cursor'
    BY <2>2, <1>0
  <2>7. QED
    BY <2>2, <2>3, <2>4, <2>5, <2>6, <1>1 DEF Steps
<1>4. ASSUME NEW w \in Workers, ReadNew(w) PROVE Earned'
  <2>1. /\ pc[w] = "poll" /\ pc' = [pc EXCEPT ![w] = "issue"]
        /\ UNCHANGED <<stream, deliveries, hash, dead>>
        /\ cursor' = cursor + 1 /\ owner' = [owner EXCEPT ![cursor + 1] = w]
        /\ hand' = [hand EXCEPT ![w] =
             [entry |-> cursor + 1, session |-> stream[cursor + 1].session,
              attempt |-> stream[cursor + 1].attempt, verdict |-> "ack"]]
        /\ cursor < Len(stream)
    BY <1>4 DEF ReadNew, Goto, history
  <2>2. cursor + 1 \in DOMAIN stream /\ cursor + 1 > cursor
    BY <2>1, <1>0
  <2>3. /\ hand'[w].entry = cursor + 1 /\ hand'[w].session = stream[cursor + 1].session
        /\ hand'[w].attempt = stream[cursor + 1].attempt
        /\ \A v \in Workers : v # w => hand'[v] = hand[v]
    BY <2>1, <1>0
  <2>4. hand'[w].attempt <= deliveries[hand'[w].session]
    BY <2>2, <2>3 DEF Earned
  <2>5. ASSUME NEW f \in DOMAIN stream, owner'[f] # Nobody
        PROVE  owner[f] # Nobody \/ hand'[w].entry = f
    BY <2>5, <2>1, <2>3, <1>0
  <2>6. \A d \in dead' : Limit <= d.attempt /\ d.attempt <= deliveries[d.session]
    BY <2>1 DEF Earned
  <2>7. cursor' \in Nat /\ cursor <= cursor'
    BY <2>1, <1>0
  <2>8. QED
    BY <2>1, <2>3, <2>4, <2>5, <2>6, <2>7, <1>1 DEF Steps
<1>5. ASSUME NEW w \in Workers, Inspect(w) PROVE Earned'
  <2>1. PICK a \in Previous(Work(w)) :
          /\ hand' = [hand EXCEPT ![w].attempt = a + 1]
          /\ pc' = [pc EXCEPT ![w] = IF ShouldDeadLetter(a + 1) THEN "bury" ELSE "issue"]
    BY <1>5 DEF Inspect, Goto
  <2>2. pc[w] = "claimed" /\ UNCHANGED <<stream, deliveries, cursor, owner, hash, dead>>
    BY <1>5 DEF Inspect, redis, history
  <2>3. owner[Work(w)] = w
    BY <2>2 DEF Exclusive
  <2>4. a \in Nat /\ a + 1 <= deliveries[hand[w].session]
    BY <2>1, <2>2, <2>3, <1>2
  <2>5. /\ hand'[w].attempt = a + 1 /\ hand'[w].session = hand[w].session
        /\ \A v \in Workers : v # w => hand'[v] = hand[v]
    BY <2>1, <1>0 DEF Handle
  <2>6. PICK to \in {"bury", "issue"} : /\ pc' = [pc EXCEPT ![w] = to]
                                        /\ to = "bury" => ShouldDeadLetter(a + 1)
    BY <2>1
  <2>7. to = "bury" => Limit <= hand'[w].attempt
    BY <2>4, <2>5, <2>6, <1>0 DEF ShouldDeadLetter, Limit
  <2>8. hand'[w].attempt <= deliveries[hand'[w].session]
    BY <2>4, <2>5
  <2>9. \A d \in dead' : Limit <= d.attempt /\ d.attempt <= deliveries[d.session]
    BY <2>2 DEF Earned
  <2>10. to \in Steps /\ ~Late(to)
    BY <2>6 DEF Steps
  <2>11. cursor' \in Nat /\ cursor <= cursor'
    BY <2>2, <1>0
  <2>12. QED
    BY <2>2, <2>5, <2>6, <2>7, <2>8, <2>9, <2>10, <2>11, <1>1
<1>6. ASSUME NEW w \in Workers, BuryReclaimed(w) PROVE Earned'
  <2>1. /\ pc[w] = "bury" /\ pc' = [pc EXCEPT ![w] = "xack"]
        /\ hand' = [hand EXCEPT ![w].verdict = "bury"]
        /\ dead' = dead \cup {[id |-> buried + 1, session |-> hand[w].session,
                               attempt |-> hand[w].attempt]}
        /\ UNCHANGED <<stream, deliveries, cursor, owner, hash>>
    BY <1>6 DEF BuryReclaimed, Bury, Goto
  <2>2. Limit <= hand[w].attempt /\ hand[w].attempt <= deliveries[hand[w].session]
    BY <2>1 DEF Earned
  <2>3. \A d \in dead' : Limit <= d.attempt /\ d.attempt <= deliveries[d.session]
    BY <2>1, <2>2 DEF Earned
  <2>4. hand'[w].verdict = "bury" /\ \A v \in Workers : v # w => hand'[v] = hand[v]
    BY <2>1, <1>0 DEF Handle
  <2>5. cursor' \in Nat /\ cursor <= cursor'
    BY <2>1, <1>0
  <2>6. QED
    BY <2>1, <2>3, <2>4, <2>5, <1>1 DEF Steps
<1>7. ASSUME NEW w \in Workers, Settle(w) PROVE Earned'
  <2>1. pc[w] = "run" /\ UNCHANGED <<stream, deliveries, cursor, owner, hash, dead>>
    BY <1>7 DEF Settle, redis
  <2>2. \A d \in dead' : Limit <= d.attempt /\ d.attempt <= deliveries[d.session]
    BY <2>1 DEF Earned
  <2>3. cursor' \in Nat /\ cursor <= cursor'
    BY <2>1, <1>0
  <2>4. CASE Release(w)
    <3>1. pc' = [pc EXCEPT ![w] = "poll"] /\ \A v \in Workers : v # w => hand'[v] = hand[v]
      BY <2>4, <1>0 DEF Release, Goto
    <3>2. QED
      BY <3>1, <2>1, <2>2, <2>3, <1>1 DEF Steps
  <2>5. CASE /\ DeliveryTokenMatches(w) /\ Goto(w, "xack")
             /\ raced' = (raced \/ (Token(w) \in hash /\ owner[Work(w)] # w))
             /\ \E verdict \in {"ack", "retry", "drop"} : hand' = [hand EXCEPT ![w].verdict = verdict]
    <3>1. Token(w) \in hash /\ owner[Work(w)] = w /\ pc' = [pc EXCEPT ![w] = "xack"]
      BY <2>5 DEF DeliveryTokenMatches, Goto
    <3>2. PICK verdict \in {"ack", "retry", "drop"} : hand' = [hand EXCEPT ![w].verdict = verdict]
      BY <2>5
    <3>3. /\ hand'[w].session = hand[w].session /\ hand'[w].attempt = hand[w].attempt
          /\ \A v \in Workers : v # w => hand'[v] = hand[v]
      BY <3>2, <1>0 DEF Handle
    <3>4. hand[w].attempt \in Previous(Work(w))
      <4>1. Token(w).entry = Work(w) /\ Token(w).attempt = hand[w].attempt
        BY DEF Token
      <4>2. QED
        BY <3>1, <4>1 DEF Previous
    <3>5. Told(hand'[w])
      BY <3>1, <3>3, <3>4, <2>1, <1>2
    <3>6. QED
      BY <3>1, <3>3, <3>5, <2>1, <2>2, <2>3, <1>1 DEF Steps
  <2>6. QED
    BY <1>7, <2>4, <2>5 DEF Settle
<1>8. ASSUME NEW w \in Workers, Xack(w) PROVE Earned'
  <2>1. /\ pc[w] = "xack" /\ pc' = [pc EXCEPT ![w] = "xdel"]
        /\ UNCHANGED <<stream, deliveries, cursor, hash, hand, dead>>
        /\ owner' = [owner EXCEPT ![Work(w)] = Nobody]
    BY <1>8 DEF Xack, Goto
  <2>2. \A f \in DOMAIN stream : owner'[f] # Nobody => owner[f] # Nobody
    BY <2>1, <1>0
  <2>3. hand'[w].verdict = "retry" => Told(hand'[w])
    BY <2>1 DEF Earned
  <2>4. \A d \in dead' : Limit <= d.attempt /\ d.attempt <= deliveries[d.session]
    BY <2>1 DEF Earned
  <2>5. cursor' \in Nat /\ cursor <= cursor'
    BY <2>1, <1>0
  <2>6. QED
    BY <2>1, <2>2, <2>3, <2>4, <2>5, <1>1 DEF Steps
<1>9. ASSUME NEW w \in Workers, Xdel(w) \/ Hdel(w) PROVE Earned'
  <2>1. /\ pc[w] \in {"xdel", "hdel"} /\ UNCHANGED <<stream, deliveries, cursor, owner, dead>>
        /\ hash' \subseteq hash /\ \A h \in hash : h.entry # Work(w) => h \in hash'
    BY <1>9 DEF Xdel, Hdel, history
  <2>2. ASSUME NEW f \in DOMAIN stream, owner'[f] # Nobody
        PROVE  /\ owner[f] # Nobody
               /\ \A h : h \in hash' /\ h.entry = f <=> h \in hash /\ h.entry = f
    <3>1. owner[f] # Nobody /\ owner[Work(w)] = Nobody
      BY <2>1, <2>2 DEF Places
    <3>2. f # Work(w)
      BY <3>1
    <3>3. QED
      BY <3>1, <3>2, <2>1
  <2>3. PICK to \in {"poll", "hdel", "append"} : pc' = [pc EXCEPT ![w] = to]
    BY <1>9 DEF Xdel, Hdel, Goto, Release
  <2>4. /\ \A v \in Workers : v # w => hand'[v] = hand[v]
        /\ pc'[w] # "poll" => hand'[w] = hand[w]
    BY <1>9, <1>0 DEF Xdel, Hdel, Goto, Release
  <2>5. hand[w].verdict = "retry" => Told(hand[w])
    BY <2>1 DEF Earned, Removing
  <2>6. Late(to) /\ hand'[w].verdict = "retry" => Told(hand'[w])
    BY <2>3, <2>4, <2>5, <1>0
  <2>7. \A d \in dead' : Limit <= d.attempt /\ d.attempt <= deliveries[d.session]
    BY <2>1 DEF Earned
  <2>8. cursor' \in Nat /\ cursor <= cursor'
    BY <2>1, <1>0
  <2>9. to \in Steps /\ to # "issue" /\ to # "bury" /\ pc[w] # "issue"
    BY <2>1, <2>3 DEF Steps
  <2>10. QED
    BY <2>1, <2>2, <2>3, <2>4, <2>6, <2>7, <2>8, <2>9, <1>1
(* XADD: the new entry is nobody's *)
<1>10. ASSUME NEW s \in Sessions, NEW a \in Nat, Add(s, a), a <= deliveries[s],
              UNCHANGED <<deliveries, dead>>,
              \A v \in Workers : pc'[v] = "poll" \/ (pc'[v] = pc[v] /\ hand'[v] = hand[v]),
              \A v \in Workers : pc[v] = "issue" => pc'[v] = pc[v]
       PROVE  Earned'
  <2>1. /\ DOMAIN stream' = 1..(Len(stream) + 1)
        /\ \A e \in DOMAIN stream : stream'[e] = stream[e] /\ owner'[e] = owner[e]
        /\ stream'[Len(stream) + 1].session = s /\ owner'[Len(stream) + 1] = Nobody
        /\ cursor' = cursor /\ hash' = hash
    BY <1>10, AddAppends DEF Add
  <2>2. stream'[Len(stream) + 1].attempt = a
    <3>1. stream' = Append(stream, [session |-> s, attempt |-> a])
      BY <1>10 DEF Add
    <3>2. stream \in Seq(Entry) /\ [session |-> s, attempt |-> a] \in Entry
      BY <1>10 DEF Types, Entry
    <3>3. stream'[Len(stream) + 1] = [session |-> s, attempt |-> a]
      BY <3>1, <3>2, AppendProperties
    <3>4. QED
      BY <3>3
  <2>3. \A e \in DOMAIN stream' : e \in DOMAIN stream \/ e = Len(stream) + 1
    BY <2>1, <1>0
  <2>4. ASSUME NEW e \in DOMAIN stream', e > cursor'
        PROVE  stream'[e].attempt <= deliveries[stream'[e].session]
    BY <2>1, <2>2, <2>3, <2>4, <1>10 DEF Earned
  <2>5. ASSUME NEW e \in DOMAIN stream', owner'[e] # Nobody
        PROVE  \/ \A b \in Previous(e)' : b + 1 <= deliveries[stream'[e].session]
               \/ \E v \in Workers : pc'[v] = "issue" /\ hand'[v].entry = e
    <3>1. e \in DOMAIN stream /\ owner[e] # Nobody
      BY <2>1, <2>3, <2>5
    <3>2. Previous(e)' = Previous(e) /\ stream'[e] = stream[e]
      BY <3>1, <2>1, PreviousStays
    <3>3. \/ \A b \in Previous(e) : b + 1 <= deliveries[stream[e].session]
          \/ \E v \in Workers : pc[v] = "issue" /\ hand[v].entry = e
      BY <3>1 DEF Earned, Work
    <3>4. CASE \E v \in Workers : pc[v] = "issue" /\ hand[v].entry = e
      BY <3>4, <1>10
    <3>5. QED
      BY <3>2, <3>3, <3>4
  <2>6. ASSUME NEW v \in Workers
        PROVE  /\ pc'[v] = "issue" => hand'[v].attempt <= deliveries[hand'[v].session]
               /\ pc'[v] = "bury" => /\ Limit <= hand'[v].attempt
                                     /\ hand'[v].attempt <= deliveries[hand'[v].session]
               /\ Late(pc'[v]) /\ hand'[v].verdict = "retry" => Told(hand'[v])
    BY <1>10 DEF Earned, Removing
  <2>7. QED
    BY <2>4, <2>5, <2>6, <1>10 DEF Earned, Work, Removing
<1>11. ASSUME NEW w \in Workers, AppendRetry(w) PROVE Earned'
  <2>1. /\ pc[w] = "append" /\ Release(w) /\ RetryOrDeadLetter(w) /\ UNCHANGED deliveries
    BY <1>11 DEF AppendRetry
  <2>2. /\ hand[w].session \in Sessions /\ hand[w].attempt \in Nat /\ hand[w].attempt + 1 \in Nat
        /\ hand[w].attempt + 1 <= deliveries[hand[w].session]
    BY <2>1, AtWork DEF Exclusive, Earned, Removing
  <2>3. /\ pc' = [pc EXCEPT ![w] = "poll"]
        /\ \A v \in Workers : v # w => hand'[v] = hand[v]
    BY <2>1, <1>0 DEF Release, Goto
  <2>4. CASE ShouldDeadLetter(hand[w].attempt + 1) /\ Bury(hand[w].session, hand[w].attempt + 1)
    <3>1. /\ dead' = dead \cup {[id |-> buried + 1, session |-> hand[w].session,
                                 attempt |-> hand[w].attempt + 1]}
          /\ UNCHANGED <<stream, cursor, owner, hash>>
      BY <2>4 DEF Bury
    <3>2. Limit <= hand[w].attempt + 1
      BY <2>2, <2>4, <1>0 DEF ShouldDeadLetter, Limit
    <3>3. \A d \in dead' : Limit <= d.attempt /\ d.attempt <= deliveries[d.session]
      BY <3>1, <3>2, <2>2 DEF Earned
    <3>4. cursor' \in Nat /\ cursor <= cursor'
      BY <3>1, <1>0
    <3>5. QED
      BY <2>1, <2>3, <3>1, <3>3, <3>4, <1>1 DEF Steps
  <2>5. CASE Add(hand[w].session, hand[w].attempt + 1)
    <3>1. dead' = dead
      BY <2>5 DEF Add
    <3>2. \A v \in Workers : pc'[v] = "poll" \/ (pc'[v] = pc[v] /\ hand'[v] = hand[v])
      BY <2>3, <1>0
    <3>3. \A v \in Workers : pc[v] = "issue" => pc'[v] = pc[v]
      BY <2>1, <2>3, <1>0
    <3>4. QED
      BY <2>1, <2>2, <2>5, <3>1, <3>2, <3>3, <1>10
  <2>6. QED
    BY <2>1, <2>4, <2>5 DEF RetryOrDeadLetter
<1>12. ASSUME NEW s \in Sessions, Enqueue(s) PROVE Earned'
  <2>1. Add(s, 0) /\ UNCHANGED <<pc, hand, deliveries, dead>>
    BY <1>12 DEF Enqueue, Add
  <2>2. 0 <= deliveries[s]
    BY <1>0
  <2>3. QED
    BY <2>1, <2>2, <1>10
<1>13. ASSUME NEW d \in dead, NEW reset \in BOOLEAN, NEW remove \in BOOLEAN,
              Replay(d, reset, remove)
       PROVE  Earned'
  <2>1. PICK s, a : s = d.session /\ a = (IF reset THEN 0 ELSE d.attempt)
    OBVIOUS
  <2>2. Add(s, a) /\ UNCHANGED <<pc, hand, deliveries, dead>>
    BY <1>13, <2>1 DEF Replay, Add
  <2>3. s \in Sessions /\ a \in Nat /\ a <= deliveries[s]
    BY <2>1, <1>0 DEF Earned
  <2>4. QED
    BY <2>2, <2>3, <1>10
<1>14. ASSUME NEW w \in Workers, Issue(w) PROVE Earned'
  <2>1. /\ pc[w] = "issue" /\ pc' = [pc EXCEPT ![w] = "run"]
        /\ UNCHANGED <<stream, cursor, owner, hand, dead>>
        /\ hash' = {h \in hash : h.entry # Work(w)} \cup {Token(w)}
        /\ deliveries' = [deliveries EXCEPT ![hand[w].session] = @ + 1]
    BY <1>14 DEF Issue, Goto
  <2>2. /\ Work(w) \in DOMAIN stream /\ hand[w].session = stream[Work(w)].session
        /\ hand[w].session \in Sessions /\ hand[w].attempt \in Nat
        /\ hand[w].attempt <= deliveries[hand[w].session]
    BY <2>1, AtWork DEF Earned
  <2>3. \A s \in Sessions : /\ deliveries[s] \in Nat /\ deliveries'[s] \in Nat
                            /\ deliveries[s] <= deliveries'[s]
                            /\ s = hand[w].session => deliveries'[s] = deliveries[s] + 1
    BY <2>1, <2>2, <1>0
  <2>4. ASSUME NEW x \in Nat, NEW s \in Sessions, x <= deliveries[s] PROVE x <= deliveries'[s]
    BY <2>3, <2>4
  <2>5. Token(w).entry = Work(w) /\ Token(w).attempt = hand[w].attempt
    BY DEF Token
  <2>6. ASSUME NEW e \in DOMAIN stream, owner[e] # Nobody
        PROVE  \/ \A b \in Previous(e)' : b + 1 <= deliveries'[stream[e].session]
               \/ \E v \in Workers : pc'[v] = "issue" /\ hand[v].entry = e
    <3>1. CASE e = Work(w)
      <4>1. {h \in hash' : h.entry = e} = {Token(w)}
        BY <2>1, <2>5, <3>1
      <4>2. Previous(e)' = {hand[w].attempt}
        BY <4>1, <2>5 DEF Previous
      <4>3. hand[w].attempt + 1 <= deliveries'[stream[e].session]
        BY <3>1, <2>2, <2>3
      <4>4. QED
        BY <4>2, <4>3
    <3>2. CASE e # Work(w)
      <4>1. Previous(e)' = Previous(e)
        BY <3>2, <2>1, <2>5, PreviousStays
      <4>2. \/ \A b \in Previous(e) : b + 1 <= deliveries[stream[e].session]
            \/ \E v \in Workers : pc[v] = "issue" /\ hand[v].entry = e
        BY <2>6 DEF Earned, Work
      <4>3. CASE \E v \in Workers : pc[v] = "issue" /\ hand[v].entry = e
        <5>1. PICK v \in Workers : pc[v] = "issue" /\ hand[v].entry = e
          BY <4>3
        <5>2. v # w
          BY <5>1, <3>2 DEF Work
        <5>3. QED
          BY <5>1, <5>2, <2>1, <1>0
      <4>4. CASE \A b \in Previous(e) : b + 1 <= deliveries[stream[e].session]
        <5>1. \A b \in Previous(e) : b + 1 \in Nat
          BY PreviousAttempts
        <5>2. \A b \in Previous(e) : b + 1 <= deliveries'[stream[e].session]
          BY <4>4, <5>1, <2>4, <1>0
        <5>3. QED
          BY <5>2, <4>1
      <4>5. QED
        BY <4>2, <4>3, <4>4
    <3>3. QED
      BY <3>1, <3>2
  <2>7. ASSUME NEW e \in DOMAIN stream, e > cursor
        PROVE  stream[e].attempt <= deliveries'[stream[e].session]
    BY <2>7, <2>4, <1>0 DEF Earned
  <2>8. ASSUME NEW v \in Workers, pc'[v] # "poll"
        PROVE  /\ pc[v] # "poll" /\ hand[v].session \in Sessions
               /\ hand[v].attempt \in Nat /\ hand[v].attempt + 1 \in Nat
    <3>1. pc[v] # "poll"
      BY <2>1, <2>8, <1>0
    <3>2. QED
      BY <3>1, AtWork
  <2>9. ASSUME NEW v \in Workers, pc'[v] = "issue"
        PROVE  hand[v].attempt <= deliveries'[hand[v].session]
    <3>1. pc[v] = "issue"
      BY <2>1, <2>9, <1>0
    <3>2. QED
      BY <3>1, <2>4, <2>8, <2>9 DEF Earned
  <2>10. ASSUME NEW v \in Workers, pc'[v] = "bury"
         PROVE  Limit <= hand[v].attempt /\ hand[v].attempt <= deliveries'[hand[v].session]
    <3>1. pc[v] = "bury"
      BY <2>1, <2>10, <1>0
    <3>2. QED
      BY <3>1, <2>4, <2>8, <2>10 DEF Earned
  <2>11. ASSUME NEW v \in Workers, Late(pc'[v]), hand[v].verdict = "retry"
         PROVE  hand[v].attempt + 1 <= deliveries'[hand[v].session]
    <3>1. Late(pc[v])
      BY <2>1, <2>11, <1>0
    <3>2. hand[v].attempt + 1 <= deliveries[hand[v].session]
      BY <3>1, <2>11 DEF Earned, Removing
    <3>3. QED
      BY <3>2, <2>4, <2>8, <2>11
  <2>12. \A d \in dead' : Limit <= d.attempt /\ d.attempt <= deliveries'[d.session]
    BY <2>1, <2>4, <1>0 DEF Earned
  <2>13. QED
    BY <2>1, <2>6, <2>7, <2>9, <2>10, <2>11, <2>12 DEF Earned, Work, Removing
<1>15. ASSUME UNCHANGED <<stream, cursor, owner, hash, deliveries, pc, hand>>, dead' \subseteq dead
       PROVE  Earned'
  <2>1. \A e : Previous(e)' = Previous(e)
    BY <1>15, PreviousStays
  <2>2. QED
    BY <2>1, <1>15 DEF Earned, Work, Removing
<1>16. ASSUME RemoveDeadLetter \/ CutReplay PROVE Earned'
  BY <1>15, <1>16 DEF RemoveDeadLetter, CutReplay, redis, history
<1>17. ASSUME NEW e \in DOMAIN stream, Expire(e) PROVE Earned'
  BY <1>15, <1>17 DEF Expire, history
<1>18. ASSUME NEW w \in Workers, Cut(w) PROVE FALSE
  BY <1>18 DEF Cut, BudgetTypes
<1>19. QED
  BY <1>3, <1>4, <1>5, <1>6, <1>7, <1>8, <1>9, <1>11, <1>12, <1>13, <1>14, <1>16, <1>17,
     <1>18 DEF Next, Step

LEMMA InitBudget == Init => BudgetInv
<1> SUFFICES ASSUME Init PROVE BudgetInv
  OBVIOUS
<1> USE DEF Init
<1>1. Known
  <2>1. BudgetTypes
    BY DEF BudgetTypes
  <2>2. Tokens
    BY DEF Tokens
  <2>3. OnlySubmitted
    <3>1. stream = <<>> /\ dead = {} /\ deliveries = [s \in Sessions |-> 0]
      OBVIOUS
    <3>2. DOMAIN stream = {}
      BY <3>1
    <3>3. QED
      BY <3>1, <3>2 DEF OnlySubmitted
  <2>4. QED
    BY <2>1, <2>2, <2>3 DEF Known
<1>2. Exclusive
  BY DEF Exclusive, Removing
<1>3. Earned
  BY DEF Earned, Removing
<1>4. ASSUME NEW s \in Sessions
      PROVE  deliveries[s] + Cardinality(Credits(s)) <= Limit * (1 + replays[s])
  <2>1. Credits(s) = {}
    BY DEF Credits
  <2>2. Cardinality(Credits(s)) = 0
    BY <2>1, FS_EmptySet
  <2>3. deliveries[s] = 0 /\ replays[s] = 0
    OBVIOUS
  <2>4. QED
    BY <2>2, <2>3, LimitIsPositive
<1>5. QED
  BY <1>1, <1>2, <1>3, <1>4 DEF BudgetInv, Bound

LEMMA NextBudget ==
  ASSUME QueueInv, BudgetInv, [Next]_vars
  PROVE  BudgetInv'
<1>1. CASE Next
  <2>1. Known'
    BY <1>1, NextKnown DEF BudgetInv
  <2>2. raced \in BOOLEAN /\ faults \in Nat
    BY DEF BudgetInv, Known, BudgetTypes
  <2>3. raced => raced'
    BY <1>1 DEF Next, Step, Claim, ReadNew, Inspect, BuryReclaimed, Issue, Settle, Xack, Xdel, Hdel,
      AppendRetry, Cut, Expire, Enqueue, Replay, RemoveDeadLetter, CutReplay, history
  <2>4. faults' = 0 => faults = 0
    <3>1. faults' = faults \/ faults' = faults + 1
      BY <1>1 DEF Next, Step, Claim, ReadNew, Inspect, BuryReclaimed, Issue, Settle, Xack, Xdel, Hdel,
        AppendRetry, Cut, Expire, Enqueue, Replay, RemoveDeadLetter, CutReplay, history
    <3>2. QED
      BY <2>2, <3>1
  <2>5. ASSUME ~raced' PROVE Exclusive' /\ Bound' /\ (faults' = 0 => Earned')
    <3>1. Known /\ Exclusive /\ Bound /\ (faults = 0 => Earned)
      BY <2>3, <2>5 DEF BudgetInv
    <3>2. Exclusive' /\ Bound'
      BY <1>1, <2>5, <3>1, NextExclusive, NextBound
    <3>3. faults' = 0 => Earned'
      BY <1>1, <2>4, <2>5, <3>1, NextEarned
    <3>4. QED
      BY <3>2, <3>3
  <2>6. QED
    BY <2>1, <2>5 DEF BudgetInv
<1>2. CASE UNCHANGED vars
  <2>1. /\ UNCHANGED <<stream, cursor, owner, hash, dead, pc, hand, submitted, deliveries, replays>>
        /\ UNCHANGED <<raced, faults>>
    BY <1>2 DEF vars, redis, history
  <2>2. \A e : Previous(e)' = Previous(e)
    BY <2>1 DEF Previous
  <2>3. Known <=> Known'
    BY <2>1 DEF Known, BudgetTypes, Tokens, OnlySubmitted
  <2>4. Exclusive <=> Exclusive'
    BY <2>1 DEF Exclusive, Removing, Work, Token
  <2>5. Earned <=> Earned'
    BY <2>1, <2>2 DEF Earned, Removing, Work
  <2>6. \A s : Credits(s)' = Credits(s)
    BY <2>1, <2>2 DEF Credits, Credit, Unread, Issuing, Held, Retrying, Removing, Work
  <2>7. Bound <=> Bound'
    BY <2>1, <2>6 DEF Bound
  <2>8. QED
    BY <2>1, <2>3, <2>4, <2>5, <2>7 DEF BudgetInv
<1>3. QED
  BY <1>1, <1>2

(* The delivery budget of a stream: as long as no worker acts on an entry     *)
(* that another one has reclaimed, a session is delivered at most             *)
(* max_delivery_attempts times for each time it was enqueued or replayed;     *)
(* and with no operation cut short, it is a dead letter only after so many.   *)
THEOREM StreamBudgetHolds == Spec => []DeliveryBudget
<1>1. QueueInv /\ BudgetInv => DeliveryBudget
  <2> SUFFICES ASSUME QueueInv, BudgetInv, ~raced
               PROVE  /\ ExactlyNDeliveries
                      /\ faults = 0 =>
                           \A d \in dead : deliveries[d.session] >= MaxDeliveryAttempts
    BY DEF DeliveryBudget
  <2>1. Types /\ Known /\ Bound /\ (faults = 0 => Earned)
    BY DEF QueueInv, BudgetInv
  <2>2. ASSUME NEW s \in Sessions PROVE deliveries[s] <= MaxDeliveryAttempts * (1 + replays[s])
    <3>1. Cardinality(Credits(s)) \in Nat
      BY <2>1, CreditsAreFinite
    <3>2. deliveries[s] + Cardinality(Credits(s)) <= Limit * (1 + replays[s])
      BY <2>1 DEF Bound
    <3>3. deliveries[s] \in Nat /\ Limit * (1 + replays[s]) \in Nat
      BY <2>1, LimitIsPositive DEF Known, BudgetTypes
    <3>4. deliveries[s] <= Limit * (1 + replays[s])
      BY <3>1, <3>2, <3>3
    <3>5. QED
      BY <3>4 DEF Limit
  <2>3. ASSUME faults = 0, NEW d \in dead PROVE deliveries[d.session] >= MaxDeliveryAttempts
    <3>1. Limit <= d.attempt /\ d.attempt <= deliveries[d.session]
      BY <2>1, <2>3 DEF Earned
    <3>2. d.attempt \in Nat /\ deliveries[d.session] \in Nat /\ Limit \in Nat
      BY <2>1, LimitIsPositive DEF Types, Known, BudgetTypes
    <3>3. QED
      BY <3>1, <3>2 DEF Limit
  <2>4. QED
    BY <2>2, <2>3 DEF ExactlyNDeliveries
<1>2. QueueInv /\ BudgetInv /\ [Next]_vars => BudgetInv'
  BY NextBudget
<1>3. QED
  BY QueueInvariant, InitBudget, <1>1, <1>2, PTL DEF Spec

------------------------------------------------------------------------------
(* The queue in memory (InMemoryQueue) *)

Message == [session : Jobs, attempt : Nat]

TaskTypes ==
  /\ task \in [Tasks -> {"poll", "run", "put", "gone"}]
  /\ held \in [Tasks -> Message \cup {NoMessage}]
  /\ \A t \in Tasks : task[t] \in {"run", "put"} => held[t] \in Message

MemoryTypes ==
  /\ queue \in Seq(Message)
  /\ flight \subseteq Message /\ late \subseteq flight /\ letters \subseteq Message
  /\ TaskTypes
  /\ enqueued \subseteq Jobs /\ delivered \in [Jobs -> Nat] /\ cancels \in Nat

(* the places where a session may be                                          *)
Queued(s) == \E i \in 1..Len(queue) : queue[i].session = s
Flying(s) == \E m \in flight : m.session = s
Lettered(s) == \E m \in letters : m.session = s
Puts(t, s) == t \in Tasks /\ task[t] = "put" /\ held[t].session = s
Putting(s) == \E t \in Tasks : Puts(t, s)
Spent(s) == s \in acked \cup dropped \cup cancelled

(* It is in one of them, once.                                                *)
Apart ==
  /\ \A s \in Jobs : s \in enqueued <=>
       Queued(s) \/ Flying(s) \/ Lettered(s) \/ Putting(s) \/ Spent(s)
  /\ \A s \in Jobs :
       /\ Queued(s) => ~Flying(s) /\ ~Lettered(s) /\ ~Putting(s) /\ ~Spent(s)
       /\ Flying(s) => ~Lettered(s) /\ ~Putting(s) /\ ~Spent(s)
       /\ Lettered(s) => ~Putting(s) /\ ~Spent(s)
       /\ Putting(s) => ~Spent(s)
       /\ s \in acked => s \notin dropped /\ s \notin cancelled
       /\ s \in dropped => s \notin cancelled

Once ==
  /\ \A i, j \in 1..Len(queue) : queue[i].session = queue[j].session => i = j
  /\ \A m, n \in flight : m.session = n.session => m = n
  /\ \A m, n \in letters : m.session = n.session => m = n
  /\ \A t, u \in Tasks, s \in Jobs : Puts(t, s) /\ Puts(u, s) => t = u

(* What has been delivered of a session is told by the message wherever it is. *)
BudgetTold ==
  /\ \A s \in Jobs : delivered[s] <= DeliveryLimit /\ (s \notin enqueued => delivered[s] = 0)
  /\ \A i \in 1..Len(queue) :
       queue[i].attempt = delivered[queue[i].session] /\ queue[i].attempt < DeliveryLimit
  /\ \A m \in flight : delivered[m.session] = m.attempt + 1 /\ m.attempt < DeliveryLimit
  /\ \A m \in letters : delivered[m.session] = DeliveryLimit
  /\ \A t \in Tasks : task[t] = "put" =>
       held[t].attempt = delivered[held[t].session] /\ held[t].attempt < DeliveryLimit

Causes == (dropped # {} => closed) /\ (cancelled # {} => cancels > 0)

MemoryInv == MemoryTypes /\ Apart /\ Once /\ BudgetTold /\ Causes

LEMMA InitMemory == MemoryInit => MemoryInv
<1> SUFFICES ASSUME MemoryInit PROVE MemoryInv
  OBVIOUS
<1> USE MemoryAssumption DEF MemoryInit, NoMessage
<1>1. MemoryTypes
  BY DEF MemoryTypes, TaskTypes
<1>2. Len(queue) = 0 /\ Once /\ Causes
  BY DEF Once, Causes, Puts
<1>3. Apart
  BY <1>2 DEF Apart, Queued, Flying, Lettered, Putting, Puts, Spent
<1>4. BudgetTold
  BY <1>2 DEF BudgetTold
<1>5. QED
  BY <1>1, <1>2, <1>3, <1>4 DEF MemoryInv

(* A task takes up something else.                                            *)
LEMMA TaskMoves ==
  ASSUME TaskTypes, NEW t \in Tasks, NEW to \in {"poll", "run", "put", "gone"},
         NEW m \in Message \cup {NoMessage}, to \in {"run", "put"} => m \in Message, Move(t, to, m)
  PROVE  /\ TaskTypes' /\ task'[t] = to /\ held'[t] = m
         /\ \A u \in Tasks : u # t => task'[u] = task[u] /\ held'[u] = held[u]
         /\ \A u \in Tasks, s \in Jobs :
              Puts(u, s)' <=> (u # t /\ Puts(u, s)) \/ (u = t /\ to = "put" /\ m.session = s)
<1>1. /\ task'[t] = to /\ held'[t] = m
      /\ \A u \in Tasks : u # t => task'[u] = task[u] /\ held'[u] = held[u]
      /\ TaskTypes'
  BY DEF TaskTypes, Move
<1>2. QED
  BY <1>1 DEF Puts

LEMMA TaskPolls ==
  ASSUME TaskTypes, NEW t \in Tasks, Poll(t)
  PROVE  /\ TaskTypes' /\ task'[t] # "put"
         /\ \A u \in Tasks : u # t => task'[u] = task[u] /\ held'[u] = held[u]
         /\ \A u \in Tasks, s \in Jobs : Puts(u, s)' <=> u # t /\ Puts(u, s)
<1>1. PICK to \in {"poll", "gone"} : Move(t, to, NoMessage)
  BY DEF Poll
<1>2. QED
  BY <1>1, TaskMoves

(* A message in flight is in no other place, and neither is one that is put.   *)
LEMMA FlightApart ==
  ASSUME MemoryInv, NEW m \in flight
  PROVE  /\ m \in Message /\ m.session \in enqueued /\ Flying(m.session)
         /\ ~Queued(m.session) /\ ~Lettered(m.session) /\ ~Putting(m.session) /\ ~Spent(m.session)
         /\ delivered[m.session] = m.attempt + 1 /\ m.attempt < DeliveryLimit
<1>1. m \in Message /\ Flying(m.session)
  BY DEF MemoryInv, MemoryTypes, Flying
<1>2. m.session \in Jobs
  BY <1>1 DEF Message
<1>3. QED
  BY <1>1, <1>2 DEF MemoryInv, Apart, BudgetTold

LEMMA PutApart ==
  ASSUME MemoryInv, NEW t \in Tasks, task[t] = "put"
  PROVE  /\ held[t] \in Message /\ held[t].session \in enqueued /\ Putting(held[t].session)
         /\ ~Queued(held[t].session) /\ ~Flying(held[t].session)
         /\ ~Lettered(held[t].session) /\ ~Spent(held[t].session)
         /\ held[t].attempt = delivered[held[t].session] /\ held[t].attempt < DeliveryLimit
         /\ \A s \in Jobs : Putting(s) /\ s # held[t].session <=> \E u \in Tasks : u # t /\ Puts(u, s)
<1>1. held[t] \in Message /\ Puts(t, held[t].session)
  BY DEF MemoryInv, MemoryTypes, TaskTypes, Puts
<1>2. held[t].session \in Jobs /\ Putting(held[t].session)
  BY <1>1 DEF Message, Putting
<1>3. ASSUME NEW s \in Jobs
      PROVE  Putting(s) /\ s # held[t].session <=> \E u \in Tasks : u # t /\ Puts(u, s)
  <2>1. ASSUME NEW u \in Tasks, Puts(u, s), s # held[t].session PROVE u # t
    BY <2>1 DEF Puts
  <2>2. ASSUME NEW u \in Tasks, Puts(u, s), u # t PROVE s # held[t].session
    BY <1>1, <1>2, <2>2 DEF MemoryInv, Once
  <2>3. QED
    BY <2>1, <2>2 DEF Putting
<1>4. QED
  BY <1>1, <1>2, <1>3 DEF MemoryInv, Apart, BudgetTold

(* A message leaves the flight.                                               *)
LEMMA Popped ==
  ASSUME MemoryInv, NEW m \in flight, Pop(m)
  PROVE  /\ flight' \subseteq flight /\ late' \subseteq flight'
         /\ \A s \in Jobs : Flying(s)' <=> Flying(s) /\ s # m.session
<1>1. flight' = flight \ {m} /\ late' = late \ {m}
  BY DEF Pop
<1>2. ASSUME NEW s \in Jobs PROVE Flying(s)' <=> Flying(s) /\ s # m.session
  BY <1>1 DEF Flying, MemoryInv, Once
<1>3. QED
  BY <1>1, <1>2 DEF MemoryInv, MemoryTypes

(* nack and the sweep: the message in flight becomes a dead letter, the next   *)
(* attempt that the task is about to put, or is dropped.                      *)
LEMMA RetryKeeps ==
  ASSUME MemoryInv, NEW t \in Tasks, task[t] # "put", NEW m \in flight, Pop(m), RetryMessage(t, m),
         UNCHANGED <<queue, closed, enqueued, acked, cancelled, delivered, cancels>>
  PROVE  MemoryInv'
<1> DEFINE s0 == m.session
           next == [session |-> s0, attempt |-> m.attempt + 1]
<1>1. /\ m \in Message /\ s0 \in Jobs /\ s0 \in enqueued /\ Flying(s0)
      /\ ~Queued(s0) /\ ~Lettered(s0) /\ ~Putting(s0) /\ ~Spent(s0)
      /\ delivered[s0] = m.attempt + 1 /\ m.attempt < DeliveryLimit
  BY FlightApart DEF Message
<1>2. /\ flight' \subseteq flight /\ late' \subseteq flight'
      /\ \A s \in Jobs : Flying(s)' <=> Flying(s) /\ s # s0
  BY Popped
<1>3. next \in Message /\ next.session = s0 /\ next.attempt = delivered[s0]
      /\ next = [m EXCEPT !.attempt = @ + 1]
  BY <1>1 DEF Message
<1>4. /\ \A s \in Jobs : Queued(s)' <=> Queued(s)
      /\ \A s \in Jobs : \A u \in Tasks : Puts(u, s) => u # t
  BY DEF Queued, Puts
<1>5. /\ MemoryTypes /\ Apart /\ Once /\ BudgetTold /\ Causes
  BY DEF MemoryInv
<1> HIDE DEF next
<1>6. CASE closed /\ dropped' = dropped \cup {s0} /\ Poll(t) /\ UNCHANGED letters
  <2>1. /\ TaskTypes' /\ \A s \in Jobs : Putting(s)' <=> Putting(s)
        /\ \A u \in Tasks : task'[u] = "put" => task[u] = "put" /\ held'[u] = held[u]
        /\ \A u \in Tasks, s \in Jobs : Puts(u, s)' => Puts(u, s)
    BY <1>4, <1>5, <1>6, TaskPolls DEF Putting, MemoryTypes
  <2>2. \A s \in Jobs : /\ Lettered(s)' <=> Lettered(s)
                        /\ Spent(s)' <=> Spent(s) \/ s = s0
    BY <1>6 DEF Lettered, Spent
  <2>3. MemoryTypes'
    BY <1>2, <1>5, <1>6, <2>1 DEF MemoryTypes
  <2>4. Apart'
    BY <1>1, <1>2, <1>4, <1>5, <1>6, <2>1, <2>2 DEF Apart, Spent
  <2>5. Once'
    BY <1>2, <1>5, <1>6, <2>1 DEF Once
  <2>6. BudgetTold'
    BY <1>2, <1>5, <1>6, <2>1 DEF BudgetTold
  <2>7. QED
    BY <1>5, <1>6, <2>3, <2>4, <2>5, <2>6 DEF MemoryInv, Causes
<1>7. CASE /\ ~closed /\ ExceedsBudget(next.attempt) /\ letters' = letters \cup {next}
           /\ Poll(t) /\ UNCHANGED dropped
  <2>1. /\ TaskTypes' /\ \A s \in Jobs : Putting(s)' <=> Putting(s)
        /\ \A u \in Tasks : task'[u] = "put" => task[u] = "put" /\ held'[u] = held[u]
        /\ \A u \in Tasks, s \in Jobs : Puts(u, s)' => Puts(u, s)
    BY <1>4, <1>5, <1>7, TaskPolls DEF Putting, MemoryTypes
  <2>2. \A s \in Jobs : /\ Lettered(s)' <=> Lettered(s) \/ s = s0
                        /\ Spent(s)' <=> Spent(s)
    BY <1>3, <1>7 DEF Lettered, Spent
  <2>3. MemoryTypes'
    BY <1>2, <1>3, <1>5, <1>7, <2>1 DEF MemoryTypes
  <2>4. Apart'
    BY <1>1, <1>2, <1>4, <1>5, <1>7, <2>1, <2>2 DEF Apart
  <2>5. Once'
    <3>1. \A n \in letters : n.session # s0
      BY <1>1 DEF Lettered
    <3>2. \A n, o \in letters' : n.session = o.session => n = o
      <4>1. \A n, o \in letters : n.session = o.session => n = o
        BY <1>5 DEF Once
      <4>2. \A n \in letters' : n \in letters \/ n = next
        BY <1>7
      <4>3. next.session = s0
        BY <1>3
      <4>4. QED
        BY <3>1, <4>1, <4>2, <4>3
    <3>3. \A n, o \in flight' : n.session = o.session => n = o
      BY <1>2, <1>5 DEF Once
    <3>4. \A u, v \in Tasks, s \in Jobs : Puts(u, s)' /\ Puts(v, s)' => u = v
      BY <1>5, <2>1 DEF Once
    <3>5. QED
      BY <1>5, <3>2, <3>3, <3>4 DEF Once
  <2>6. BudgetTold'
    <3>1. delivered[s0] = DeliveryLimit
      BY <1>1, <1>3, <1>7, MemoryAssumption DEF ExceedsBudget, Message
    <3>2. QED
      BY <1>2, <1>3, <1>5, <1>7, <2>1, <3>1 DEF BudgetTold
  <2>7. QED
    BY <1>5, <1>7, <2>3, <2>4, <2>5, <2>6 DEF MemoryInv, Causes
<1>8. CASE /\ ~closed /\ ~ExceedsBudget(next.attempt) /\ Move(t, "put", next)
           /\ UNCHANGED <<letters, dropped>>
  <2>1. /\ TaskTypes' /\ task'[t] = "put" /\ held'[t] = next
        /\ \A u \in Tasks : u # t => task'[u] = task[u] /\ held'[u] = held[u]
        /\ \A u \in Tasks, s \in Jobs : Puts(u, s)' <=> (u # t /\ Puts(u, s)) \/ (u = t /\ s = s0)
    <3>1. TaskTypes /\ next \in Message \cup {NoMessage} /\ Move(t, "put", next)
      BY <1>3, <1>5, <1>8 DEF MemoryTypes
    <3>2. PICK to \in {"poll", "run", "put", "gone"} : to = "put"
      OBVIOUS
    <3>3. /\ TaskTypes' /\ task'[t] = to /\ held'[t] = next
          /\ \A u \in Tasks : u # t => task'[u] = task[u] /\ held'[u] = held[u]
          /\ \A u \in Tasks, s \in Jobs :
               Puts(u, s)' <=> (u # t /\ Puts(u, s)) \/ (u = t /\ to = "put" /\ next.session = s)
      <4>1. Move(t, to, next) /\ (to \in {"run", "put"} => next \in Message)
        BY <1>3, <3>1, <3>2
      <4>2. QED
        BY <3>1, <3>2, <4>1, TaskMoves
    <3>4. QED
      BY <1>3, <3>2, <3>3
  <2>2. \A s \in Jobs : /\ Putting(s)' <=> Putting(s) \/ s = s0
                        /\ Lettered(s)' <=> Lettered(s)
                        /\ Spent(s)' <=> Spent(s)
    BY <1>4, <1>8, <2>1 DEF Putting, Lettered, Spent
  <2>3. MemoryTypes'
    BY <1>2, <1>5, <1>8, <2>1 DEF MemoryTypes
  <2>4. Apart'
    BY <1>1, <1>2, <1>4, <1>5, <1>8, <2>2 DEF Apart
  <2>5. Once'
    <3>1. \A u \in Tasks : ~Puts(u, s0)
      BY <1>1 DEF Putting
    <3>2. QED
      BY <1>2, <1>5, <1>8, <2>1, <3>1 DEF Once
  <2>6. BudgetTold'
    <3>1. next.attempt < DeliveryLimit
      BY <1>1, <1>3, <1>8, MemoryAssumption DEF ExceedsBudget, Message
    <3>2. QED
      BY <1>2, <1>3, <1>5, <1>8, <2>1, <3>1 DEF BudgetTold
  <2>7. QED
    BY <1>5, <1>8, <2>3, <2>4, <2>5, <2>6 DEF MemoryInv, Causes
<1>9. QED
  BY <1>3, <1>6, <1>7, <1>8 DEF RetryMessage

LEMMA ExpiredKeeps ==
  ASSUME MemoryInv, NEW t \in Tasks, RedeliverExpired(t)
  PROVE  MemoryInv'
<1>1. PICK m \in late : Pop(m) /\ RetryMessage(t, m)
  BY DEF RedeliverExpired, Overdue
<1>2. m \in flight /\ task[t] # "put"
  BY DEF MemoryInv, MemoryTypes, RedeliverExpired
<1>3. QED
  BY <1>1, <1>2, RetryKeeps DEF RedeliverExpired

LEMMA NackKeeps ==
  ASSUME MemoryInv, NEW t \in Tasks, NackMessage(t)
  PROVE  MemoryInv'
<1>1. held[t] \in flight /\ task[t] # "put"
  BY DEF NackMessage, InFlight
<1>2. QED
  BY <1>1, RetryKeeps DEF NackMessage

LEMMA EnqueueKeeps ==
  ASSUME MemoryInv, NEW j \in Jobs, EnqueueMessage(j)
  PROVE  MemoryInv'
<1> DEFINE m == [session |-> j, attempt |-> 0]
<1>1. /\ j \notin enqueued /\ queue' = Append(queue, m) /\ enqueued' = enqueued \cup {j}
      /\ UNCHANGED <<flight, late, letters, task, held, closed, acked, dropped, cancelled>>
      /\ UNCHANGED <<delivered, cancels>>
  BY DEF EnqueueMessage
<1>2. m \in Message /\ m.session = j /\ m.attempt = 0
  BY DEF Message
<1> HIDE DEF m
<1>3. MemoryTypes /\ Apart /\ Once /\ BudgetTold /\ Causes /\ Len(queue) \in Nat
  BY DEF MemoryInv, MemoryTypes
<1>4. /\ Len(queue') = Len(queue) + 1 /\ queue'[Len(queue) + 1] = m
      /\ \A i \in 1..Len(queue) : queue'[i] = queue[i]
      /\ queue' \in Seq(Message)
  BY <1>1, <1>2, <1>3 DEF MemoryTypes
<1>5. \A i \in 1..Len(queue') : i \in 1..Len(queue) \/ i = Len(queue) + 1
  BY <1>3, <1>4
<1>6. ~Queued(j) /\ ~Flying(j) /\ ~Lettered(j) /\ ~Putting(j) /\ ~Spent(j) /\ delivered[j] = 0
  BY <1>1, <1>3 DEF Apart, BudgetTold
<1>7. \A s \in Jobs : Queued(s)' <=> Queued(s) \/ s = j
  <2>1. ASSUME NEW s \in Jobs, NEW i \in 1..Len(queue'), queue'[i].session = s
        PROVE  Queued(s) \/ s = j
    BY <1>2, <1>4, <1>5, <2>1 DEF Queued
  <2>2. ASSUME NEW s \in Jobs, NEW i \in 1..Len(queue), queue[i].session = s PROVE Queued(s)'
    <3>1. i \in 1..Len(queue') /\ queue'[i].session = s
      BY <1>3, <1>4, <2>2
    <3>2. QED
      BY <3>1 DEF Queued
  <2>3. Queued(j)'
    <3>1. Len(queue) + 1 \in 1..Len(queue')
      BY <1>3, <1>4
    <3>2. QED
      BY <1>2, <1>4, <3>1 DEF Queued
  <2>4. QED
    BY <2>1, <2>2, <2>3 DEF Queued
<1>8. \A s \in Jobs : /\ Flying(s)' <=> Flying(s)
                      /\ Lettered(s)' <=> Lettered(s)
                      /\ Putting(s)' <=> Putting(s)
                      /\ Spent(s)' <=> Spent(s)
  BY <1>1 DEF Flying, Lettered, Putting, Puts, Spent
<1>9. MemoryTypes' /\ Causes'
  BY <1>1, <1>3, <1>4 DEF MemoryTypes, TaskTypes, Causes
<1>10. Apart'
  BY <1>1, <1>3, <1>6, <1>7, <1>8 DEF Apart
<1>11. Once'
  <2>1. \A i \in 1..Len(queue) : queue[i].session # j
    BY <1>6 DEF Queued
  <2>2. \A h, i \in 1..Len(queue') : queue'[h].session = queue'[i].session => h = i
    BY <1>2, <1>3, <1>4, <1>5, <2>1 DEF Once
  <2>3. QED
    BY <1>1, <1>3, <2>2 DEF Once, Puts
<1>12. BudgetTold'
  <2>1. \A i \in 1..Len(queue') :
          queue'[i].attempt = delivered[queue'[i].session] /\ queue'[i].attempt < DeliveryLimit
    BY <1>2, <1>3, <1>4, <1>5, <1>6, MemoryAssumption DEF BudgetTold
  <2>2. QED
    BY <1>1, <1>3, <2>1 DEF BudgetTold
<1>13. QED
  BY <1>9, <1>10, <1>11, <1>12 DEF MemoryInv

LEMMA PutKeeps ==
  ASSUME MemoryInv, NEW t \in Tasks, PutMessage(t)
  PROVE  MemoryInv'
<1> DEFINE m == held[t]
           j == m.session
<1>1. /\ task[t] = "put" /\ queue' = Append(queue, m) /\ Poll(t)
      /\ UNCHANGED <<flight, late, letters, closed, enqueued, acked, dropped, cancelled>>
      /\ UNCHANGED <<delivered, cancels>>
  BY DEF PutMessage, counts
<1>2. /\ m \in Message /\ j \in Jobs /\ j \in enqueued /\ Putting(j)
      /\ ~Queued(j) /\ ~Flying(j) /\ ~Lettered(j) /\ ~Spent(j)
      /\ m.attempt = delivered[j] /\ m.attempt < DeliveryLimit
      /\ \A s \in Jobs : Putting(s) /\ s # j <=> \E u \in Tasks : u # t /\ Puts(u, s)
  BY <1>1, PutApart DEF Message
<1> HIDE DEF m
<1>3. MemoryTypes /\ Apart /\ Once /\ BudgetTold /\ Causes /\ Len(queue) \in Nat
  BY DEF MemoryInv, MemoryTypes
<1>4. /\ Len(queue') = Len(queue) + 1 /\ queue'[Len(queue) + 1] = m
      /\ \A i \in 1..Len(queue) : queue'[i] = queue[i]
      /\ queue' \in Seq(Message)
  BY <1>1, <1>2, <1>3 DEF MemoryTypes
<1>5. \A i \in 1..Len(queue') : i \in 1..Len(queue) \/ i = Len(queue) + 1
  BY <1>3, <1>4
<1>6. /\ TaskTypes' /\ task'[t] # "put"
      /\ \A u \in Tasks : u # t => task'[u] = task[u] /\ held'[u] = held[u]
      /\ \A u \in Tasks, s \in Jobs : Puts(u, s)' <=> u # t /\ Puts(u, s)
  BY <1>1, <1>3, TaskPolls DEF MemoryTypes
<1>7. \A s \in Jobs : Queued(s)' <=> Queued(s) \/ s = j
  <2>1. ASSUME NEW s \in Jobs, NEW i \in 1..Len(queue'), queue'[i].session = s
        PROVE  Queued(s) \/ s = j
    BY <1>4, <1>5, <2>1 DEF Queued
  <2>2. ASSUME NEW s \in Jobs, NEW i \in 1..Len(queue), queue[i].session = s PROVE Queued(s)'
    <3>1. i \in 1..Len(queue') /\ queue'[i].session = s
      BY <1>3, <1>4, <2>2
    <3>2. QED
      BY <3>1 DEF Queued
  <2>3. ASSUME NEW s \in Jobs, s = j PROVE Queued(s)'
    <3>1. Len(queue) + 1 \in 1..Len(queue')
      BY <1>3, <1>4
    <3>2. QED
      BY <1>4, <2>3, <3>1 DEF Queued
  <2>4. QED
    BY <2>1, <2>2, <2>3 DEF Queued
<1>8. \A s \in Jobs : /\ Flying(s)' <=> Flying(s)
                      /\ Lettered(s)' <=> Lettered(s)
                      /\ Putting(s)' <=> Putting(s) /\ s # j
                      /\ Spent(s)' <=> Spent(s)
  <2>1. ASSUME NEW s \in Jobs PROVE Putting(s)' <=> Putting(s) /\ s # j
    BY <1>2, <1>6 DEF Putting
  <2>2. QED
    BY <1>1, <2>1 DEF Flying, Lettered, Spent
<1>9. MemoryTypes' /\ Causes'
  BY <1>1, <1>3, <1>4, <1>6 DEF MemoryTypes, Causes
<1>10. Apart'
  BY <1>1, <1>2, <1>3, <1>7, <1>8 DEF Apart
<1>11. Once'
  <2>1. \A i \in 1..Len(queue) : queue[i].session # j
    BY <1>2 DEF Queued
  <2>2. \A h, i \in 1..Len(queue') : queue'[h].session = queue'[i].session => h = i
    BY <1>3, <1>4, <1>5, <2>1 DEF Once
  <2>3. \A u, v \in Tasks, s \in Jobs : Puts(u, s)' /\ Puts(v, s)' => u = v
    BY <1>3, <1>6 DEF Once
  <2>4. QED
    BY <1>1, <1>3, <2>2, <2>3 DEF Once
<1>12. BudgetTold'
  <2>1. \A i \in 1..Len(queue') :
          queue'[i].attempt = delivered[queue'[i].session] /\ queue'[i].attempt < DeliveryLimit
    BY <1>2, <1>3, <1>4, <1>5 DEF BudgetTold
  <2>2. \A u \in Tasks : task'[u] = "put" => task[u] = "put" /\ held'[u] = held[u]
    BY <1>6
  <2>3. QED
    BY <1>1, <1>3, <2>1, <2>2 DEF BudgetTold
<1>13. QED
  BY <1>9, <1>10, <1>11, <1>12 DEF MemoryInv

LEMMA GetKeeps ==
  ASSUME MemoryInv, NEW w \in Tasks, Get(w)
  PROVE  MemoryInv'
<1>1. PICK m : m = Head(queue)
  OBVIOUS
<1>2. MemoryTypes /\ Apart /\ Once /\ BudgetTold /\ Causes /\ Len(queue) \in Nat
  BY DEF MemoryInv, MemoryTypes
<1>3. /\ task[w] = "poll" /\ queue # <<>> /\ queue' = Tail(queue) /\ flight' = flight \cup {m}
      /\ Move(w, "run", m) /\ delivered' = [delivered EXCEPT ![m.session] = @ + 1]
      /\ UNCHANGED <<late, letters, closed, enqueued, acked, dropped, cancelled, cancels>>
  BY <1>1 DEF Get
<1>4. 1 \in 1..Len(queue) /\ queue[1] = m /\ m \in Message
  BY <1>1, <1>2, <1>3 DEF MemoryTypes
<1>5. /\ queue' \in Seq(Message) /\ Len(queue') = Len(queue) - 1
      /\ \A i \in 1..Len(queue') : i + 1 \in 1..Len(queue) /\ queue'[i] = queue[i + 1]
  BY <1>2, <1>3 DEF MemoryTypes
<1>6. PICK j \in Jobs : j = m.session
  BY <1>4 DEF Message
<1>7. \A i \in 1..Len(queue) : queue[i].session = j <=> i = 1
  BY <1>2, <1>4, <1>6 DEF Once
<1>8. /\ Queued(j) /\ j \in enqueued /\ ~Flying(j) /\ ~Lettered(j) /\ ~Putting(j) /\ ~Spent(j)
      /\ m.attempt = delivered[j] /\ m.attempt < DeliveryLimit
  <2>1. Queued(j)
    BY <1>4, <1>6 DEF Queued
  <2>2. j \in enqueued /\ ~Flying(j) /\ ~Lettered(j) /\ ~Putting(j) /\ ~Spent(j)
    BY <1>2, <2>1 DEF Apart
  <2>3. queue[1].attempt = delivered[queue[1].session] /\ queue[1].attempt < DeliveryLimit
    BY <1>2, <1>4 DEF BudgetTold
  <2>4. QED
    BY <1>4, <1>6, <2>1, <2>2, <2>3
<1>9. /\ TaskTypes' /\ task'[w] = "run"
      /\ \A u \in Tasks : u # w => task'[u] = task[u] /\ held'[u] = held[u]
      /\ \A u \in Tasks, s \in Jobs : Puts(u, s)' <=> u # w /\ Puts(u, s)
  <2>1. PICK to \in {"poll", "run", "put", "gone"} : to = "run"
    OBVIOUS
  <2>2. TaskTypes /\ m \in Message \cup {NoMessage} /\ Move(w, to, m)
    BY <1>2, <1>3, <1>4, <2>1 DEF MemoryTypes
  <2>3. /\ TaskTypes' /\ task'[w] = to
        /\ \A u \in Tasks : u # w => task'[u] = task[u] /\ held'[u] = held[u]
        /\ \A u \in Tasks, s \in Jobs :
             Puts(u, s)' <=> (u # w /\ Puts(u, s)) \/ (u = w /\ to = "put" /\ m.session = s)
    BY <1>4, <2>1, <2>2, TaskMoves
  <2>4. QED
    BY <2>1, <2>3
<1>10. \A s \in Jobs : Queued(s)' <=> Queued(s) /\ s # j
  <2>1. ASSUME NEW s \in Jobs, NEW i \in 1..Len(queue'), queue'[i].session = s
        PROVE  Queued(s) /\ s # j
    <3>1. i + 1 \in 1..Len(queue) /\ queue[i + 1].session = s /\ i + 1 # 1
      BY <1>2, <1>5, <2>1
    <3>2. QED
      BY <1>7, <3>1 DEF Queued
  <2>2. ASSUME NEW s \in Jobs, NEW i \in 1..Len(queue), queue[i].session = s, s # j
        PROVE  Queued(s)'
    <3>1. i - 1 \in 1..Len(queue') /\ queue'[i - 1].session = s
      BY <1>2, <1>4, <1>5, <1>6, <2>2
    <3>2. QED
      BY <3>1 DEF Queued
  <2>3. QED
    BY <2>1, <2>2 DEF Queued
<1>11. \A s \in Jobs : /\ Flying(s)' <=> Flying(s) \/ s = j
                       /\ Lettered(s)' <=> Lettered(s)
                       /\ Putting(s)' <=> Putting(s)
                       /\ Spent(s)' <=> Spent(s)
  <2>1. ASSUME NEW s \in Jobs PROVE Putting(s)' <=> Putting(s)
    BY <1>3, <1>9 DEF Putting, Puts
  <2>2. ASSUME NEW s \in Jobs PROVE Flying(s)' <=> Flying(s) \/ s = j
    BY <1>3, <1>6 DEF Flying
  <2>3. QED
    BY <1>3, <2>1, <2>2 DEF Lettered, Spent
<1>12. /\ delivered' \in [Jobs -> Nat] /\ delivered'[j] = m.attempt + 1
       /\ \A s \in Jobs : s # j => delivered'[s] = delivered[s]
  BY <1>2, <1>3, <1>6, <1>8 DEF MemoryTypes
<1>13. MemoryTypes' /\ Causes'
  BY <1>2, <1>3, <1>4, <1>5, <1>9, <1>12 DEF MemoryTypes, Causes
<1>14. Apart'
  BY <1>2, <1>3, <1>8, <1>10, <1>11 DEF Apart
<1>15. Once'
  <2>1. \A h, i \in 1..Len(queue') : queue'[h].session = queue'[i].session => h = i
    <3>1. \A h, i \in 1..Len(queue) : queue[h].session = queue[i].session => h = i
      BY <1>2 DEF Once
    <3>2. SUFFICES ASSUME NEW h \in 1..Len(queue'), NEW i \in 1..Len(queue'),
                          queue'[h].session = queue'[i].session
                   PROVE  h = i
      OBVIOUS
    <3>3. h + 1 = i + 1
      BY <1>5, <3>1, <3>2
    <3>4. QED
      BY <1>5, <3>3
  <2>2. \A n, o \in flight' : n.session = o.session => n = o
    <3>1. \A n \in flight : n.session # m.session
      BY <1>6, <1>8 DEF Flying
    <3>2. \A n, o \in flight : n.session = o.session => n = o
      BY <1>2 DEF Once
    <3>3. \A n \in flight' : n \in flight \/ n = m
      BY <1>3
    <3>4. QED
      BY <3>1, <3>2, <3>3
  <2>3. \A u, v \in Tasks, s \in Jobs : Puts(u, s)' /\ Puts(v, s)' => u = v
    BY <1>2, <1>9 DEF Once
  <2>4. QED
    BY <1>2, <1>3, <2>1, <2>2, <2>3 DEF Once
<1>16. BudgetTold'
  <2>1. \A i \in 1..Len(queue') :
          queue'[i].attempt = delivered'[queue'[i].session] /\ queue'[i].attempt < DeliveryLimit
    <3>1. SUFFICES ASSUME NEW i \in 1..Len(queue')
                   PROVE  /\ queue'[i].attempt = delivered'[queue'[i].session]
                          /\ queue'[i].attempt < DeliveryLimit
      OBVIOUS
    <3>2. i + 1 \in 1..Len(queue) /\ queue'[i] = queue[i + 1] /\ i + 1 # 1
      BY <1>5
    <3>3. queue[i + 1].session \in Jobs /\ queue[i + 1].session # j
      <4>1. queue[i + 1] \in Message
        BY <1>2, <3>2 DEF MemoryTypes
      <4>2. queue[i + 1].session # j
        BY <1>7, <3>2
      <4>3. QED
        BY <4>1, <4>2 DEF Message
    <3>4. /\ queue[i + 1].attempt = delivered[queue[i + 1].session]
          /\ queue[i + 1].attempt < DeliveryLimit
      BY <1>2, <3>2 DEF BudgetTold
    <3>5. delivered'[queue[i + 1].session] = delivered[queue[i + 1].session]
      BY <1>12, <3>3
    <3>6. QED
      BY <3>2, <3>4, <3>5
  <2>2. \A n \in flight' : delivered'[n.session] = n.attempt + 1 /\ n.attempt < DeliveryLimit
    <3>1. \A n \in flight : n.session \in Jobs /\ n.session # j
      BY <1>2, <1>8 DEF Flying, MemoryTypes, Message
    <3>2. \A n \in flight' : n \in flight \/ n = m
      BY <1>3
    <3>3. \A n \in flight : delivered[n.session] = n.attempt + 1 /\ n.attempt < DeliveryLimit
      BY <1>2 DEF BudgetTold
    <3>4. QED
      BY <1>6, <1>8, <1>12, <3>1, <3>2, <3>3
  <2>3. \A n \in letters' : delivered'[n.session] = DeliveryLimit
    BY <1>2, <1>3, <1>8, <1>12 DEF BudgetTold, Lettered, MemoryTypes, Message
  <2>4. \A u \in Tasks : task'[u] = "put" =>
          held'[u].attempt = delivered'[held'[u].session] /\ held'[u].attempt < DeliveryLimit
    <3>1. SUFFICES ASSUME NEW u \in Tasks, task'[u] = "put"
                   PROVE  /\ held'[u].attempt = delivered'[held'[u].session]
                          /\ held'[u].attempt < DeliveryLimit
      OBVIOUS
    <3>2. task[u] = "put" /\ held'[u] = held[u] /\ held[u].session \in Jobs
      BY <1>2, <1>9, <3>1 DEF MemoryTypes, TaskTypes, Message
    <3>3. held[u].session # j
      BY <1>8, <3>2 DEF Putting, Puts
    <3>4. QED
      BY <1>2, <1>12, <3>2, <3>3 DEF BudgetTold
  <2>5. \A s \in Jobs : delivered'[s] <= DeliveryLimit /\ (s \notin enqueued' => delivered'[s] = 0)
    BY <1>2, <1>3, <1>4, <1>8, <1>12, MemoryAssumption DEF BudgetTold, Message
  <2>6. QED
    BY <2>1, <2>2, <2>3, <2>4, <2>5 DEF BudgetTold
<1>17. QED
  BY <1>13, <1>14, <1>15, <1>16 DEF MemoryInv

(* What changes no message, but perhaps what a task does.                      *)
LEMMA QuietKeeps ==
  ASSUME MemoryInv, MemoryTypes', UNCHANGED <<queue, flight, letters, enqueued, acked, dropped>>,
         UNCHANGED <<cancelled, delivered, cancels>>, closed => closed',
         \A u \in Tasks, s \in Jobs : Puts(u, s)' <=> Puts(u, s),
         \A u \in Tasks : task'[u] = "put" => task[u] = "put" /\ held'[u] = held[u]
  PROVE  MemoryInv'
<1>1. MemoryTypes /\ Apart /\ Once /\ BudgetTold /\ Causes
  BY DEF MemoryInv
<1>2. \A s \in Jobs : /\ Queued(s)' <=> Queued(s)
                      /\ Flying(s)' <=> Flying(s)
                      /\ Lettered(s)' <=> Lettered(s)
                      /\ Putting(s)' <=> Putting(s)
                      /\ Spent(s)' <=> Spent(s)
  BY DEF Queued, Flying, Lettered, Putting, Spent
<1>3. Apart'
  BY <1>1, <1>2 DEF Apart
<1>4. Once' /\ Causes'
  BY <1>1 DEF Once, Causes
<1>5. BudgetTold'
  BY <1>1 DEF BudgetTold
<1>6. QED
  BY <1>3, <1>4, <1>5 DEF MemoryInv

LEMMA AckKeeps ==
  ASSUME MemoryInv, NEW w \in Tasks, AckMessage(w)
  PROVE  MemoryInv'
<1>1. PICK m \in flight : m = held[w]
  BY DEF AckMessage, InFlight
<1>2. /\ task[w] = "run" /\ Pop(m) /\ acked' = acked \cup {m.session} /\ Poll(w)
      /\ UNCHANGED <<queue, letters, closed, enqueued, dropped, cancelled, delivered, cancels>>
  BY <1>1 DEF AckMessage
<1>3. PICK j \in Jobs : j = m.session
  BY FlightApart DEF Message
<1>4. j \in enqueued /\ ~Queued(j) /\ ~Lettered(j) /\ ~Putting(j) /\ ~Spent(j) /\ Flying(j)
  BY <1>3, FlightApart
<1>5. /\ flight' \subseteq flight /\ late' \subseteq flight'
      /\ \A s \in Jobs : Flying(s)' <=> Flying(s) /\ s # j
  BY <1>2, <1>3, Popped
<1>6. MemoryTypes /\ Apart /\ Once /\ BudgetTold /\ Causes
  BY DEF MemoryInv
<1>7. /\ TaskTypes' /\ \A u \in Tasks, s \in Jobs : Puts(u, s)' <=> Puts(u, s)
      /\ \A u \in Tasks : task'[u] = "put" => task[u] = "put" /\ held'[u] = held[u]
  BY <1>2, <1>6, TaskPolls DEF Puts, MemoryTypes
<1>8. \A s \in Jobs : /\ Queued(s)' <=> Queued(s)
                      /\ Lettered(s)' <=> Lettered(s)
                      /\ Putting(s)' <=> Putting(s)
                      /\ Spent(s)' <=> Spent(s) \/ s = j
  BY <1>2, <1>3, <1>7 DEF Queued, Lettered, Putting, Spent
<1>9. MemoryTypes' /\ Causes'
  BY <1>2, <1>5, <1>6, <1>7 DEF MemoryTypes, Causes
<1>10. Apart'
  BY <1>2, <1>3, <1>4, <1>5, <1>6, <1>8 DEF Apart, Spent
<1>11. Once'
  BY <1>2, <1>5, <1>6, <1>7 DEF Once
<1>12. BudgetTold'
  BY <1>2, <1>5, <1>6, <1>7 DEF BudgetTold
<1>13. QED
  BY <1>9, <1>10, <1>11, <1>12 DEF MemoryInv

LEMMA CancelKeeps ==
  ASSUME MemoryInv, NEW t \in Tasks, Cancel(t)
  PROVE  MemoryInv'
<1>1. MemoryTypes /\ Apart /\ Once /\ BudgetTold /\ Causes
  BY DEF MemoryInv
<1>2. /\ TaskTypes' /\ task'[t] # "put"
      /\ \A u \in Tasks : u # t => task'[u] = task[u] /\ held'[u] = held[u]
      /\ \A u \in Tasks, s \in Jobs : Puts(u, s)' <=> u # t /\ Puts(u, s)
  BY <1>1, TaskPolls DEF Cancel, MemoryTypes
<1>3. /\ cancels' = cancels + 1
      /\ UNCHANGED <<queue, flight, late, letters, closed, enqueued, acked, dropped, delivered>>
  BY DEF Cancel
<1>4. MemoryTypes' /\ cancels' > 0
  BY <1>1, <1>2, <1>3 DEF MemoryTypes
<1>5. Once' /\ BudgetTold'
  <2>1. \A u \in Tasks : task'[u] = "put" => task[u] = "put" /\ held'[u] = held[u]
    BY <1>2
  <2>2. BudgetTold'
    BY <1>1, <1>3, <2>1 DEF BudgetTold
  <2>3. QED
    BY <1>1, <1>2, <1>3, <2>2 DEF Once
<1>6. CASE task[t] = "put"
  <2>1. PICK j : j = held[t].session
    OBVIOUS
  <2>2. /\ j \in Jobs /\ j \in enqueued /\ Putting(j)
        /\ ~Queued(j) /\ ~Flying(j) /\ ~Lettered(j) /\ ~Spent(j)
        /\ \A s \in Jobs : Putting(s) /\ s # j <=> \E u \in Tasks : u # t /\ Puts(u, s)
    BY <1>6, <2>1, PutApart DEF Message
  <2>3. cancelled' = cancelled \cup {j}
    BY <1>6, <2>1 DEF Cancel
  <2>4. ASSUME NEW s \in Jobs PROVE Putting(s)' <=> Putting(s) /\ s # j
    BY <1>2, <2>2 DEF Putting
  <2>5. \A s \in Jobs : /\ Queued(s)' <=> Queued(s)
                        /\ Flying(s)' <=> Flying(s)
                        /\ Lettered(s)' <=> Lettered(s)
                        /\ Spent(s)' <=> Spent(s) \/ s = j
    BY <1>3, <2>3 DEF Queued, Flying, Lettered, Spent
  <2>6. Apart'
    BY <1>1, <1>3, <2>2, <2>3, <2>4, <2>5 DEF Apart, Spent
  <2>7. QED
    BY <1>1, <1>3, <1>4, <1>5, <2>6 DEF MemoryInv, Causes
<1>7. CASE task[t] # "put"
  <2>1. cancelled' = cancelled
    BY <1>7 DEF Cancel
  <2>2. \A s \in Jobs : /\ Queued(s)' <=> Queued(s)
                        /\ Flying(s)' <=> Flying(s)
                        /\ Lettered(s)' <=> Lettered(s)
                        /\ Putting(s)' <=> Putting(s)
                        /\ Spent(s)' <=> Spent(s)
    BY <1>2, <1>3, <1>7, <2>1 DEF Queued, Flying, Lettered, Putting, Puts, Spent
  <2>3. Apart'
    BY <1>1, <1>3, <2>1, <2>2 DEF Apart
  <2>4. QED
    BY <1>1, <1>3, <1>4, <1>5, <2>1, <2>3 DEF MemoryInv, Causes
<1>8. QED
  BY <1>6, <1>7

LEMMA NextMemory == MemoryInv /\ [MemoryNext]_memoryVars => MemoryInv'
<1> SUFFICES ASSUME MemoryInv, [MemoryNext]_memoryVars PROVE MemoryInv'
  OBVIOUS
<1>0. MemoryTypes
  BY DEF MemoryInv
<1>1. CASE UNCHANGED memoryVars
  BY <1>0, <1>1, QuietKeeps DEF memoryVars, memory, counts, MemoryTypes, TaskTypes, Puts
<1>2. ASSUME NEW w \in Tasks, IgnoreHandle(w) PROVE MemoryInv'
  <2>1. task[w] = "run" /\ Poll(w) /\ UNCHANGED <<queue, flight, late, letters, closed, counts>>
    BY <1>2 DEF IgnoreHandle
  <2>2. /\ TaskTypes' /\ \A u \in Tasks, s \in Jobs : Puts(u, s)' <=> Puts(u, s)
        /\ \A u \in Tasks : task'[u] = "put" => task[u] = "put" /\ held'[u] = held[u]
    BY <1>0, <2>1, TaskPolls DEF Puts, MemoryTypes
  <2>3. MemoryTypes'
    BY <1>0, <2>1, <2>2 DEF MemoryTypes, counts
  <2>4. QED
    BY <2>1, <2>2, <2>3, QuietKeeps DEF counts
<1>3. ASSUME NEW m \in flight, ExpireFlight(m) PROVE MemoryInv'
  BY <1>0, <1>3, QuietKeeps DEF ExpireFlight, counts, MemoryTypes, TaskTypes, Puts
<1>4. ASSUME Close PROVE MemoryInv'
  BY <1>0, <1>4, QuietKeeps DEF Close, counts, MemoryTypes, TaskTypes, Puts
<1>5. Pollers \subseteq Tasks /\ Monitor \in Tasks
  BY DEF Tasks
<1>6. QED
  BY <1>1, <1>2, <1>3, <1>4, <1>5, ExpiredKeeps, NackKeeps, EnqueueKeeps, PutKeeps, GetKeeps,
     AckKeeps, CancelKeeps DEF MemoryNext, WorkerStep

(* The inductive invariant of the queue in memory.                             *)
THEOREM MemoryInvariant == MemorySpec => []MemoryInv
BY InitMemory, NextMemory, PTL DEF MemorySpec

(* For any sessions, tasks, budget and size: the budget of deliveries is exact, *)
(* whether an attempt ends by a nack, by an expiry that one task or another     *)
(* sweeps, or by a cancellation (InMemoryQueueAdapter._retry_or_dead_letter).   *)
THEOREM MemoryBudgetIsExact == MemorySpec => []BudgetIsExact
<1>1. MemoryInv => BudgetIsExact
  BY DEF MemoryInv, BudgetTold, BudgetIsExact
<1>2. QED
  BY MemoryInvariant, <1>1, PTL

(* A set that is not empty and whose elements are equal has one element.       *)
LEMMA OneElement ==
  ASSUME NEW S, \A x, y \in S : x = y
  PROVE  Cardinality(S) = IF S = {} THEN 0 ELSE 1
<1>1. CASE S = {}
  BY <1>1, FS_EmptySet
<1>2. CASE S # {}
  <2>1. PICK x : S = {x}
    BY <1>2
  <2>2. QED
    BY <1>2, <2>1, FS_Singleton
<1>3. QED
  BY <1>1, <1>2

(* However the sweeps of the tasks, late acknowledgements, suspended puts and  *)
(* cancellations interleave, a session that was enqueued is in one place, once *)
(* (InMemoryQueueAdapter: _track_in_flight, _redeliver_expired, ack, nack).    *)
THEOREM SessionsAreInOnePlace == MemorySpec => []OnePlace
<1>1. ASSUME MemoryInv, NEW s \in enqueued
      PROVE  Copies(s) + Cardinality({i \in 1..3 : s \in <<acked, dropped, cancelled>>[i]}) = 1
  <2> DEFINE inQueue == {i \in DOMAIN queue : queue[i].session = s}
             inFlight == {m \in flight : m.session = s}
             inLetters == {m \in letters : m.session = s}
             inPut == {t \in Tasks : task[t] = "put" /\ held[t].session = s}
             gone == {i \in 1..3 : s \in <<acked, dropped, cancelled>>[i]}
  <2>1. MemoryTypes /\ Apart /\ Once /\ s \in Jobs
    BY <1>1 DEF MemoryInv, MemoryTypes
  <2>2. /\ Cardinality(inQueue) = IF inQueue = {} THEN 0 ELSE 1
        /\ inQueue = {} <=> ~Queued(s)
    <3>1. DOMAIN queue = 1..Len(queue)
      BY <2>1 DEF MemoryTypes
    <3>2. \A i, j \in inQueue : i = j
      BY <2>1, <3>1 DEF Once
    <3>3. QED
      BY <3>1, <3>2, OneElement DEF Queued
  <2>3. /\ Cardinality(inFlight) = IF inFlight = {} THEN 0 ELSE 1
        /\ inFlight = {} <=> ~Flying(s)
    <3>1. \A m, n \in inFlight : m = n
      BY <2>1 DEF Once
    <3>2. QED
      BY <3>1, OneElement DEF Flying
  <2>4. /\ Cardinality(inLetters) = IF inLetters = {} THEN 0 ELSE 1
        /\ inLetters = {} <=> ~Lettered(s)
    <3>1. \A m, n \in inLetters : m = n
      BY <2>1 DEF Once
    <3>2. QED
      BY <3>1, OneElement DEF Lettered
  <2>5. /\ Cardinality(inPut) = IF inPut = {} THEN 0 ELSE 1
        /\ inPut = {} <=> ~Putting(s)
    <3>1. \A t, u \in inPut : t = u
      BY <2>1 DEF Once, Puts
    <3>2. QED
      BY <3>1, OneElement DEF Putting, Puts
  <2>6. /\ Cardinality(gone) = IF gone = {} THEN 0 ELSE 1
        /\ gone = {} <=> ~Spent(s)
    <3>1. \A i \in gone : \/ i = 1 /\ s \in acked
                          \/ i = 2 /\ s \in dropped
                          \/ i = 3 /\ s \in cancelled
      OBVIOUS
    <3>2. \A i, j \in gone : i = j
      BY <2>1, <3>1 DEF Apart
    <3>3. /\ s \in acked => 1 \in gone
          /\ s \in dropped => 2 \in gone
          /\ s \in cancelled => 3 \in gone
      OBVIOUS
    <3>4. gone = {} <=> ~Spent(s)
      BY <3>1, <3>3 DEF Spent
    <3>5. Cardinality(gone) = IF gone = {} THEN 0 ELSE 1
      BY <3>2, OneElement
    <3>6. QED
      BY <3>4, <3>5
  <2>7. Copies(s) = Cardinality(inQueue) + Cardinality(inFlight) + Cardinality(inLetters)
                      + Cardinality(inPut)
    BY DEF Copies
  <2> HIDE DEF inQueue, inFlight, inLetters, inPut, gone
  <2>8. Copies(s) + Cardinality(gone) = 1
    BY <1>1, <2>1, <2>2, <2>3, <2>4, <2>5, <2>6, <2>7 DEF Apart
  <2>9. QED
    BY <2>8 DEF gone
<1>2. MemoryInv => OnePlace
  BY <1>1 DEF OnePlace, MemoryInv, Causes
<1>3. QED
  BY MemoryInvariant, <1>2, PTL
==============================================================================
