----------------------------- MODULE SessionStore -----------------------------
(***************************************************************************)
(* One RuntimeSession in the SessionStore of control/store.py (in memory or *)
(* SQLite: the same contract), and the processes that mutate it.  A service *)
(* call is get_session, a mutation of the copy and put; puts of different   *)
(* processes interleave with the gets of others, and the version is the     *)
(* only protection.  complete_session and fail_session put the same object  *)
(* twice, relying on put having advanced its version.                       *)
(*                                                                          *)
(* The content of the session is the set of the calls whose mutation it     *)
(* holds.                                                                   *)
(***************************************************************************)
EXTENDS Naturals, FiniteSets

CONSTANTS
  Writers,    \* processes with a SessionService on the store
  MaxCalls    \* bound: service calls that are explored

ASSUME MaxCallsAssumption == MaxCalls \in Nat

CallIds == 1..MaxCalls

(* RuntimeSession: its version, and as its content the calls it holds *)
RuntimeSession == [version : Nat, calls : SUBSET CallIds]

(* the object create_session builds *)
NoSession == [version |-> 0, calls |-> {}]

VARIABLES
  exists,    \* there is a row for the session
  stored,    \* the stored RuntimeSession: its version and its content
  copy,      \* the RuntimeSession object each writer holds
  call,      \* the call each writer is in, 0 when it is in none
  calls,     \* calls begun so far
  acked      \* calls whose put returned

vars == <<exists, stored, copy, call, calls, acked>>

Init ==
  /\ exists = FALSE
  /\ stored = NoSession
  /\ copy = [w \in Writers |-> NoSession]
  /\ call = [w \in Writers |-> 0]
  /\ calls = 0
  /\ acked = {}

(* variant: last writer wins *)
AssertNothing(session) == TRUE

(* _assert_expected_version *)
AssertExpectedVersion(session) ==
  IF exists THEN session.version = stored.version ELSE session.version = 0

BeginCall(w, content) ==
  /\ call[w] = 0 /\ calls < MaxCalls
  /\ calls' = calls + 1
  /\ call' = [call EXCEPT ![w] = calls + 1]
  /\ copy' = [copy EXCEPT ![w] = [content EXCEPT !.calls = @ \cup {calls + 1}]]
  /\ UNCHANGED <<exists, stored, acked>>

(* create_session builds a session with a fresh id, so only one writer ever  *)
(* creates this one *)
Create(w) == calls = 0 /\ BeginCall(w, NoSession)

(* get_required returns a deep copy, or raises when there is no row; the     *)
(* service mutates the copy *)
Get(w) == exists /\ BeginCall(w, stored)

(* put: the check, the version bump of the caller's object and the write are *)
(* one critical section (begin immediate .. commit, or no await in between). *)
(* The caller keeps the object it put.                                       *)
Put(w) ==
  /\ call[w] # 0 /\ AssertExpectedVersion(copy[w])
  /\ LET session == [copy[w] EXCEPT !.version = @ + 1] IN
       /\ stored' = session
       /\ copy' = [copy EXCEPT ![w] = session]
  /\ exists' = TRUE
  /\ acked' = acked \cup {call[w]}
  /\ call' = [call EXCEPT ![w] = 0]
  /\ UNCHANGED calls

(* the second put of complete_session and fail_session: another mutation of  *)
(* the object just put, with no get in between *)
PutAgain(w) ==
  /\ copy[w].version > 0
  /\ BeginCall(w, copy[w])

(* SessionStoreConflictError, a failing put or a crash: the object is lost   *)
Drop(w) ==
  /\ call[w] # 0
  /\ call' = [call EXCEPT ![w] = 0]
  /\ copy' = [copy EXCEPT ![w] = NoSession]
  /\ UNCHANGED <<exists, stored, calls, acked>>

Delete ==
  /\ exists /\ exists' = FALSE
  /\ UNCHANGED <<stored, copy, call, calls, acked>>

Next ==
  \/ \E w \in Writers : Create(w) \/ Get(w) \/ Put(w) \/ PutAgain(w) \/ Drop(w)
  \/ Delete

Spec == Init /\ [][Next]_vars

------------------------------------------------------------------------------
TypeOK ==
  /\ exists \in BOOLEAN
  /\ stored \in RuntimeSession
  /\ copy \in [Writers -> RuntimeSession]
  /\ call \in [Writers -> 0..MaxCalls]
  /\ calls \in 0..MaxCalls
  /\ acked \subseteq CallIds

(* No call is lost and no call leaks: the stored session holds exactly the   *)
(* calls whose put returned, whatever the gets and puts of other processes   *)
(* in between.                                                               *)
NoLostUpdate == stored.calls = acked

(* Optimistic locking is sound: a copy whose put would be accepted is the    *)
(* stored session plus the writer's own mutation.                            *)
AcceptedIsCurrent ==
  \A w \in Writers :
    call[w] # 0 /\ exists /\ AssertExpectedVersion(copy[w]) =>
      copy[w].calls = stored.calls \cup {call[w]}

(* A deleted session is not brought back by a writer that still holds it.    *)
NoResurrection == [][stored.version > 0 /\ ~exists => ~exists']_vars

(* Every service call is atomic: the stored session is the register, and     *)
(* gets, copies, conflicts and crashes are invisible in it.                  *)
Register == INSTANCE AtomicSession WITH applied <- stored.calls
IsAtomic == Register!Spec
==============================================================================
