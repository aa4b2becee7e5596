---------------------------- MODULE AtomicSession -----------------------------
(* What SessionService needs of its store: the session is a register on      *)
(* which a service call takes effect at one instant, on top of every call    *)
(* that took effect before it, or not at all.                                *)
CONSTANT CallIds

VARIABLES
  exists,    \* the session is stored
  applied    \* the calls that took effect, all of them visible in the session

vars == <<exists, applied>>

Init == exists = FALSE /\ applied = {}

(* the first put creates the session *)
Create(c) == ~exists /\ applied = {} /\ exists' = TRUE /\ applied' = {c}

Apply(c) ==
  /\ exists /\ c \notin applied
  /\ applied' = applied \cup {c}
  /\ UNCHANGED exists

(* a deleted session stays deleted: its calls are over *)
Delete == exists /\ exists' = FALSE /\ UNCHANGED applied

Next == (\E c \in CallIds : Create(c) \/ Apply(c)) \/ Delete

Spec == Init /\ [][Next]_vars
==============================================================================
