------------------------- MODULE MCDurableInteraction -------------------------
(* Two attempts on a team of two, under each of the executed protocols; the   *)
(* debate has two rounds.                                                     *)
EXTENDS DurableInteraction, TLC

CONSTANTS a1, a2, m1, m2, publish

Protocol(mode, topology, aggregation) ==
  [mode |-> mode, topology |-> topology, aggregation |-> aggregation,
   members |-> <<m1, m2>>, rounds |-> 2,
   coordinator |-> IF topology = "coordinator"
                   THEN (IF mode = "delegation" THEN m2 ELSE m1) ELSE NoAgent]

MCProtocols ==
  {Protocol("team", "broadcast", "collect"), Protocol("team", "pipeline", "collect"),
   Protocol("team", "coordinator", "summary"), Protocol("debate", "broadcast", "collect"),
   Protocol("vote", "broadcast", "vote"), Protocol("delegation", "coordinator", "summary")}
(* the first two members make the same call *)
MCEffects == {publish}
MCCalls == [i \in 0..3 |-> IF i < 2 THEN publish ELSE NoEffect]
MCAttempts == {a1, a2}
AttemptSymmetry == Permutations(MCAttempts)
==============================================================================
