---------------------------- MODULE MCControlPlane ----------------------------
(* Instances of ControlPlane: one node, a chain of two, and a fork of three  *)
(* whose two branches wait for the same node.                                *)
EXTENDS ControlPlane, TLC

CONSTANTS w1, w2

OneNode == {1}
OneRequires == [n \in OneNode |-> {}]

ChainNodes == 1..2
ChainRequires == [n \in ChainNodes |-> {m \in ChainNodes : m < n}]

ForkNodes == 1..3
ForkRequires == [n \in ForkNodes |-> IF n = 1 THEN {} ELSE {1}]

OneWorker == {w1}
TwoWorkers == {w1, w2}
WorkerSymmetry == Permutations(TwoWorkers)
==============================================================================
