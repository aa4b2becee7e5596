-------------------------- MODULE MCRedisStreamQueue --------------------------
(* Instances of RedisStreamQueue: two workers that poll the same stream.     *)
EXTENDS RedisStreamQueue

CONSTANTS s1, w1, w2

OneSession == {s1}
TwoWorkers == {w1, w2}
==============================================================================
