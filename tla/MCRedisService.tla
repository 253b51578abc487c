--------------------------- MODULE MCRedisService ---------------------------
(* RedisService for TLC: jobs and workers are interchangeable.             *)
EXTENDS RedisService, TLC

Symmetry == Permutations(Jobs) \cup Permutations(Workers)
=============================================================================
