--------------------------- MODULE MCRedisCircuit --------------------------
(* One instance whose watchers, breaker and rate-limited requests meet      *)
(* outages and lost replies; the requests stand for those of any instance.  *)
EXTENDS RedisCircuit

CONSTANTS api1

OneInstance == {api1}
=============================================================================
