-------------------------------- MODULE MCWorker --------------------------------
(* Small instances of Worker for TLC. *)
EXTENDS Worker, TLC

CONSTANTS e1, e2, w1, w2, malformed, nobody

OneLog == <<<<e1, e2>>>>

\* e1 is in both partitions: the topic was enlarged between two publishes of it.
TwoLogs == <<<<e1, e2>>, <<e1, malformed>>>>
MalformedLog == <<<<malformed>>>>

AllResponses == {200, 404, 503}
Conclusive == {200, 404}

Symmetry == Permutations(Workers)
================================================================================
