------------------------------- MODULE MCPipeline -------------------------------
(* Small instance of Pipeline for TLC. *)
EXTENDS Pipeline

CONSTANTS e1, e2, p1, w1, malformed, nobody

AllResponses == {200, 503}
================================================================================
