------------------------------- MODULE MCApiServer ------------------------------
(* Small instance of ApiServer for TLC. *)
EXTENDS ApiServer

CONSTANTS r1, r2
================================================================================
