----------------------------- MODULE MCEventLedger -----------------------------
(* Small instances of EventLedger for TLC. *)
EXTENDS EventLedger

CONSTANTS e1, e2, e3, s1, s2

MCEvents == {e1, e2, e3}
MCUnstorable == {e2}
MCLegacy == {e3}
================================================================================
