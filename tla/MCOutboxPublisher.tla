--------------------------- MODULE MCOutboxPublisher ---------------------------
(* Small instances of OutboxPublisher for TLC. *)
EXTENDS OutboxPublisher

CONSTANTS e1, e2, big, p1, p2

AllEvents == {e1, e2, big}
BigEvents == {big}
================================================================================
