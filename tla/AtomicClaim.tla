------------------------------ MODULE AtomicClaim ------------------------------
(***************************************************************************)
(* What the intake half of the store promises its callers                  *)
(* (internal/store/store.go, the comments on AcceptEvent, ProcessEvent and  *)
(* Status): an event id is claimed in one indivisible step, by at most one *)
(* caller, and an accepted event has its outbox row from that very step on.*)
(***************************************************************************)
EXTENDS Naturals

CONSTANTS
    Events,     \* Stripe event ids
    Legacy      \* events accepted before migration 00002 added the outbox

VARIABLES
    ledger,     \* committed rows of processed_events, by event id
    outbox,     \* event ids that have a committed row in outbox_events
    claims      \* how many callers have been told claimed = true, by event id

vars == <<ledger, outbox, claims>>

Init ==
    /\ ledger = [e \in Events |-> IF e \in Legacy THEN "accepted" ELSE "absent"]
    /\ outbox = {}
    /\ claims = [e \in Events |-> 0]

\* The caller is told, or the answer is lost on its way back.
Told(e) == claims' \in {claims, [claims EXCEPT ![e] = @ + 1]}

Accept(e) ==
    /\ ledger[e] = "absent"
    /\ ledger' = [ledger EXCEPT ![e] = "accepted"]
    /\ outbox' = outbox \cup {e}
    /\ Told(e)

Process(e) ==
    /\ ledger[e] = "absent"
    /\ ledger' = [ledger EXCEPT ![e] = "processed"]
    /\ UNCHANGED outbox
    /\ Told(e)

Next == \E e \in Events : Accept(e) \/ Process(e)

Spec == Init /\ [][Next]_vars
================================================================================
