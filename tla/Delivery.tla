-------------------------------- MODULE Delivery --------------------------------
(***************************************************************************)
(* What the whole pipeline promises: a job goes downstream only for an      *)
(* event that the API has accepted, any number of times until it is settled *)
(* (the completion row says "processed"), and then never again, unless the   *)
(* operator migrates the completion rows away.                              *)
(***************************************************************************)
EXTENDS Naturals

CONSTANT Events

VARIABLES
    accepted,    \* events that have had a committed ledger row
    settled,     \* events whose job is known to be done
    calls,       \* requests sent downstream, by event
    rollbacks    \* migrations rolled back so far

vars == <<accepted, settled, calls, rollbacks>>

Init ==
    /\ accepted \in SUBSET Events
    /\ settled = {}
    /\ calls = [e \in Events |-> 0]
    /\ rollbacks = 0

Accept(e) ==
    /\ e \notin accepted
    /\ accepted' = accepted \cup {e}
    /\ UNCHANGED <<settled, calls, rollbacks>>

Send(e) ==
    /\ e \in accepted \ settled
    /\ calls' = [calls EXCEPT ![e] = @ + 1]
    /\ UNCHANGED <<accepted, settled, rollbacks>>

Settle(e) ==
    /\ calls[e] > 0
    /\ settled' = settled \cup {e}
    /\ UNCHANGED <<accepted, calls, rollbacks>>

Forget ==
    /\ settled' = {}
    /\ rollbacks' = rollbacks + 1
    /\ UNCHANGED <<accepted, calls>>

Next == Forget \/ \E e \in Events : Accept(e) \/ Send(e) \/ Settle(e)

Spec == Init /\ [][Next]_vars
================================================================================
