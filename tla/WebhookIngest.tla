----------------------------- MODULE WebhookIngest -----------------------------
(***************************************************************************)
(* handleStripeWebhook (cmd/api/handlers.go) on top of the store methods of *)
(* EventLedger.  Each request runs in a goroutine of its own; r.Context()   *)
(* is its context, so a client that goes away fails the statement under     *)
(* way.  Stripe delivers an event again and again, also while an earlier    *)
(* delivery is still being handled and also after it has seen a 204.        *)
(***************************************************************************)
EXTENDS Naturals, FiniteSets

CONSTANTS
    Events, Sessions, Unstorable, Legacy, MaxFaults,    \* see EventLedger
    Issued      \* the events Stripe issued; other ids occur in forged requests

ASSUME IngestAssumption ==
    /\ Unstorable \subseteq Events
    /\ Legacy \subseteq Issued
    /\ Issued \subseteq Events
    /\ Events # {}
    /\ MaxFaults \in Nat

VARIABLES
    ledger, outbox, pc, op, event, result, draft, faults, claims, \* EventLedger
    http,       \* where a request is in the handler
    kind,       \* what its body and Stripe-Signature header are
    id,         \* the event id in its body
    code,       \* the status code the handler wrote
    acked       \* the events for which Stripe has received a 204

Store == INSTANCE EventLedger

storeVars == <<ledger, outbox, pc, op, event, result, draft, faults, claims>>
requestVars == <<http, kind, id, code>>
vars == <<storeVars, requestVars, acked>>

Kinds == {"oversize", "unreadable", "unsigned", "signed"}
Codes == {0, 204, 400, 413, 500}
Phases == {"idle", "read", "verify", "accept", "accepting",
           "status", "checking", "respond"}

TypeOK ==
    /\ Store!TypeOK
    /\ http \in [Sessions -> Phases]
    /\ kind \in [Sessions -> Kinds]
    /\ id \in [Sessions -> Events]
    /\ code \in [Sessions -> Codes]
    /\ acked \in SUBSET Events

Init ==
    /\ Store!Init
    /\ http = [s \in Sessions |-> "idle"]
    /\ kind = [s \in Sessions |-> "unsigned"]
    /\ id = [s \in Sessions |-> Store!NoEvent]
    /\ code = [s \in Sessions |-> 0]
    /\ acked = {}

--------------------------------------------------------------------------------
(* Helpers *)

Phase(s, p) ==
    /\ http' = [http EXCEPT ![s] = p]
    /\ UNCHANGED <<kind, id, code>>

Reply(s, c) ==
    /\ http' = [http EXCEPT ![s] = "respond"]
    /\ code' = [code EXCEPT ![s] = c]
    /\ UNCHANGED <<kind, id>>

\* The goroutine of the request is gone.
Done(s) ==
    /\ http' = [http EXCEPT ![s] = "idle"]
    /\ kind' = [kind EXCEPT ![s] = "unsigned"]
    /\ id' = [id EXCEPT ![s] = Store!NoEvent]
    /\ code' = [code EXCEPT ![s] = 0]

--------------------------------------------------------------------------------
(* The handler *)

Receive(s, k, e) ==
    /\ http[s] = "idle"
    /\ k = "signed" => e \in Issued
    /\ http' = [http EXCEPT ![s] = "read"]
    /\ kind' = [kind EXCEPT ![s] = k]
    /\ id' = [id EXCEPT ![s] = e]
    /\ UNCHANGED <<storeVars, code, acked>>

\* MaxBytesReader and io.ReadAll.
ReadBody(s) ==
    /\ http[s] = "read"
    /\ CASE kind[s] = "oversize"   -> Reply(s, 413)
         [] kind[s] = "unreadable" -> Reply(s, 400)
         [] OTHER                  -> Phase(s, "verify")
    /\ UNCHANGED <<storeVars, acked>>

\* Mutant: the signature is not verified.
VerifyNothing(s) ==
    /\ http[s] = "verify"
    /\ Phase(s, "accept")
    /\ UNCHANGED <<storeVars, acked>>

\* stripe.ConstructEvent: the signature is checked before the id is used.
Verify(s) ==
    /\ http[s] = "verify"
    /\ IF kind[s] = "signed" THEN Phase(s, "accept") ELSE Reply(s, 400)
    /\ UNCHANGED <<storeVars, acked>>

Accept(s) ==
    /\ http[s] = "accept"
    /\ Store!Call(s, "AcceptEvent", id[s])
    /\ Phase(s, "accepting")
    /\ UNCHANGED acked

\* Mutant: the error of AcceptEvent is not looked at.
AcceptedAlways(s) ==
    /\ http[s] = "accepting"
    /\ Store!TakeResult(s)
    /\ IF result[s] = "duplicate" THEN Phase(s, "status") ELSE Reply(s, 204)
    /\ UNCHANGED acked

\* Mutant: a duplicate is answered as a failure.
AcceptedOnce(s) ==
    /\ http[s] = "accepting"
    /\ Store!TakeResult(s)
    /\ Reply(s, IF result[s] = "claimed" THEN 204 ELSE 500)
    /\ UNCHANGED acked

Accepted(s) ==
    /\ http[s] = "accepting"
    /\ Store!TakeResult(s)
    /\ CASE result[s] = "error"     -> Reply(s, 500)
         [] result[s] = "claimed"   -> Reply(s, 204)
         [] result[s] = "duplicate" -> Phase(s, "status")
    /\ UNCHANGED acked

CheckStatus(s) ==
    /\ http[s] = "status"
    /\ Store!Call(s, "Status", id[s])
    /\ Phase(s, "checking")
    /\ UNCHANGED acked

\* Mutant: another status code for a row that is not accepted.
CheckedStrict(s) ==
    /\ http[s] = "checking"
    /\ Store!TakeResult(s)
    /\ IF result[s] = "error" THEN Reply(s, 500) ELSE Reply(s, 409)
    /\ UNCHANGED acked

\* Every status gets a 204, an unknown one and "not found" included.
Checked(s) ==
    /\ http[s] = "checking"
    /\ Store!TakeResult(s)
    /\ IF result[s] = "error" THEN Reply(s, 500) ELSE Reply(s, 204)
    /\ UNCHANGED acked

\* The response reaches Stripe, which counts a 2xx as delivered.
Respond(s) ==
    /\ http[s] = "respond"
    /\ Done(s)
    /\ acked' = IF code[s] = 204 THEN acked \cup {id[s]} ELSE acked
    /\ UNCHANGED storeVars

--------------------------------------------------------------------------------
(* The store's steps and the faults *)

StoreStep(s) ==
    /\ Store!Statement(s) \/ Store!Broken(s)
    /\ UNCHANGED <<requestVars, acked>>

\* The pod dies, Shutdown's ten seconds end before the handler does, or the
\* response does not reach Stripe.
RequestLost(s) ==
    /\ http[s] # "idle"
    /\ Store!Crash(s)
    /\ Done(s)
    /\ UNCHANGED acked

--------------------------------------------------------------------------------
HandlerStep(s) ==
    \/ ReadBody(s) \/ Verify(s) \/ Accept(s) \/ Accepted(s)
    \/ CheckStatus(s) \/ Checked(s) \/ Respond(s)

Next ==
    \E s \in Sessions :
        \/ \E k \in Kinds, e \in Events : Receive(s, k, e)
        \/ HandlerStep(s) \/ StoreStep(s) \/ RequestLost(s)

StatementRuns(s) == Store!Statement(s) /\ UNCHANGED <<requestVars, acked>>
Redeliver(e) == \E s \in Sessions : Receive(s, "signed", e)

\* Handlers and statements do not stall.  Stripe delivers an event it has no
\* 2xx for again; net/http starts a goroutine for each request, so other
\* requests never use up the sessions: that is the strong fairness.
Fairness ==
    /\ \A s \in Sessions : WF_vars(HandlerStep(s)) /\ WF_vars(StatementRuns(s))
    /\ \A e \in Issued : SF_vars(Redeliver(e))

Spec == Init /\ [][Next]_vars
FairSpec == Spec /\ Fairness

--------------------------------------------------------------------------------
(* Properties *)

\* Stripe stops redelivering at a 204, so whatever failed, was rolled back, lost
\* or interleaved on the way, a 204 means the event's ledger row is committed
\* and, unless it predates the outbox, so is the row the publisher will read.
AckedIsDurable ==
    \A e \in acked : ledger[e] # "absent" /\ (e \in Legacy \/ e \in outbox)

\* Each row of the tables has its own signed request behind it: the session whose
\* step commits the row of an id handles a body with a valid signature, and that id
\* stands in it.  An id that Stripe did issue excuses nothing: it may well arrive in
\* a forged body, before, between or after the genuine deliveries.
OnlySignedRecorded ==
    [][\A e \in Events :
          ledger'[e] # ledger[e] \/ (e \in outbox' /\ e \notin outbox) =>
              \E s \in Sessions : pc'[s] # pc[s] /\ kind[s] = "signed" /\ id[s] = e]_vars

\* The handler never calls ProcessEvent, so "accepted" is the only status there is.
OnlyAccepts ==
    /\ \A e \in Events : ledger[e] \in {"absent", "accepted"}
    /\ \A s \in Sessions :
        /\ op[s] # "ProcessEvent"
        /\ draft[s].row # "processed"
        /\ pc[s] \notin {"fn", "update"}
        /\ pc[s] = "insert" => op[s] = "AcceptEvent"
        /\ pc[s] = "select" => op[s] = "Status"
        /\ pc[s] = "returned" /\ op[s] = "AcceptEvent" =>
              result[s] \in {"claimed", "duplicate", "error"}

\* A call is made for the request's event, and what is done with its answer
\* rests on a committed row.
RequestFollowsCall ==
    \A s \in Sessions :
        /\ http[s] = "accepting" => op[s] = "AcceptEvent" /\ event[s] = id[s]
        /\ http[s] \in {"status", "checking"} => ledger[id[s]] # "absent"
        /\ http[s] = "respond" /\ code[s] = 204 => ledger[id[s]] # "absent"

\* Behind the signature check there are signed requests only, and a session's call
\* of the store is that of the request it serves, for the id in its body.
OnlySignedCalled ==
    \A s \in Sessions :
        /\ http[s] \in {"accept", "accepting", "status", "checking"} => kind[s] = "signed"
        /\ pc[s] # "idle" => /\ http[s] \in {"accepting", "checking"}
                             /\ event[s] = id[s]

\* The inductive invariant behind the invariants above.
IInv ==
    /\ TypeOK
    /\ Store!IInv
    /\ OnlyAccepts
    /\ RequestFollowsCall
    /\ OnlySignedCalled
    /\ AckedIsDurable

\* Stripe's redeliveries end: once the faults stop, every event it issued gets
\* its 204, also one whose row was committed by a request that answered 500.
EveryEventAcked == \A e \in Issued \ Unstorable : <>(e \in acked)
================================================================================
