------------------------------ MODULE EventLedger ------------------------------
(***************************************************************************)
(* The intake half of internal/store/postgres.go: AcceptEvent, ProcessEvent *)
(* and Status, one action per SQL statement, run by concurrent sessions     *)
(* (requests in any number of pods).  The database is READ COMMITTED: an    *)
(* INSERT ... ON CONFLICT DO NOTHING waits for an open transaction that has *)
(* inserted the same key, then claims the key or reports zero rows.  Any    *)
(* statement may fail, a COMMIT may take effect although its caller gets an *)
(* error, and a process may die in any step: the open transaction is then   *)
(* rolled back (defer tx.Rollback(), or the server on a lost connection).   *)
(***************************************************************************)
EXTENDS Naturals, FiniteSets

CONSTANTS
    Events,       \* Stripe event ids
    Sessions,     \* database sessions, one per store call in flight
    Unstorable,   \* events whose job payload the jsonb column rejects
    Legacy,       \* events accepted before migration 00002 added the outbox
    MaxFaults     \* bound on failed statements, lost answers and crashes

ASSUME LedgerAssumption ==
    /\ Unstorable \subseteq Events
    /\ Legacy \subseteq Events
    /\ Events # {}
    /\ MaxFaults \in Nat

VARIABLES
    ledger,     \* committed rows of processed_events, by event id
    outbox,     \* event ids that have a committed row in outbox_events
    pc,         \* the statement a session executes next
    op,         \* the store method a session is in
    event,      \* its eventID argument
    result,     \* what the method returned
    draft,      \* what a session's open transaction has written
    faults,     \* faults so far (bounded by MaxFaults)
    claims      \* history: how many callers were told claimed = true

vars == <<ledger, outbox, pc, op, event, result, draft, faults, claims>>
tables == <<ledger, outbox, claims>>

Statuses == {"absent", "accepted", "processing", "processed"}
Methods == {"AcceptEvent", "ProcessEvent", "Status"}
Results == {"none", "claimed", "duplicate", "error"} \cup Statuses

Steps == {"select", "insert", "insert_outbox", "fn", "update", "commit"}

\* An open transaction's ledger row ("absent" before the INSERT), and whether it
\* has inserted the outbox row.
Drafts == [row : Statuses, queued : BOOLEAN]
NoDraft == [row |-> "absent", queued |-> FALSE]

\* What an idle session's frame holds; never read.
NoEvent == CHOOSE e \in Events : TRUE

TypeOK ==
    /\ ledger \in [Events -> Statuses]
    /\ outbox \in SUBSET Events
    /\ pc \in [Sessions -> Steps \cup {"idle", "returned"}]
    /\ op \in [Sessions -> Methods]
    /\ event \in [Sessions -> Events]
    /\ result \in [Sessions -> Results]
    /\ draft \in [Sessions -> Drafts]
    /\ faults \in Nat
    /\ claims \in [Events -> Nat]

Init ==
    /\ ledger = [e \in Events |-> IF e \in Legacy THEN "accepted" ELSE "absent"]
    /\ outbox = {}
    /\ pc = [s \in Sessions |-> "idle"]
    /\ op = [s \in Sessions |-> "Status"]
    /\ event = [s \in Sessions |-> NoEvent]
    /\ result = [s \in Sessions |-> "none"]
    /\ draft = [s \in Sessions |-> NoDraft]
    /\ faults = 0
    /\ claims = [e \in Events |-> 0]

--------------------------------------------------------------------------------
(* Helpers *)

\* The next statement of the same call, after writing d to the transaction.
Goto(s, step, d) ==
    /\ pc' = [pc EXCEPT ![s] = step]
    /\ draft' = [draft EXCEPT ![s] = d]
    /\ UNCHANGED <<op, event, result>>

\* The method returns r: its transaction is committed or rolled back by now.
Return(s, r) ==
    /\ pc' = [pc EXCEPT ![s] = "returned"]
    /\ result' = [result EXCEPT ![s] = r]
    /\ draft' = [draft EXCEPT ![s] = NoDraft]
    /\ UNCHANGED <<op, event>>

\* The call is over and its frame gone.
Leave(s) ==
    /\ pc' = [pc EXCEPT ![s] = "idle"]
    /\ op' = [op EXCEPT ![s] = "Status"]
    /\ event' = [event EXCEPT ![s] = NoEvent]
    /\ result' = [result EXCEPT ![s] = "none"]
    /\ draft' = [draft EXCEPT ![s] = NoDraft]

Fault == faults < MaxFaults /\ faults' = faults + 1

Holds(s, e) == draft[s].row # "absent" /\ event[s] = e

--------------------------------------------------------------------------------
(* The statements *)

\* BeginTx belongs to the first statement: neither leaves anything if it fails.
Call(s, method, e) ==
    /\ pc[s] = "idle"
    /\ pc' = [pc EXCEPT ![s] = IF method = "Status" THEN "select" ELSE "insert"]
    /\ op' = [op EXCEPT ![s] = method]
    /\ event' = [event EXCEPT ![s] = e]
    /\ UNCHANGED <<tables, result, draft, faults>>

\* Mutant: the INSERT does not wait for an open transaction on the same key.
InsertClaimsUnlocked(s) ==
    /\ pc[s] = "insert"
    /\ ledger[event[s]] = "absent"
    /\ Goto(s, "insert_outbox", [row |-> "accepted", queued |-> FALSE])
    /\ UNCHANGED <<tables, faults>>

\* The unique index makes a second inserter wait for the transaction ahead.
InsertClaims(s) ==
    /\ pc[s] = "insert"
    /\ \A t \in Sessions : ~Holds(t, event[s])
    /\ ledger[event[s]] = "absent"
    /\ IF op[s] = "AcceptEvent"
       THEN Goto(s, "insert_outbox", [row |-> "accepted", queued |-> FALSE])
       ELSE Goto(s, "fn", [row |-> "processing", queued |-> FALSE])
    /\ UNCHANGED <<tables, faults>>

\* Mutant: zero inserted rows are not checked for.
InsertConflictsIgnored(s) ==
    /\ pc[s] = "insert"
    /\ ledger[event[s]] # "absent"
    /\ Goto(s, "insert_outbox", [row |-> "accepted", queued |-> FALSE])
    /\ UNCHANGED <<tables, faults>>

\* Mutant: a row that is not committed yet counts as a duplicate.
InsertConflictsEarly(s) ==
    /\ pc[s] = "insert"
    /\ ledger[event[s]] # "absent" \/ \E t \in Sessions : Holds(t, event[s])
    /\ Return(s, "duplicate")
    /\ UNCHANGED <<tables, faults>>

\* Mutant: a duplicate waits until the event is processed.
InsertConflictsWhenDone(s) ==
    /\ pc[s] = "insert"
    /\ ledger[event[s]] = "processed"
    /\ Return(s, "duplicate")
    /\ UNCHANGED <<tables, faults>>

InsertConflicts(s) ==
    /\ pc[s] = "insert"
    /\ ledger[event[s]] # "absent"
    /\ Return(s, "duplicate")
    /\ UNCHANGED <<tables, faults>>

InsertOutbox(s) ==
    /\ pc[s] = "insert_outbox"
    /\ IF event[s] \in Unstorable
       THEN Return(s, "error")
       ELSE Goto(s, "commit", [draft[s] EXCEPT !.queued = TRUE])
    /\ UNCHANGED <<tables, faults>>

\* Mutant: the UPDATE after fn is missing.
RunFnUnmarked(s) ==
    /\ pc[s] = "fn"
    /\ Goto(s, "commit", draft[s])
    /\ UNCHANGED <<tables, faults>>

RunFn(s) ==
    /\ pc[s] = "fn"
    /\ Goto(s, "update", draft[s])
    /\ UNCHANGED <<tables, faults>>

\* Mutant: a status outside the CHECK constraint.
UpdateDone(s) ==
    /\ pc[s] = "update"
    /\ Goto(s, "commit", [draft[s] EXCEPT !.row = "done"])
    /\ UNCHANGED <<tables, faults>>

UpdateProcessed(s) ==
    /\ pc[s] = "update"
    /\ Goto(s, "commit", [draft[s] EXCEPT !.row = "processed"])
    /\ UNCHANGED <<tables, faults>>

\* COMMIT makes every row of the transaction visible at once.
Publish(s) ==
    /\ ledger' = [ledger EXCEPT ![event[s]] = draft[s].row]
    /\ outbox' = IF draft[s].queued THEN outbox \cup {event[s]} ELSE outbox

Commit(s) ==
    /\ pc[s] = "commit"
    /\ Publish(s)
    /\ claims' = [claims EXCEPT ![event[s]] = @ + 1]
    /\ Return(s, "claimed")
    /\ UNCHANGED faults

Select(s) ==
    /\ pc[s] = "select"
    /\ Return(s, ledger[event[s]])
    /\ UNCHANGED <<tables, faults>>

TakeResult(s) ==
    /\ pc[s] = "returned"
    /\ Leave(s)
    /\ UNCHANGED <<tables, faults>>

--------------------------------------------------------------------------------
(* Faults *)

\* Mutant: the two INSERTs are not in one transaction.
StatementFailsAutocommitted(s) ==
    /\ pc[s] \in Steps
    /\ Fault
    /\ Return(s, "error")
    /\ ledger' = IF draft[s].row = "absent" THEN ledger
                 ELSE [ledger EXCEPT ![event[s]] = draft[s].row]
    /\ UNCHANGED <<outbox, claims>>

\* A statement, fn or the connection fails: the method returns the error and
\* the deferred Rollback drops what the transaction wrote.
StatementFails(s) ==
    /\ pc[s] \in Steps
    /\ Fault
    /\ Return(s, "error")
    /\ UNCHANGED tables

\* The server commits, the answer does not arrive: tx.Commit returns an error.
CommitAnswerLost(s) ==
    /\ pc[s] = "commit"
    /\ Fault
    /\ Publish(s)
    /\ Return(s, "error")
    /\ UNCHANGED claims

\* The calling process dies, in a call or between two; the server rolls an
\* open transaction back.
Crash(s) ==
    /\ Fault
    /\ Leave(s)
    /\ UNCHANGED tables

--------------------------------------------------------------------------------
Statement(s) ==
    \/ InsertClaims(s) \/ InsertConflicts(s) \/ InsertOutbox(s)
    \/ RunFn(s) \/ UpdateProcessed(s) \/ Commit(s) \/ Select(s)

Broken(s) == StatementFails(s) \/ CommitAnswerLost(s)

Next ==
    \E s \in Sessions :
        \/ \E method \in Methods, e \in Events : Call(s, method, e)
        \/ Statement(s) \/ Broken(s) \/ TakeResult(s) \/ Crash(s)

\* A statement that can run is run: the server and the client do not stall.
Fairness == \A s \in Sessions : WF_vars(Statement(s)) /\ WF_vars(TakeResult(s))

Spec == Init /\ [][Next]_vars
FairSpec == Spec /\ Fairness

--------------------------------------------------------------------------------
(* Properties *)

\* AcceptEvent writes ledger and outbox in one transaction: whatever failed on
\* the way, an accepted event has an outbox row to publish and an outbox row
\* belongs to an accepted event.  Only rows older than migration 00002 lack it.
LedgerMatchesOutbox ==
    \A e \in Events \ Legacy : ledger[e] = "accepted" <=> e \in outbox

\* However deliveries of one event interleave over the pods, at most one caller
\* is told that it claimed the event, and then the row is there.
ClaimedAtMostOnce ==
    \A e \in Events : claims[e] <= 1 /\ (claims[e] = 1 => ledger[e] # "absent")

\* "duplicate" and "claimed" are final: the row that a caller was told of is
\* committed, not one of a transaction that may still roll back.
AnswersAreCommitted ==
    \A s \in Sessions :
        pc[s] = "returned" /\ result[s] \in {"duplicate", "claimed"} =>
            ledger[event[s]] # "absent"

\* ProcessEvent's intermediate status is never committed, so no reader ever
\* sees it: the already_processing branch of the webhook handler is unreachable.
ProcessingNeverVisible == \A e \in Events : ledger[e] # "processing"

\* Statement by statement, the methods implement the indivisible claim.
Claim == INSTANCE AtomicClaim
ImplementsAtomicClaim == Claim!Spec

\* What the statements so far have written to an open transaction.
DraftFollowsSteps ==
    \A s \in Sessions :
        CASE pc[s] = "insert_outbox" ->
                draft[s] = [row |-> "accepted", queued |-> FALSE]
          [] pc[s] \in {"fn", "update"} ->
                draft[s] = [row |-> "processing", queued |-> FALSE]
          [] pc[s] = "commit" ->
                draft[s] \in {[row |-> "accepted", queued |-> TRUE],
                              [row |-> "processed", queued |-> FALSE]}
          [] OTHER -> draft[s] = NoDraft

\* The unique index: one open transaction per event id, none on a taken id.
OneHolder ==
    \A s \in Sessions, e \in Events :
        Holds(s, e) => /\ ledger[e] = "absent"
                       /\ claims[e] = 0
                       /\ \A t \in Sessions : Holds(t, e) => t = s

\* The inductive invariant behind the four invariants above.
IInv ==
    /\ TypeOK
    /\ DraftFollowsSteps
    /\ OneHolder
    /\ LedgerMatchesOutbox
    /\ ClaimedAtMostOnce
    /\ AnswersAreCommitted
    /\ ProcessingNeverVisible

\* A call whose payload can be stored returns, even one that waits for another
\* session's transaction on the same event id.
CallsReturn ==
    \A s \in Sessions, e \in Events \ Unstorable :
        pc[s] # "idle" /\ event[s] = e ~> pc[s] = "idle"
================================================================================
