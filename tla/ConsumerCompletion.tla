--------------------------- MODULE ConsumerCompletion ---------------------------
(***************************************************************************)
(* handleRecord (cmd/worker/main.go) and the completion methods of the      *)
(* store it calls, one action per SQL statement and per HTTP request.  The  *)
(* claim is up to three statements outside any transaction, so workers that *)
(* handle the same event at the same time (after a rebalance, or because    *)
(* the topic holds it twice) interleave between them.  The row is that of   *)
(* one consumer group; the downstream service answers as it likes.          *)
(***************************************************************************)
EXTENDS JobOutcome, FiniteSets

CONSTANTS
    Events,        \* event ids of the jobs
    Workers,       \* worker processes; each handles one record at a time
    Responses,     \* what may come back of a POST, see JobOutcome
    MaxAttempts,   \* bound on attempt_count when another record starts
    MaxFaults      \* bound on failed statements and crashes

ASSUME CompletionAssumption ==
    /\ Events # {}
    /\ IsFiniteSet(Workers)
    /\ Responses \subseteq AnyResponse
    /\ MaxAttempts \in Nat
    /\ MaxFaults \in Nat

VARIABLES
    status,      \* status of an event's consumer_completions row
    attempts,    \* its attempt_count, 0 without a row
    pc,          \* the statement or call a worker makes next
    job,         \* the event of the record it handles
    outcome,     \* what DeliverJob has returned to it
    verdict,     \* what handleRecord has returned: safe to commit
    calls,       \* history: requests sent downstream, by event
    answered,    \* history: what the service has said of an event's job
    faults       \* faults so far (bounded by MaxFaults)

table == <<status, attempts>>
frame == <<pc, job, outcome, verdict>>
history == <<calls, answered>>
vars == <<table, frame, history, faults>>

StatementSteps == {"insert", "select", "retry", "reclaim", "mark_processed", "mark_failed"}

\* What an idle worker's frame holds; never read.
NoJob == CHOOSE e \in Events : TRUE

TypeOK ==
    /\ status \in [Events -> {"absent", "processing", "processed", "failed"}]
    /\ attempts \in [Events -> Nat]
    /\ pc \in [Workers -> StatementSteps \cup {"idle", "deliver", "returned"}]
    /\ job \in [Workers -> Events]
    /\ outcome \in [Workers -> Classes \cup {"none"}]
    /\ verdict \in [Workers -> BOOLEAN]
    /\ calls \in [Events -> Nat]
    /\ answered \in [Events -> SUBSET Meanings]
    /\ faults \in Nat

Init ==
    /\ status = [e \in Events |-> "absent"]
    /\ attempts = [e \in Events |-> 0]
    /\ pc = [w \in Workers |-> "idle"]
    /\ job = [w \in Workers |-> NoJob]
    /\ outcome = [w \in Workers |-> "none"]
    /\ verdict = [w \in Workers |-> FALSE]
    /\ calls = [e \in Events |-> 0]
    /\ answered = [e \in Events |-> {}]
    /\ faults = 0

--------------------------------------------------------------------------------
(* Helpers *)

Goto(w, step) ==
    /\ pc' = [pc EXCEPT ![w] = step]
    /\ UNCHANGED <<job, outcome, verdict>>

Return(w, v) ==
    /\ pc' = [pc EXCEPT ![w] = "returned"]
    /\ verdict' = [verdict EXCEPT ![w] = v]
    /\ UNCHANGED <<job, outcome>>

Leave(w) ==
    /\ pc' = [pc EXCEPT ![w] = "idle"]
    /\ job' = [job EXCEPT ![w] = NoJob]
    /\ outcome' = [outcome EXCEPT ![w] = "none"]
    /\ verdict' = [verdict EXCEPT ![w] = FALSE]

Fault == faults < MaxFaults /\ faults' = faults + 1

\* UPDATE consumer_completions SET status = to, attempt_count = attempt_count + n
\* WHERE event_id = e AND status = from.
Update(e, from, to, n) ==
    IF status[e] = from
    THEN /\ status' = [status EXCEPT ![e] = to]
         /\ attempts' = [attempts EXCEPT ![e] = @ + n]
    ELSE UNCHANGED table

--------------------------------------------------------------------------------
(* What the server does with each statement, whoever learns of it *)

InsertRow(e) == Update(e, "absent", "processing", 1)
\* Mutant: the reclaim does not count.
BumpNothing(e) == Update(e, "processing", "processing", 0)

BumpProcessing(e) == Update(e, "processing", "processing", 1)
ReclaimFailed(e) == Update(e, "failed", "processing", 1)
SetProcessed(e) == Update(e, "processing", "processed", 0)
\* Mutant: no AND status = 'processing' in the WHERE clause.
SetFailedAlways(e) == Update(e, status[e], "failed", 0)

\* Mutant: a status outside the CHECK constraint.
SetRejected(e) == Update(e, "processing", "rejected", 0)

SetFailed(e) == Update(e, "processing", "failed", 0)

Effect(w) ==
    CASE pc[w] = "insert"         -> InsertRow(job[w])
      [] pc[w] = "retry"          -> BumpProcessing(job[w])
      [] pc[w] = "reclaim"        -> ReclaimFailed(job[w])
      [] pc[w] = "mark_processed" -> SetProcessed(job[w])
      [] pc[w] = "mark_failed"    -> SetFailed(job[w])
      [] OTHER                    -> UNCHANGED table

--------------------------------------------------------------------------------
(* handleRecord *)

Start(w, e) ==
    /\ pc[w] = "idle"
    /\ pc' = [pc EXCEPT ![w] = "insert"]
    /\ job' = [job EXCEPT ![w] = e]
    /\ UNCHANGED <<table, outcome, verdict, history, faults>>

\* INSERT ... ON CONFLICT DO NOTHING: one row is "new", none asks for a SELECT.
ClaimInsert(w) ==
    /\ pc[w] = "insert"
    /\ InsertRow(job[w])
    /\ Goto(w, IF status[job[w]] = "absent" THEN "deliver" ELSE "select")
    /\ UNCHANGED <<history, faults>>

\* Mutant: a row in processing is taken for work that is done.
SelectTrustsProcessing(w) ==
    /\ pc[w] = "select"
    /\ CASE status[job[w]] = "processed"  -> Return(w, TRUE)
         [] status[job[w]] = "processing" -> Goto(w, "mark_processed")
         [] status[job[w]] = "failed"     -> Goto(w, "reclaim")
    /\ UNCHANGED <<table, history, faults>>

\* Mutant: already_processed is not skipped.
SelectNeverSkips(w) ==
    /\ pc[w] = "select"
    /\ Goto(w, IF status[job[w]] = "processed" THEN "deliver" ELSE "retry")
    /\ UNCHANGED <<table, history, faults>>

\* already_processed ends the handling; otherwise the status read here decides
\* which UPDATE follows.  A row that has vanished is an error of the claim.
ClaimSelect(w) ==
    /\ pc[w] = "select"
    /\ CASE status[job[w]] = "processed"  -> Return(w, TRUE)
         [] status[job[w]] = "processing" -> Goto(w, "retry")
         [] status[job[w]] = "failed"     -> Goto(w, "reclaim")
         [] status[job[w]] = "absent"     -> Return(w, FALSE)
    /\ UNCHANGED <<table, history, faults>>

\* UPDATE ... RETURNING: no row, because the status has changed since the
\* SELECT, is an error of the claim.
ClaimRetry(w) ==
    /\ pc[w] = "retry"
    /\ BumpProcessing(job[w])
    /\ IF status[job[w]] = "processing" THEN Goto(w, "deliver") ELSE Return(w, FALSE)
    /\ UNCHANGED <<history, faults>>

ClaimReclaim(w) ==
    /\ pc[w] = "reclaim"
    /\ ReclaimFailed(job[w])
    /\ IF status[job[w]] = "failed" THEN Goto(w, "deliver") ELSE Return(w, FALSE)
    /\ UNCHANGED <<history, faults>>

\* handleJob: one POST, its response classified by DeliverJob.
Deliver(w, r) ==
    /\ pc[w] = "deliver"
    /\ calls' = [calls EXCEPT ![job[w]] = @ + 1]
    /\ answered' = [answered EXCEPT ![job[w]] = @ \cup {Meaning(r)}]
    /\ outcome' = [outcome EXCEPT ![w] = DeliverJob(r)]
    /\ pc' = [pc EXCEPT ![w] = IF DeliverJob(r) = "ok" THEN "mark_processed"
                                ELSE "mark_failed"]
    /\ UNCHANGED <<table, job, verdict, faults>>

MarkProcessed(w) ==
    /\ pc[w] = "mark_processed"
    /\ SetProcessed(job[w])
    /\ Return(w, status[job[w]] = "processing")
    /\ UNCHANGED <<history, faults>>

\* Mutant: a permanent failure is not recorded.
MarkFailedUnrecorded(w) ==
    /\ pc[w] = "mark_failed"
    /\ Return(w, outcome[w] = "permanent")
    /\ UNCHANGED <<table, history, faults>>

\* The number of rows it changed is not looked at.
MarkFailed(w) ==
    /\ pc[w] = "mark_failed"
    /\ SetFailed(job[w])
    /\ Return(w, outcome[w] = "permanent")
    /\ UNCHANGED <<history, faults>>

TakeVerdict(w) ==
    /\ pc[w] = "returned"
    /\ Leave(w)
    /\ UNCHANGED <<table, history, faults>>

--------------------------------------------------------------------------------
(* Faults *)

\* The statement fails, or takes effect without its answer arriving.
StatementFails(w) ==
    /\ pc[w] \in StatementSteps
    /\ Fault
    /\ UNCHANGED table \/ Effect(w)
    /\ Return(w, FALSE)
    /\ UNCHANGED history

\* The process dies; what it has sent may still arrive.
Die(w) ==
    /\ UNCHANGED table \/ Effect(w)
    /\ calls' \in IF pc[w] = "deliver"
                  THEN {calls, [calls EXCEPT ![job[w]] = @ + 1]}
                  ELSE {calls}
    /\ Leave(w)
    /\ UNCHANGED answered

Crash(w) == Fault /\ Die(w)

--------------------------------------------------------------------------------
HandleStep(w) ==
    \/ ClaimInsert(w) \/ ClaimSelect(w) \/ ClaimRetry(w) \/ ClaimReclaim(w)
    \/ \E r \in Responses : Deliver(w, r)
    \/ MarkProcessed(w) \/ MarkFailed(w)

Next ==
    \E w \in Workers :
        \/ \E e \in Events : attempts[e] < MaxAttempts /\ Start(w, e)
        \/ HandleStep(w) \/ TakeVerdict(w)
        \/ StatementFails(w) \/ Crash(w)

Spec == Init /\ [][Next]_vars

--------------------------------------------------------------------------------
(* Properties *)

\* A row says "processed" only of a job that the downstream service answered
\* with a 2xx, whichever workers claimed and marked it in between.
ProcessedWasDelivered ==
    \A e \in Events : status[e] = "processed" => "delivered" \in answered[e]

\* The workers that have claimed an event and not yet sent it.
Claimants(e) == {w \in Workers : pc[w] = "deliver" /\ job[w] = e}

\* Every request downstream has a claim of its own, counted in attempt_count:
\* concurrent claims, lost answers and crashes never lose an increment.
CallsAreClaimed ==
    \A e \in Events : calls[e] + Cardinality(Claimants(e)) <= attempts[e]

\* handleRecord says "safe to commit" only of a job with a final answer, whose row
\* exists, whatever another worker is doing to that row.  Answers that the branch doc
\* calls retryable (429, 500 to 599, none at all) never make it so, however many.
VerdictIsBacked ==
    \A w \in Workers : pc[w] = "returned" /\ verdict[w] =>
        /\ answered[job[w]] \cap FinalMeanings # {}
        /\ status[job[w]] # "absent"

\* What a worker has established at each statement: the row it claims is there,
\* and what it marks is what the service has answered.
WorkIsBacked ==
    \A w \in Workers :
        /\ pc[w] \notin {"idle", "insert", "returned"} => status[job[w]] # "absent"
        /\ pc[w] = "mark_processed" => "delivered" \in answered[job[w]]
        /\ pc[w] = "mark_failed" /\ outcome[w] = "permanent" =>
              answered[job[w]] \cap FinalMeanings # {}

\* The inductive invariant behind the invariants above.
IInv ==
    /\ TypeOK
    /\ ProcessedWasDelivered
    /\ CallsAreClaimed
    /\ VerdictIsBacked
    /\ WorkIsBacked

\* The offset is not committed before a durable "processed" or "failed".  True of
\* a worker that has the event to itself: see Worker.
VerdictIsDurable ==
    \A w \in Workers : pc[w] = "returned" /\ verdict[w] =>
        status[job[w]] \in {"processed", "failed"}

\* "processed" is final: no late claim, retry or failure of another worker
\* touches the row again.
ProcessedIsFinal ==
    [][\A e \in Events : status[e] = "processed" =>
          status'[e] = "processed" /\ attempts'[e] = attempts[e]]_vars
================================================================================
