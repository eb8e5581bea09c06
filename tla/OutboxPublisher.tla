---------------------------- MODULE OutboxPublisher ----------------------------
(***************************************************************************)
(* The transactional outbox and the loop that drains it (cmd/publisher):    *)
(* NextPendingOutbox, publishOutbox, MarkOutboxPublished, sleep.            *)
(* One publisher is meant to run; a rollout runs an old and a new one side  *)
(* by side.  Rows come from AcceptEvent transactions, which take their      *)
(* BIGSERIAL id when they insert and commit later, in any order.  A produce *)
(* request that the publisher has given up on may still reach the broker.   *)
(***************************************************************************)
EXTENDS Naturals, Sequences, FiniteSets

CONSTANTS
    Events,       \* event ids, unique in outbox_events
    Publishers,   \* publisher processes
    Oversize,     \* events whose payload exceeds the broker's message limit
    MaxFaults     \* bound on failed calls, rolled-back inserts and stops

ASSUME PublisherAssumption ==
    /\ Oversize \subseteq Events
    /\ Events # {} /\ IsFiniteSet(Publishers)
    /\ MaxFaults \in Nat

VARIABLES
    outbox,     \* status of an event's outbox row, "absent" before its COMMIT
    rowId,      \* its id, 0 before the INSERT
    lastId,     \* the sequence behind the id column
    topic,      \* the Kafka topic: event ids in the order of the log
    late,       \* per event: abandoned produce requests not yet at the broker
    pc,         \* the call a publisher makes next
    row,        \* the row it has selected
    log,        \* the last message it has logged
    faults      \* faults so far (bounded by MaxFaults)

rows == <<outbox, rowId, lastId>>
kafka == <<topic, late>>
vars == <<rows, kafka, pc, row, log, faults>>

Messages == {"none", "outbox_publish_succeeded", "outbox_publish_failed",
             "outbox_mark_published_failed"}

\* What an empty row variable holds; never read.
NoRow == CHOOSE e \in Events : TRUE

TypeOK ==
    /\ outbox \in [Events -> {"absent", "pending", "published"}]
    /\ rowId \in [Events -> Nat]
    /\ lastId \in Nat
    /\ topic \in Seq(Events)
    /\ late \in [Events -> Nat]
    /\ pc \in [Publishers -> {"poll", "produce", "mark", "sleep", "stopped"}]
    /\ row \in [Publishers -> Events]
    /\ log \in [Publishers -> Messages]
    /\ faults \in Nat

Init ==
    /\ outbox = [e \in Events |-> "absent"]
    /\ rowId = [e \in Events |-> 0]
    /\ lastId = 0
    /\ topic = <<>>
    /\ late = [e \in Events |-> 0]
    /\ pc = [p \in Publishers |-> "poll"]
    /\ row = [p \in Publishers |-> NoRow]
    /\ log = [p \in Publishers |-> "none"]
    /\ faults = 0

Fault == faults < MaxFaults /\ faults' = faults + 1

--------------------------------------------------------------------------------
(* The rows: AcceptEvent's INSERT INTO outbox_events and its COMMIT *)

Insert(e) ==
    /\ rowId[e] = 0
    /\ lastId' = lastId + 1
    /\ rowId' = [rowId EXCEPT ![e] = lastId + 1]
    /\ UNCHANGED <<outbox, kafka, pc, row, log, faults>>

CommitInsert(e) ==
    /\ rowId[e] # 0
    /\ outbox[e] = "absent"
    /\ outbox' = [outbox EXCEPT ![e] = "pending"]
    /\ UNCHANGED <<rowId, lastId, kafka, pc, row, log, faults>>

\* The id is spent; a redelivery of the event inserts with a new one.
RollbackInsert(e) ==
    /\ rowId[e] # 0
    /\ outbox[e] = "absent"
    /\ Fault
    /\ rowId' = [rowId EXCEPT ![e] = 0]
    /\ UNCHANGED <<outbox, lastId, kafka, pc, row, log>>

--------------------------------------------------------------------------------
(* The publisher loop *)

\* Mutant: rows of open transactions are visible.
PendingUncommitted == {e \in Events : rowId[e] # 0 /\ outbox[e] # "published"}

Pending == {e \in Events : outbox[e] = "pending"}

\* The publisher leaves the iteration for step, with message m logged.
Continue(p, step, m) ==
    /\ pc' = [pc EXCEPT ![p] = step]
    /\ row' = [row EXCEPT ![p] = NoRow]
    /\ log' = [log EXCEPT ![p] = m]

\* Mutant: the publisher remembers the greatest id it has published.
NextAboveWatermark(p) ==
    /\ pc[p] = "poll"
    /\ \E e \in Pending :
        /\ \A f \in Pending : rowId[e] <= rowId[f]
        /\ \A f \in Events : outbox[f] = "published" => rowId[f] < rowId[e]
        /\ row' = [row EXCEPT ![p] = e]
    /\ pc' = [pc EXCEPT ![p] = "produce"]
    /\ UNCHANGED <<rows, kafka, log, faults>>

\* ORDER BY id LIMIT 1 over the rows committed by now.
NextPendingOutbox(p) ==
    /\ pc[p] = "poll"
    /\ \E e \in Pending :
        /\ \A f \in Pending : rowId[e] <= rowId[f]
        /\ row' = [row EXCEPT ![p] = e]
    /\ pc' = [pc EXCEPT ![p] = "produce"]
    /\ UNCHANGED <<rows, kafka, log, faults>>

NothingPending(p) ==
    /\ pc[p] = "poll"
    /\ Pending = {}
    /\ Continue(p, "sleep", log[p])
    /\ UNCHANGED <<rows, kafka, faults>>

\* ProduceSync returns without an error: all in-sync replicas have the record.
Produce(p) ==
    /\ pc[p] = "produce"
    /\ row[p] \notin Oversize
    /\ topic' = Append(topic, row[p])
    /\ pc' = [pc EXCEPT ![p] = "mark"]
    /\ UNCHANGED <<rows, late, row, log, faults>>

ProduceRefused(p) ==
    /\ pc[p] = "produce"
    /\ row[p] \in Oversize
    /\ Continue(p, "sleep", "outbox_publish_failed")
    /\ UNCHANGED <<rows, kafka, faults>>

\* The table after UPDATE ... WHERE event_id = e AND status = 'pending'.
Marked(e) ==
    IF outbox[e] = "pending" THEN [outbox EXCEPT ![e] = "published"] ELSE outbox

\* Mutant: the UPDATE never matches, because it looks for another status.
MarkNothing(p) ==
    /\ pc[p] = "mark"
    /\ Continue(p, "poll", "outbox_publish_succeeded")
    /\ UNCHANGED <<rows, kafka, faults>>

\* Mutant: a status outside the CHECK constraint.
MarkSent(p) ==
    /\ pc[p] = "mark"
    /\ outbox' = [outbox EXCEPT ![row[p]] = "sent"]
    /\ Continue(p, "poll", "outbox_publish_succeeded")
    /\ UNCHANGED <<rowId, lastId, kafka, faults>>

\* UPDATE ... WHERE status = 'pending'; zero rows when another publisher was
\* faster.
MarkOutboxPublished(p) ==
    /\ pc[p] = "mark"
    /\ IF outbox[row[p]] = "pending"
       THEN /\ outbox' = [outbox EXCEPT ![row[p]] = "published"]
            /\ Continue(p, "poll", "outbox_publish_succeeded")
       ELSE /\ UNCHANGED outbox
            /\ Continue(p, "sleep", "outbox_mark_published_failed")
    /\ UNCHANGED <<rowId, lastId, kafka, faults>>

Wake(p) ==
    /\ pc[p] = "sleep"
    /\ pc' = [pc EXCEPT ![p] = "poll"]
    /\ UNCHANGED <<rows, kafka, row, log, faults>>

--------------------------------------------------------------------------------
(* Faults *)

SelectFails(p) ==
    /\ pc[p] = "poll"
    /\ Fault
    /\ Continue(p, "sleep", "outbox_publish_failed")
    /\ UNCHANGED <<rows, kafka>>

\* An error, a lost acknowledgement or a cancelled context: nobody waits for the
\* request any more, and LateAppend may still happen.
Abandon(e) ==
    late' = IF e \in Oversize THEN late ELSE [late EXCEPT ![e] = @ + 1]

\* Mutant: the error of publishOutbox is not looked at.
ProduceFailsUnseen(p) ==
    /\ pc[p] = "produce"
    /\ Fault
    /\ Abandon(row[p])
    /\ pc' = [pc EXCEPT ![p] = "mark"]
    /\ UNCHANGED <<rows, topic, row, log>>

\* Mutant: the row is set back to pending after a failure.
ProduceFailsResets(p) ==
    /\ pc[p] = "produce"
    /\ Fault
    /\ Abandon(row[p])
    /\ outbox' = [outbox EXCEPT ![row[p]] = "pending"]
    /\ Continue(p, "sleep", "outbox_publish_failed")
    /\ UNCHANGED <<rowId, lastId, topic>>

ProduceFails(p) ==
    /\ pc[p] = "produce"
    /\ Fault
    /\ Abandon(row[p])
    /\ Continue(p, "sleep", "outbox_publish_failed")
    /\ UNCHANGED <<rows, topic>>

LateAppend(e) ==
    /\ late[e] > 0
    /\ late' = [late EXCEPT ![e] = @ - 1]
    /\ topic' = Append(topic, e)
    /\ UNCHANGED <<rows, pc, row, log, faults>>

\* The UPDATE fails, or succeeds without its answer arriving.
MarkFails(p) ==
    /\ pc[p] = "mark"
    /\ Fault
    /\ outbox' \in {outbox, Marked(row[p])}
    /\ Continue(p, "sleep", "outbox_publish_failed")
    /\ UNCHANGED <<rowId, lastId, kafka>>

\* SIGTERM cancels the context of the call under way, or the process dies.
Stop(p) ==
    /\ pc[p] # "stopped"
    /\ Fault
    /\ IF pc[p] = "produce" THEN Abandon(row[p]) ELSE UNCHANGED late
    /\ outbox' \in IF pc[p] = "mark"
                   THEN {outbox, Marked(row[p])}
                   ELSE {outbox}
    /\ Continue(p, "stopped", "none")
    /\ UNCHANGED <<rowId, lastId, topic>>

\* The process is started again, by whoever runs it.
Restart(p) ==
    /\ pc[p] = "stopped"
    /\ pc' = [pc EXCEPT ![p] = "poll"]
    /\ UNCHANGED <<rows, kafka, row, log, faults>>

--------------------------------------------------------------------------------
LoopStep(p) ==
    \/ NextPendingOutbox(p) \/ NothingPending(p) \/ Produce(p)
    \/ ProduceRefused(p) \/ MarkOutboxPublished(p) \/ Wake(p)

LoopFails(p) == SelectFails(p) \/ ProduceFails(p) \/ MarkFails(p) \/ Stop(p)

RowStep(e) == Insert(e) \/ CommitInsert(e) \/ RollbackInsert(e)

Next ==
    \/ \E e \in Events : RowStep(e) \/ LateAppend(e)
    \/ \E p \in Publishers : LoopStep(p) \/ LoopFails(p) \/ Restart(p)

\* A publisher's calls return and its sleeps end.  That a stopped one is started
\* again is asked of its operator: k8s/ deploys only the API.
Fairness == \A p \in Publishers : WF_vars(LoopStep(p)) /\ WF_vars(Restart(p))

Spec == Init /\ [][Next]_vars
FairSpec == Spec /\ Fairness

--------------------------------------------------------------------------------
(* Properties *)

Copies(e) == Cardinality({i \in DOMAIN topic : topic[i] = e})
InTopic(e) == \E i \in DOMAIN topic : topic[i] = e

\* A row is marked only after the broker has acknowledged its record: stops, lost
\* answers and a second publisher never mark a row whose record was lost.
PublishedIsInTopic == \A e \in Events : outbox[e] = "published" => InTopic(e)

\* Nothing reaches Kafka, not even late, from a transaction that may roll back.
TopicIsCommitted ==
    \A e \in Events : InTopic(e) \/ late[e] > 0 => outbox[e] # "absent"

\* A row under way at a publisher is committed, and acknowledged before its mark.
WorkIsCommitted ==
    \A p \in Publishers :
        /\ pc[p] \in {"produce", "mark"} => outbox[row[p]] # "absent"
        /\ pc[p] = "mark" => InTopic(row[p])

\* The inductive invariant behind the two invariants above.
IInv == TypeOK /\ PublishedIsInTopic /\ TopicIsCommitted /\ WorkIsCommitted

\* The publisher repeats a record only because of a fault or another publisher:
\* each publisher accounts for one copy and each fault for one more.
CopiesAreAccountedFor ==
    \A e \in Events : Copies(e) + late[e] <= Cardinality(Publishers) + faults

\* A published row is never pending again, although a stale publisher may still
\* be at work on it.
PublishedStaysPublished ==
    [][\A e \in Events : outbox[e] = "published" => outbox'[e] = "published"]_vars

\* Every committed row is published in the end, also one that committed after
\* rows with greater ids, unless a refused row with a smaller id blocks the head
\* of the outbox.
PendingIsPublished ==
    \A e \in Events \ Oversize :
        /\ outbox[e] = "pending"
        /\ \A f \in Oversize : rowId[f] # 0 => rowId[e] < rowId[f]
        ~> outbox[e] = "published"

\* docs/branches/17-kafka-outbox.md: when the record is on the topic and marking
\* its row fails, the log says so with outbox_mark_published_failed.
MarkFailureIsLogged ==
    [][\A p \in Publishers : pc[p] = "mark" /\ pc'[p] = "sleep" =>
          log'[p] = "outbox_mark_published_failed"]_vars
================================================================================
