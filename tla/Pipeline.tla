-------------------------------- MODULE Pipeline --------------------------------
(***************************************************************************)
(* The composition: AcceptEvent commits ledger and outbox rows, the         *)
(* publisher (OutboxPublisher) moves the rows to the topic, the worker      *)
(* (Worker) reads the same topic and completes the jobs, and the operator    *)
(* moves the schema up and down with goose under the running processes.     *)
(* A migration is one transaction; a statement on a table that does not     *)
(* exist, or with a status its CHECK forbids, fails.                        *)
(***************************************************************************)
EXTENDS Naturals, Sequences, FiniteSets

CONSTANTS
    Events, Publishers, Workers, Responses, Malformed, Nobody,
    MaxPublisherFaults,  \* bounds on the faults of OutboxPublisher,
    MaxWorkerFaults,     \*   of ConsumerCompletion,
    MaxRestarts,         \*   on deaths and lost partitions in Worker,
    MaxRollbacks         \*   and on migrations rolled back

VARIABLES
    ledger,      \* status of an event's processed_events row
    schema,      \* number of the last migration applied, 0 for none
    rollbacks,   \* migrations rolled back so far
    accepted,    \* history: events that have had a committed ledger row
    migrated,    \* history: events whose row migration 2 has taken over
    outbox, rowId, lastId, topic, late, pc, row, log, faults,  \* OutboxPublisher
    status, attempts, wpc, job, outcome, verdict, calls,       \* Worker
    answered, wfaults, owner, committed, position, start, todo, part, cursor,
    phase, handled, failed, restarts

Outbox == INSTANCE OutboxPublisher WITH
    Oversize <- {}, MaxFaults <- MaxPublisherFaults

\* The topic has one partition.
Consumer == INSTANCE Worker WITH
    Log <- <<<<>>>>, topic <- <<topic>>, pc <- wpc, faults <- wfaults,
    MaxFaults <- MaxWorkerFaults

ASSUME PipelineAssumption ==
    /\ Events # {} /\ Malformed \notin Events /\ Nobody \notin Workers
    /\ Responses \subseteq Consumer!Completion!AnyResponse
    /\ MaxRollbacks \in Nat

operatorVars == <<ledger, schema, rollbacks, accepted, migrated>>
outboxTable == <<outbox, rowId, lastId>>
publisherVars == <<late, pc, row, log, faults>>
completionsTable == <<status, attempts>>
workerVars ==
    <<wpc, job, outcome, verdict, calls, answered, wfaults, owner, committed,
      position, start, todo, part, cursor, phase, handled, failed, restarts>>
consumerVars == <<completionsTable, workerVars>>
vars == <<operatorVars, outboxTable, topic, publisherVars, consumerVars>>

LedgerExists == schema >= 1
OutboxExists == schema >= 2
CompletionsExist == schema >= 3

\* The tables hold only what the schema allows.
TypeOK ==
    /\ Outbox!TypeOK
    /\ Consumer!TypeOK
    /\ schema \in 0 .. 3
    /\ rollbacks \in Nat
    /\ accepted \subseteq Events
    /\ migrated \subseteq accepted
    /\ ledger \in [Events -> {"absent", "processed", "accepted"}]
    /\ ~LedgerExists => \A e \in Events : ledger[e] = "absent"
    /\ OutboxExists =>
          \A e \in Events : outbox[e] # "absent" => ledger[e] = "accepted"
    /\ ~OutboxExists =>
          \A e \in Events : ledger[e] # "accepted" /\ rowId[e] = 0
    /\ ~CompletionsExist => \A e \in Events : status[e] = "absent"

Init ==
    /\ ledger \in [Events -> {"absent", "processed"}]
    /\ schema = 1
    /\ rollbacks = 0
    /\ accepted = {e \in Events : ledger[e] # "absent"}
    /\ migrated = {}
    /\ Outbox!Init
    /\ Consumer!Init

--------------------------------------------------------------------------------
(* AcceptEvent: ledger row and outbox row in one transaction, see EventLedger *)

\* Before migration 2 the INSERT fails: its status violates the CHECK.
Insert(e) ==
    /\ OutboxExists
    /\ ledger[e] = "absent"
    /\ Outbox!Insert(e)
    /\ UNCHANGED <<operatorVars, consumerVars>>

CommitInsert(e) ==
    /\ Outbox!CommitInsert(e)
    /\ ledger' = [ledger EXCEPT ![e] = "accepted"]
    /\ accepted' = accepted \cup {e}
    /\ UNCHANGED <<schema, rollbacks, migrated, consumerVars>>

RollbackInsert(e) ==
    /\ Outbox!RollbackInsert(e)
    /\ UNCHANGED <<operatorVars, consumerVars>>

--------------------------------------------------------------------------------
(* The publisher and the worker under the current schema *)

\* What the publisher's statements meet before migration 2.
OutboxMissing(p) ==
    /\ ~OutboxExists
    /\ pc[p] \in {"poll", "mark"}
    /\ Outbox!Continue(p, "sleep", "outbox_publish_failed")
    /\ UNCHANGED <<outboxTable, topic, late, faults>>

PublisherStep(p) ==
    /\ \/ /\ OutboxExists \/ pc[p] \notin {"poll", "mark"}
          /\ Outbox!LoopStep(p)
       \/ OutboxMissing(p)
    /\ UNCHANGED <<operatorVars, consumerVars>>

RestartPublisher(p) ==
    /\ Outbox!Restart(p)
    /\ UNCHANGED <<operatorVars, consumerVars>>

PublisherFault(p) ==
    /\ OutboxExists \/ UNCHANGED outboxTable
    /\ Outbox!LoopFails(p)
    /\ UNCHANGED <<operatorVars, consumerVars>>

LateAppend(e) ==
    /\ Outbox!LateAppend(e)
    /\ UNCHANGED <<operatorVars, consumerVars>>

\* What the worker's statements meet before migration 3.
CompletionsMissing(w) ==
    /\ ~CompletionsExist
    /\ wpc[w] \in Consumer!Completion!StatementSteps
    /\ Consumer!Completion!Return(w, FALSE)
    /\ UNCHANGED <<completionsTable, calls, answered, wfaults, owner, committed,
                   position, start, todo, part, cursor, phase, handled, failed,
                   restarts>>

WorkerStep(w) ==
    /\ UNCHANGED <<operatorVars, outboxTable, topic, publisherVars>>
    /\ \/ /\ CompletionsExist \/ wpc[w] \notin Consumer!Completion!StatementSteps
          /\ Consumer!LoopStep(w) \/ Consumer!StoreStep(w)
       \/ CompletionsMissing(w)

RestartWorker(w) ==
    /\ UNCHANGED <<operatorVars, outboxTable, topic, publisherVars>>
    /\ Consumer!Restart(w)

WorkerFault(w) ==
    /\ UNCHANGED <<operatorVars, outboxTable, topic, publisherVars>>
    /\ CompletionsExist \/ UNCHANGED completionsTable
    /\ \/ Consumer!FetchFails(w) \/ Consumer!CommitFails(w)
       \/ Consumer!Die(w) \/ Consumer!Revoke(1)

Assign(w) ==
    /\ UNCHANGED <<operatorVars, outboxTable, topic, publisherVars>>
    /\ Consumer!Assign(1, w)

--------------------------------------------------------------------------------
(* The operator: goose up and down *)

Rename(from, to) ==
    ledger' = [e \in Events |-> IF ledger[e] = from THEN to ELSE ledger[e]]

UpLedger ==
    /\ schema = 0
    /\ schema' = 1
    /\ UNCHANGED <<ledger, rollbacks, accepted, migrated, outboxTable, topic,
                   publisherVars, consumerVars>>

UpAccepted ==
    /\ schema = 1
    /\ schema' = 2
    /\ Rename("processed", "accepted")
    /\ migrated' = migrated \cup {e \in Events : ledger[e] = "processed"}
    /\ UNCHANGED <<rollbacks, accepted, outboxTable, topic, publisherVars,
                   consumerVars>>

UpCompletions ==
    /\ schema = 2
    /\ schema' = 3
    /\ UNCHANGED <<ledger, rollbacks, accepted, migrated, outboxTable, topic,
                   publisherVars, consumerVars>>

RollBack(to) ==
    /\ rollbacks < MaxRollbacks
    /\ rollbacks' = rollbacks + 1
    /\ schema = to + 1
    /\ schema' = to

\* DROP TABLE consumer_completions.
DownCompletions ==
    /\ RollBack(2)
    /\ status' = [e \in Events |-> "absent"]
    /\ attempts' = [e \in Events |-> 0]
    /\ UNCHANGED <<ledger, accepted, migrated, outboxTable, topic, publisherVars,
                   workerVars>>

OpenInserts == {e \in Events : rowId[e] # 0 /\ outbox[e] = "absent"}

\* Mutant: the ledger keeps its "accepted" rows.
DownAcceptedKeepsLedger ==
    /\ RollBack(1)
    /\ OpenInserts = {}
    /\ outbox' = [e \in Events |-> "absent"]
    /\ rowId' = [e \in Events |-> 0]
    /\ lastId' = 0
    /\ UNCHANGED <<ledger, accepted, migrated, topic, publisherVars, consumerVars>>

\* DROP TABLE outbox_events waits for the transactions that write to it.
DownAccepted ==
    /\ RollBack(1)
    /\ OpenInserts = {}
    /\ outbox' = [e \in Events |-> "absent"]
    /\ rowId' = [e \in Events |-> 0]
    /\ lastId' = 0
    /\ Rename("accepted", "processed")
    /\ UNCHANGED <<accepted, migrated, topic, publisherVars, consumerVars>>

\* DROP TABLE processed_events: the next delivery of an event is a new one.
DownLedger ==
    /\ RollBack(0)
    /\ ledger' = [e \in Events |-> "absent"]
    /\ UNCHANGED <<accepted, migrated, outboxTable, topic, publisherVars,
                   consumerVars>>

--------------------------------------------------------------------------------
Next ==
    \/ \E e \in Events :
        Insert(e) \/ CommitInsert(e) \/ RollbackInsert(e) \/ LateAppend(e)
    \/ \E p \in Publishers :
        PublisherStep(p) \/ RestartPublisher(p) \/ PublisherFault(p)
    \/ \E w \in Workers :
        WorkerStep(w) \/ RestartWorker(w) \/ WorkerFault(w) \/ Assign(w)
    \/ UpLedger \/ UpAccepted \/ UpCompletions
    \/ DownCompletions \/ DownAccepted \/ DownLedger

\* Calls return and Kafka assigns a free partition to a live member.  Stopped
\* processes are started again: asked of the operator, since k8s/ deploys only the
\* API.  Nobody is bound to migrate.
Fairness ==
    /\ \A p \in Publishers :
        WF_vars(PublisherStep(p)) /\ WF_vars(RestartPublisher(p))
    /\ \A w \in Workers : WF_vars(WorkerStep(w)) /\ WF_vars(RestartWorker(w))
    /\ WF_vars(\E w \in Workers : Assign(w))

Spec == Init /\ [][Next]_vars
FairSpec == Spec /\ Fairness

--------------------------------------------------------------------------------
(* Properties *)

\* The pipeline implements Delivery: through crashes, late produce requests and
\* lost partitions a job goes downstream only for a committed ledger row, and a
\* lone worker repeats a processed job only after migration 3 was rolled back.
D == INSTANCE Delivery WITH
    settled <- {e \in Events : status[e] = "processed"}

ImplementsDelivery == D!Spec

\* An accepted event is in the outbox or on the topic.  What is neither was taken
\* over by migration 2 without an outbox row, from the old release or after a
\* rollback that dropped its pending row: nothing will ever deliver it, and a
\* redelivery from Stripe is answered as a duplicate.
StrandedOnlyByMigration ==
    \A e \in Events : ledger[e] = "accepted" =>
        outbox[e] = "pending" \/ Outbox!InTopic(e) \/ e \in migrated

\* An accepted event gets a final answer from downstream, unless a migration, a
\* failed record or a dropped fetch got in its way: a late commit, a stopped
\* publisher, a crash or a lost partition does not.
AcceptedIsDelivered ==
    \A e \in Events :
        ledger[e] = "accepted" /\ e \notin migrated
          ~> \/ answered[e] \cap Consumer!Completion!FinalMeanings # {}
             \/ failed[1] # {} \/ rollbacks > 0
================================================================================
