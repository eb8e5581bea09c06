--------------------------------- MODULE Worker ---------------------------------
(***************************************************************************)
(* The poll loop of cmd/worker/main.go over a consumer group: PollFetches,  *)
(* EachPartition with recordsSafeToCommit and CommitRecords, AllowRebalance. *)
(* Records are handled by the steps of ConsumerCompletion.  The client keeps *)
(* a fetch position per partition in memory, moved by every poll; committed *)
(* offsets are kept by the broker and read only when a partition is assigned, *)
(* after a restart or a rebalance.  BlockRebalanceOnPoll holds a rebalance   *)
(* back until AllowRebalance, but a member that overruns the group's          *)
(* rebalance timeout loses its partitions in the middle of a batch.          *)
(***************************************************************************)
EXTENDS Naturals, Sequences, FiniteSets

CONSTANTS
    Events, Workers, Responses, MaxFaults,  \* see ConsumerCompletion
    Log,          \* per partition, the events of the records it starts with
    Malformed,    \* a record that is no job, or a job without an event id
    Nobody,       \* the owner of an unassigned partition
    MaxRestarts   \* bound on process deaths and lost partitions

Partitions == DOMAIN Log

VARIABLES
    status, attempts, pc, job, outcome, verdict,    \* ConsumerCompletion
    calls, answered, faults,
    topic,        \* per partition, the events of its records; grows elsewhere
    owner,        \* the group member a partition is assigned to
    committed,    \* committed offset of a partition: the next record to read
    position,     \* a member's fetch position in a partition
    start,        \* its fetch positions before the last poll
    todo,         \* partitions of its fetch it has not come to yet
    part,         \* the partition it is working on
    cursor,       \* offset of the record it handles there
    phase,        \* where it is in the loop
    handled,      \* history: offsets for which handleRecord returned true
    failed,       \* history: offsets at which a fetch was given up since they were last
                  \*   handled: handleRecord returned false, or an error came with it
    restarts      \* deaths and lost partitions so far

Completion == INSTANCE ConsumerCompletion WITH MaxAttempts <- 1000

ASSUME WorkerAssumption ==
    /\ Events # {} /\ Malformed \notin Events
    /\ IsFiniteSet(Workers) /\ Nobody \notin Workers
    /\ Responses \subseteq Completion!AnyResponse
    /\ Partitions # {}
    /\ Log \in [Partitions -> Seq(Events \cup {Malformed})]
    /\ MaxFaults \in Nat /\ MaxRestarts \in Nat

completionVars ==
    <<status, attempts, pc, job, outcome, verdict, calls, answered, faults>>
groupVars == <<owner, committed, position>>
batchVars == <<start, todo, part, cursor>>
historyVars == <<handled, failed>>
vars ==
    <<completionVars, groupVars, batchVars, phase, historyVars, topic, restarts>>

RecordAt(p, o) == topic[p][o + 1]
Ends == UNION {0 .. Len(topic[p]) : p \in Partitions}
NoPart == CHOOSE p \in Partitions : TRUE
Zero == [p \in Partitions |-> 0]

TypeOK ==
    /\ Completion!TypeOK
    /\ topic \in [Partitions -> Seq(Events \cup {Malformed})]
    /\ owner \in [Partitions -> Workers \cup {Nobody}]
    /\ committed \in [Partitions -> Nat]
    /\ position \in [Workers -> [Partitions -> Nat]]
    /\ start \in [Workers -> [Partitions -> Nat]]
    /\ todo \in [Workers -> SUBSET Partitions]
    /\ part \in [Workers -> Partitions]
    /\ cursor \in [Workers -> Nat]
    /\ phase \in [Workers ->
          {"poll", "batch", "handle", "handling", "commit", "down"}]
    /\ handled \in [Partitions -> SUBSET Nat]
    /\ failed \in [Partitions -> SUBSET Nat]
    /\ restarts \in Nat

Init ==
    /\ Completion!Init
    /\ topic = Log
    /\ owner = [p \in Partitions |-> Nobody]
    /\ committed = Zero
    /\ position = [w \in Workers |-> Zero]
    /\ start = [w \in Workers |-> Zero]
    /\ todo = [w \in Workers |-> {}]
    /\ part = [w \in Workers |-> NoPart]
    /\ cursor = [w \in Workers |-> 0]
    /\ phase = [w \in Workers |-> "poll"]
    /\ handled = [p \in Partitions |-> {}]
    /\ failed = [p \in Partitions |-> {}]
    /\ restarts = 0

--------------------------------------------------------------------------------
(* The poll loop *)

Goto(w, step) == phase' = [phase EXCEPT ![w] = step]

\* A fetch brings the next records of some assigned partitions and moves the
\* fetch positions past them, whatever becomes of the records.
PollFetches(w) ==
    /\ phase[w] = "poll"
    /\ \E upto \in [Partitions -> Ends] :
        /\ upto # position[w]
        /\ \A p \in Partitions :
            /\ upto[p] \in position[w][p] .. Len(topic[p])
            /\ owner[p] # w => upto[p] = position[w][p]
        /\ position' = [position EXCEPT ![w] = upto]
        /\ todo' = [todo EXCEPT ![w] =
                       {p \in Partitions : upto[p] # position[w][p]}]
    /\ start' = [start EXCEPT ![w] = position[w]]
    /\ Goto(w, "batch")
    /\ UNCHANGED <<completionVars, owner, committed, part, cursor, historyVars,
                   topic, restarts>>

EachPartition(w) ==
    /\ phase[w] = "batch"
    /\ \E p \in todo[w] :
        /\ todo' = [todo EXCEPT ![w] = @ \ {p}]
        /\ part' = [part EXCEPT ![w] = p]
        /\ cursor' = [cursor EXCEPT ![w] = start[w][p]]
    /\ Goto(w, "handle")
    /\ UNCHANGED <<completionVars, groupVars, start, historyVars, topic, restarts>>

AllowRebalance(w) ==
    /\ phase[w] = "batch"
    /\ todo[w] = {}
    /\ start' = [start EXCEPT ![w] = Zero]
    /\ Goto(w, "poll")
    /\ UNCHANGED <<completionVars, groupVars, todo, part, cursor, historyVars,
                   topic, restarts>>

--------------------------------------------------------------------------------
(* recordsSafeToCommit: handle the records in order up to the first failure *)

Succeed(w) ==
    /\ cursor' = [cursor EXCEPT ![w] = @ + 1]
    /\ handled' = [handled EXCEPT ![part[w]] = @ \cup {cursor[w]}]
    /\ failed' = [failed EXCEPT ![part[w]] = @ \ {cursor[w]}]
    /\ Goto(w, "handle")

\* Mutant: the loop goes on after a record that was not handled.
BreakOffNever(w) ==
    /\ failed' = [failed EXCEPT ![part[w]] = @ \cup {cursor[w]}]
    /\ cursor' = [cursor EXCEPT ![w] = @ + 1]
    /\ Goto(w, "handle")
    /\ UNCHANGED handled

BreakOff(w) ==
    /\ failed' = [failed EXCEPT ![part[w]] = @ \cup {cursor[w]}]
    /\ Goto(w, "commit")
    /\ UNCHANGED <<cursor, handled>>

HandleRecord(w) ==
    /\ phase[w] = "handle"
    /\ cursor[w] < position[w][part[w]]
    /\ RecordAt(part[w], cursor[w]) # Malformed
    /\ Completion!Start(w, RecordAt(part[w], cursor[w]))
    /\ Goto(w, "handling")
    /\ UNCHANGED <<groupVars, batchVars, historyVars, topic, restarts>>

\* Unmarshal fails or stripe_event_id is empty: false before any store call.
RejectMalformed(w) ==
    /\ phase[w] = "handle"
    /\ cursor[w] < position[w][part[w]]
    /\ RecordAt(part[w], cursor[w]) = Malformed
    /\ BreakOff(w)
    /\ UNCHANGED <<completionVars, groupVars, start, todo, part, topic, restarts>>

RecordHandled(w) ==
    /\ phase[w] = "handling"
    /\ Completion!TakeVerdict(w)
    /\ IF verdict[w] THEN Succeed(w) ELSE BreakOff(w)
    /\ UNCHANGED <<groupVars, start, todo, part, topic, restarts>>

BatchHandled(w) ==
    /\ phase[w] = "handle"
    /\ cursor[w] = position[w][part[w]]
    /\ Goto(w, "commit")
    /\ UNCHANGED <<completionVars, groupVars, batchVars, historyVars, topic,
                   restarts>>

NextPartition(w) ==
    /\ part' = [part EXCEPT ![w] = NoPart]
    /\ cursor' = [cursor EXCEPT ![w] = 0]
    /\ Goto(w, "batch")
    /\ UNCHANGED <<start, todo>>

\* Mutant: the group takes the offsets of a member that lost the partition.
CommitUnfenced(w) ==
    /\ phase[w] = "commit"
    /\ committed' = IF cursor[w] > start[w][part[w]]
                    THEN [committed EXCEPT ![part[w]] = cursor[w]]
                    ELSE committed
    /\ NextPartition(w)
    /\ UNCHANGED <<completionVars, owner, position, historyVars, topic, restarts>>

\* CommitRecords, if the prefix is not empty; the group refuses the offsets of a
\* member that has lost the partition, which is only logged.
CommitRecords(w) ==
    /\ phase[w] = "commit"
    /\ committed' = IF cursor[w] > start[w][part[w]] /\ owner[part[w]] = w
                    THEN [committed EXCEPT ![part[w]] = cursor[w]]
                    ELSE committed
    /\ NextPartition(w)
    /\ UNCHANGED <<completionVars, owner, position, historyVars, topic, restarts>>

--------------------------------------------------------------------------------
(* Faults *)

\* A partition comes with an error beside its records: they are dropped, and the
\* fetch position stays behind them.
FetchFails(w) ==
    /\ phase[w] = "batch"
    /\ Completion!Fault
    /\ \E p \in todo[w] :
        /\ todo' = [todo EXCEPT ![w] = @ \ {p}]
        /\ failed' = [failed EXCEPT ![p] = @ \cup {start[w][p]}]
    /\ UNCHANGED <<status, attempts, pc, job, outcome, verdict, calls, answered,
                   groupVars, start, part, cursor, phase, handled, topic, restarts>>

CommitFails(w) ==
    /\ phase[w] = "commit"
    /\ Completion!Fault
    /\ NextPartition(w)
    /\ UNCHANGED <<status, attempts, pc, job, outcome, verdict, calls, answered,
                   groupVars, historyVars, topic, restarts>>

RestartBudget == restarts < MaxRestarts /\ restarts' = restarts + 1

\* The process is killed, or SIGTERM ends it; the group takes its partitions.
Die(w) ==
    /\ phase[w] # "down"
    /\ RestartBudget
    /\ Completion!Die(w)
    /\ owner' = [p \in Partitions |-> IF owner[p] = w THEN Nobody ELSE owner[p]]
    /\ start' = [start EXCEPT ![w] = Zero]
    /\ todo' = [todo EXCEPT ![w] = {}]
    /\ part' = [part EXCEPT ![w] = NoPart]
    /\ cursor' = [cursor EXCEPT ![w] = 0]
    /\ Goto(w, "down")
    /\ UNCHANGED <<faults, committed, position, historyVars, topic>>

Restart(w) ==
    /\ phase[w] = "down"
    /\ Goto(w, "poll")
    /\ UNCHANGED <<completionVars, groupVars, batchVars, historyVars, topic,
                   restarts>>

\* A rebalance while the member polls, or its eviction during a batch.
Revoke(p) ==
    /\ owner[p] # Nobody
    /\ RestartBudget
    /\ owner' = [owner EXCEPT ![p] = Nobody]
    /\ UNCHANGED <<completionVars, committed, position, batchVars, phase,
                   historyVars, topic>>

\* Mutant: a member keeps the position of its last fetch.
AssignAtPosition(p, w) ==
    /\ owner[p] = Nobody
    /\ phase[w] = "poll"
    /\ owner' = [owner EXCEPT ![p] = w]
    /\ UNCHANGED <<completionVars, committed, position, batchVars, phase,
                   historyVars, topic, restarts>>

\* The new owner starts at the committed offset.
Assign(p, w) ==
    /\ owner[p] = Nobody
    /\ phase[w] = "poll"
    /\ owner' = [owner EXCEPT ![p] = w]
    /\ position' = [position EXCEPT ![w][p] = committed[p]]
    /\ UNCHANGED <<completionVars, committed, batchVars, phase, historyVars, topic,
                   restarts>>

--------------------------------------------------------------------------------
StoreStep(w) ==
    /\ Completion!HandleStep(w) \/ Completion!StatementFails(w)
    /\ UNCHANGED <<groupVars, batchVars, phase, historyVars, topic, restarts>>

LoopStep(w) ==
    \/ PollFetches(w) \/ EachPartition(w) \/ AllowRebalance(w)
    \/ HandleRecord(w) \/ RejectMalformed(w) \/ RecordHandled(w)
    \/ BatchHandled(w) \/ CommitRecords(w)

Next ==
    \/ \E w \in Workers :
        \/ LoopStep(w) \/ StoreStep(w) \/ FetchFails(w) \/ CommitFails(w)
        \/ Die(w) \/ Restart(w)
    \/ \E p \in Partitions :
        \/ Revoke(p)
        \/ \E w \in Workers : Assign(p, w)

\* A worker's calls return and Kafka assigns free partitions to live members.  That
\* a dead worker is started again is asked of its operator: k8s/ deploys only the API.
Fairness ==
    /\ \A w \in Workers :
        /\ WF_vars(LoopStep(w)) /\ WF_vars(StoreStep(w)) /\ WF_vars(Restart(w))
    /\ \A p \in Partitions : WF_vars(\E w \in Workers : Assign(p, w))

Spec == Init /\ [][Next]_vars
FairSpec == Spec /\ Fairness

--------------------------------------------------------------------------------
(* Properties *)

Settled(r) == r # Malformed /\ answered[r] \cap Completion!FinalMeanings # {}

\* The record just below a committed offset was handled, and its job has a final
\* answer, not only retryable ones: no crash, eviction, dropped fetch or commit
\* error lets the offset get ahead of the completion row.
CommitFollowsOutcome ==
    \A p \in Partitions :
        committed[p] > 0 =>
            /\ committed[p] - 1 \in handled[p]
            /\ Settled(RecordAt(p, committed[p] - 1))

\* With no failing record and no dropped fetch, no offset below the committed one
\* was skipped: crashes, rebalances and evictions skip none.
EveryCommittedHandled ==
    \A p \in Partitions : \A o \in 0 .. committed[p] - 1 : o \in handled[p]

\* A worker that has the events to itself, through crashes and duplicates on the
\* topic: true means a durable row, and a processed job is not sent again.
VerdictIsDurable == Completion!VerdictIsDurable
NoCallOnceProcessed ==
    [][\A e \in Events : calls'[e] # calls[e] => status[e] # "processed"]_vars

\* A committed offset never moves back, not even by the late commit of a member
\* that has lost the partition to another one.
CommittedNeverRegresses ==
    [][\A p \in Partitions : committed'[p] >= committed[p]]_vars

\* cmd/worker/partition.go: a later offset is never committed after an earlier
\* failure in the same partition.  Here the failure is handleRecord's.
NoCommitPastFailure ==
    \A p \in Partitions : \A o \in failed[p] : committed[p] <= o

\* docs/branches/19-downstream-http.md: a permanent error is terminal, its job is
\* not sent downstream again once handleRecord has recorded it.
PermanentIsTerminal ==
    [][\A p \in Partitions : \A o \in handled[p] :
          answered[RecordAt(p, o)] = {"refused"} =>
              calls'[RecordAt(p, o)] = calls[RecordAt(p, o)]]_vars

\* docs/branches/19-downstream-http.md: a malformed job is a permanent failure,
\* its offset is committed so that it does not come back.
MalformedIsCommitted ==
    \A p \in Partitions : \A o \in 0 .. Len(Log[p]) - 1 :
        RecordAt(p, o) = Malformed => <>(committed[p] > o)

\* Every record that comes before any malformed one is handled in the end, after
\* crashes, restarts and lost partitions.
EveryRecordHandled ==
    \A p \in Partitions : \A o \in 0 .. Len(Log[p]) - 1 :
        (\A i \in 0 .. o : RecordAt(p, i) # Malformed) => <>(o \in handled[p])
================================================================================
