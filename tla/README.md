# Formal model of the webhook integration engine

TLA+ modules, TLC model-checking runs and TLAPS proofs for the program in `src/`:
Stripe webhook -> Postgres ledger and outbox -> Kafka -> worker -> downstream HTTP.

## 1. Inventory

| Component (source) | State it keeps | Operations | Talks to | Hard behaviour |
|---|---|---|---|---|
| Webhook endpoint (`cmd/api/handlers.go`) | per request only | `handleStripeWebhook`: read body, verify, `AcceptEvent`, `Status`, respond | Stripe (redelivers until a 2xx), store | concurrent deliveries of one event over pods, lost responses, shutdown in mid-request |
| Event ledger and outbox insert (`internal/store/postgres.go`) | `processed_events`, `outbox_events` | `AcceptEvent`, `ProcessEvent`, `Status` | Postgres, READ COMMITTED | waiting on a unique key, rollback at every statement, commit whose answer is lost |
| Outbox publisher (`cmd/publisher`) | none of its own; row status in `outbox_events` | `NextPendingOutbox`, `publishOutbox`, `MarkOutboxPublished`, sleep | Postgres, Kafka | crash between produce and mark, overlapping publishers, ids that commit out of order, a refused record at the head |
| Completion ledger (`internal/store/postgres.go`) | `consumer_completions` | `ClaimConsumerCompletion`, `MarkConsumerProcessed`, `MarkConsumerFailed` | Postgres | a claim of up to three separate statements, two workers on one row |
| Record handling (`cmd/worker`: `handleRecord`, `handleJob`, `DeliverJob`, `JobError`) | none | claim, POST, mark, verdict | store, downstream | ignored row count, crash around the POST |
| Worker poll loop (`cmd/worker/main.go`, `partition.go`) | fetch positions (client memory), committed offsets (broker) | `PollFetches`, `recordsSafeToCommit`, `CommitRecords`, `AllowRebalance` | Kafka consumer group | fetch position and committed offset drift apart, a fetch dropped with its error, eviction in mid-batch |
| API lifecycle and middleware (`cmd/api/main.go`, `recover.go`, `requestlog.go`) | response recorder, the listener's goroutine | start, `ListenAndServe`, `Shutdown`, `Recover`, `RequestLog`, probes | every request, Kubernetes | panic after the response has started, drain deadline, a signal before `signal.Notify` |
| Schema migrations (`migrations/`) | the tables | up, down | Postgres | rows accepted before the outbox existed; a down that drops pending rows |
| Configuration (`internal/config`) | none | `Load`, `LoadPublisher`, `LoadWorker` | environment | a setting that passes the check and is still unusable |
| Job and Stripe types (`internal/engine`), debug helper (`internal/dbg`) | none | plain data | | |
| Deployment (`k8s/`, `openshift/`, `infra/`, `scripts/`, `.github/`) | | | | restarts and overlapping replicas |

What makes each component correct:

- *Endpoint*: a 204 means the event is durable; a row has a signed request behind it; redelivery ends.
- *Ledger*: one claim per event; ledger and outbox rows appear together; no reader sees an uncommitted row.
- *Publisher*: a row is marked only after its record is on the topic; every committed row is published; duplicates have a cause.
- *Completion ledger*: `processed` is final and backed by a 2xx; every request downstream has its own counted claim.
- *Worker*: an offset is committed only behind a settled job; nothing is skipped; offsets never move back.
- *Middleware*: the access log says what the client got; a response is begun once.
- *Lifecycle*: a process that serves is configured, and serves again after any fault;
  only force or the drain deadline cuts off a request, and SIGTERM drains.
- *Migrations*: an accepted event has a path to Kafka unless a migration took it over.
- *The whole*: a job goes downstream only for an accepted event, never again once its
  row says processed, and in the end for each accepted event that nothing refuses.

`PROJECT.json` lists the hazards behind these statements, each at its source line.

## 2. Modules

| Module | Models | Depends on |
|---|---|---|
| `AtomicClaim` | the promise of `AcceptEvent` / `ProcessEvent` in `store.go`: one indivisible claim | |
| `EventLedger` | those methods and `Status`, one action per SQL statement | refines `AtomicClaim` |
| `EventLedger_proofs` | inductive invariant, its consequences, the refinement | `EventLedger` |
| `WebhookIngest` | `handleStripeWebhook` over the store's methods | `EventLedger` |
| `OutboxPublisher` | outbox rows, the publisher loop, the topic | |
| `JobOutcome` | `DeliverJob` and `classifyHTTPStatus`, over all status codes | |
| `ConsumerCompletion` | `handleRecord` and the completion methods, one action per statement | `JobOutcome` |
| `Worker` | poll loop, commit, consumer group | `ConsumerCompletion` |
| `Delivery` | the promise of the whole system: accept, send, settle | |
| `Pipeline` | intake, publisher, worker and migrations in one | `OutboxPublisher`, `Worker`; refines `Delivery` |
| `Config` | the loaders of `internal/config` | |
| `ApiServer` | start, listener, shutdown, middleware, probes; the start of the other two commands | `Config` |
| `WebhookIngest_proofs` | a 204 is durable; only signed requests write rows | `WebhookIngest`, `EventLedger_proofs` |
| `OutboxPublisher_proofs` | at-least-once publication of committed rows | `OutboxPublisher` |
| `OutboxCopies_proofs` | the bound on duplicates | `OutboxPublisher_proofs` |
| `ConsumerCompletion_proofs` | processed rows, counted claims, backed verdicts, the classes of the documented status codes | `ConsumerCompletion` |
| `Worker_proofs` | commit discipline of a consumer group; what a lone worker skips, repeats and records | `Worker`, `ConsumerCompletion_proofs` |
| `Pipeline_proofs` | types, stranded events and commits under migrations; the refinement of `Delivery` | `Pipeline` |
| `ApiServer_proofs` | access log, drain, who serves is configured | `ApiServer` |
| `MC*` | constants of the TLC runs | |

### EventLedger and AtomicClaim

A *session* is one store call in flight, in any pod. `pc` is the statement it
executes next, `draft` what its open transaction has written. `ledger` and
`outbox` hold committed rows only, so another session sees a row exactly after
`Commit`. `INSERT ... ON CONFLICT DO NOTHING` is two actions: `InsertClaims`
(the key is free and no open transaction holds it) and `InsertConflicts` (a
committed row exists); while neither is enabled the session waits, as in
Postgres. `StatementFails`, `CommitAnswerLost` and `Crash` are the failures.
`Unstorable` events have a payload that the `jsonb` column rejects (for example
with `\u0000`): their outbox INSERT fails each time. `Legacy` events were
migrated to `accepted` by migration 00002 and have no outbox row.
`claims` is a history variable.

### WebhookIngest

`http` is the place of a request in the handler; `kind` abstracts the body and
the signature header to the four cases the early returns tell apart. The store's
own steps are `StoreStep`. Stripe is the action `Receive`: any issued event, at
any time, any number of times. `RequestLost` is a dead pod, a handler cut off by
`Shutdown`, or a response that does not arrive. `json.Marshal` of the job is not
given a failure: its payload is raw JSON that was parsed before.

### OutboxPublisher

`Insert` takes the BIGSERIAL id, `CommitInsert` makes the row visible, so rows
appear in any order of ids. `Produce` is `ProduceSync` with an answer;
`ProduceFails` abandons a request that `LateAppend` may still put on the topic at
any later time. `Oversize` events are refused by the broker each time: the
endpoint accepts bodies up to 1 MiB and the broker's default limit is about the
same. `log` is the last message a publisher wrote; it is there for one property.

### ConsumerCompletion

The three statements of `ClaimConsumerCompletion` are autocommitted one by one;
`Effect` is what the server does with a statement, whether or not the answer
arrives. `Deliver` is one POST: the answer is a status code or none at all, and
`JobOutcome` gives it the class that `DeliverJob` and `JobError` make of it.
`answered` keeps what the service has *meant* by its answers, so that a wrong class
shows as a row that nothing backs. The meanings are those of docs/branches/19:81-87 and
no more: 2xx is `delivered`, 400, 404 and 422 are `refused`, 429, 5xx and no answer are
`unavailable`. For 1xx, 3xx, the rest of 4xx and 600 and above it documents nothing; they
are `unclassified`, and what the default branch of `classifyHTTPStatus` does with them is
neither right nor wrong to the properties. A *final* meaning (`FinalMeanings`) is any but
`unavailable`.
A statement under way when its process dies takes effect before the process's
successor starts. `calls` and `answered` are history variables.

### Worker

`position` is the fetch position the client keeps in memory and `PollFetches`
moves; `committed` is the broker's offset, which is read only by `Assign`. One
fetch may bring several partitions (`todo`), worked off one by one (`part`,
`cursor`). `Revoke` is a rebalance, or, while its owner is inside a batch, the
eviction that `BlockRebalanceOnPoll` cannot prevent; `CommitRecords` of a worker
that is no longer the owner is refused and, as in the code, only logged.
`FetchFails` is the early return for a partition that comes with an error: records that
came beside it are dropped, and `position` stays behind them. `failed` keeps where a fetch
was given up: at the record whose `handleRecord` returned false, or at the first of a
dropped fetch.
The partitions start with a constant `Log`; the variable `topic` never changes in
`Worker` itself and is the publisher's in `Pipeline`. A fetch may end anywhere,
which covers records that arrive later.

### Pipeline and Delivery

`Pipeline` instantiates `OutboxPublisher` and `Worker` over one set of variables: the
publisher appends to the topic that the worker's only partition is. `AcceptEvent` is
here its two visible steps, the INSERT that takes an id and the commit; `EventLedger`
shows that the commit is indivisible. `schema` is the number of the last migration
applied. The operator moves it up and down between 0 and 3 at any time, under running
processes; each migration is one transaction with its effect on the rows (rename of the
status, dropped tables). A statement on a table that is missing fails
(`OutboxMissing`, `CompletionsMissing`), and the loop goes on as the code does after
an error. `DROP TABLE outbox_events` waits for open INSERTs. The first
version of the program, which only knew migration 1, is the initial state: its rows are
`processed`.

`Delivery` is the abstract machine: accept, send, settle, and `Forget` for a rollback of
migration 3. The mapping takes `settled` from the completion rows that say
`processed`; the other variables have the same names.

### ApiServer and Config

One process at a time of any of the three commands, in an environment that is chosen
once and stays (a Deployment restarts a pod with the same settings). `Config` gives each
setting by the class of its value and each loader as its list of checks in the source's
order. What a loader cannot see is found later: `unreachable` by the ping in `NewPostgres`,
`malformed` brokers by `kgo.NewClient`, a `taken` port by `ListenAndServe` in its own
goroutine. `Terminate` is a SIGTERM that nobody has asked for yet: before `signal.Notify`
it ends the process by its default action, in `notify` with requests possibly in flight.
`Kill` is SIGKILL. `Arrive`, `Respond`, `Finish` and `Recover` are one request's way through
`Recover(RequestLog(mux))`; a panic may come before or after the response. The recorder,
the response and the log are kept apart (`recorded`, `written`, `logged`): `written` is the
sequence of status codes that `net/http` was given, and `wire`, its first one, what the
client gets.
The loader's errors about `POLL_INTERVAL` speak of `PUBLISHER_POLL_INTERVAL`, which is
no variable that the code reads; the model keeps the name.

## 3. Runs

| Run | Bounds | Shows |
|---|---|---|
| `ledger` | 3 events (one plain, one unstorable, one legacy), 2 sessions, 2 faults | the intake methods are atomic, exclusive and wait-free of deadlock; refinement of `AtomicClaim` |
| `ingest` | 4 event ids (plain, forged, legacy, unstorable), 2 requests at a time, 2 faults | a 204 is durable, only steps of signed requests write rows, redelivery ends |
| `outbox` | 3 rows (one refused), 2 publishers, 1 fault | at-least-once publication, bounded duplicates, progress |
| `completion` | 1 event, 2 workers, 2 faults, new records while `attempt_count` < 3 | the claim under interleaving |
| `worker` | 2 workers, 1 partition of 2 records, all outcomes, 1 fault, 2 restarts or lost partitions | commit discipline of a group, with dropped fetches among the faults |
| `worker_alone` | 1 worker, 2 partitions with a duplicate and a malformed record, 2 restarts or lost partitions, no failing delivery | nothing skipped, nothing repeated, everything handled |
| `pipeline` | 1 event, 1 publisher, 1 worker, 1 fault each, 1 restart or lost partition, 2 rollbacks of any migration, responses 200, 404 and 503 | refinement of `Delivery`; stranded events have a migration behind them; an accepted event is delivered |
| `api` | all environments of all commands, 2 requests at a time, 2 outages, signals or kills | who serves is configured and serves again; access log and drain |
| `outbox_log`, `worker_skips`, `worker_repeats`, `worker_malformed` | the smallest that show it | disagreements between code and documentation, section 5 |

Two sessions, workers or publishers are enough for every race on one row, which
has one holder and one competitor; the proofs lift these bounds for most of the safety
properties. In `pipeline` one event is the most that stays checkable; the order among
events, and two publishers or workers on one row, are in `outbox`, `worker` and
`completion`, and what is new in `pipeline` is the way of one event through all the parts
under a changing schema. Two rollbacks allow a migration to be undone, applied and undone
again. In `api` requests do not influence each other except through the process, so two
show the drain with one of them answered.
Fault budgets of one or two allow a fault in the recovery from a fault.
`CHECK_DEADLOCK FALSE` stands in the worker and pipeline runs: the topic's records come to
an end and the workers then wait in `PollFetches`; in `api` a process may serve for ever
once the requests and faults are used up; in `completion` the records end
with `MaxAttempts`.

Each module also defines operators marked `Mutant:`. They are faulty variants of
the definition they precede, used to confirm that the properties notice them;
nothing in the models refers to them.

## 4. Fairness

- `EventLedger`: weak fairness of statements. A session that waits for a key waits
  for one transaction, and when that commits the wait is over. An unstorable
  event's sessions may overtake each other for ever, so `CallsReturn` leaves it out.
- `WebhookIngest`: weak fairness of handlers and statements; strong fairness of the
  redelivery of each issued event, because `net/http` gives every request a
  goroutine of its own and other requests never use the sessions up.
- `OutboxPublisher`: weak fairness of the loop and of the restart.
- `Worker`: weak fairness of the loop, the restart, and the assignment of free partitions.
- The restarts of the publisher and the worker are an assumption about their operation,
  not something the repository provides: `k8s/` deploys the API only, and `PLAN.md:49`
  pauses the deployment of the other two. Without it a dead publisher or worker stays
  dead and nothing is delivered.
- `Pipeline`: the same for both processes. Nobody is bound to accept an event or to
  migrate: with migration 3 missing for ever, the worker fails each claim, and
  `AcceptedIsDelivered` lets a failed record excuse the event, as the code does not retry it.
- `ApiServer`: weak fairness of `main`'s steps (the drain's deadline is one), the recovery
  of Postgres and the restart, which for the API is its Deployment's. No request is bound to arrive or to end, since the
  server sets no timeouts: a hanging handler must not keep the process from its next start.

Faults are bounded and never fair: liveness holds once they stop.

## 5. Where code and documentation disagree

1. `worker_skips`: a retryable failure stops the batch, not the partition. The next
   poll starts behind the failed record, and its commit passes it: the job is lost
   although `partition.go` and branch doc 19 say it will be redelivered.
2. `worker_repeats`: a permanent failure is not terminal; the row does not say that
   it was permanent, and the offset has not "moved past poison" (branch doc 19) when the
   worker dies before `CommitRecords`: the record comes again and sends the job again.
3. `worker_malformed`: a malformed record is documented as permanent (failed row,
   then commit), the code neither writes a row nor commits it.
4. `outbox_log`: an error of `MarkOutboxPublished` is logged as `outbox_publish_failed`.

Two more have no run, as the models show them without one:

- The comment of `Recover` says that `http.Error` is skipped once the response has
  started. It is called in any case (`written` in `ApiServer` grows again); `net/http`
  drops the second status line and keeps the text. `PLAN.md` lists it as a follow-up.
- SIGTERM is documented to drain. `main` asks for the signal after it has started the
  listener's goroutine, and a SIGTERM between the two cuts requests off (`Terminate`).

## 6. Proofs

`EventLedger_proofs` proves, for any sets of events and sessions and any number of
faults, that `IInv` is inductive. The property `LedgerMatchesOutbox` is not inductive
alone: a commit could publish a draft without its outbox row. `DraftFollowsSteps`
says what a draft contains at each statement, and `OneHolder` that at most one open
transaction holds a key, on which the ledger has no row yet; together they make
`Commit` the one step that changes the tables, and a step of `AtomicClaim`.
Assumption: `LedgerAssumption` (the sets are related as described above).

`WebhookIngest_proofs` instantiates those results. Every step of a request is a step
of the store or leaves it alone, so the ledger's invariant holds under the handler.
A 204 needs two facts more. `OnlyAccepts`: the handler never calls `ProcessEvent`, so a
row that is there is `accepted`, and `LedgerMatchesOutbox` then gives its outbox row.
`RequestFollowsCall`: the answer a handler looks at is one about the request's own event,
and a request that goes on to `Status`, or to a 204, has seen its row committed; rows never
go away. `OnlySignedIsStored` speaks of the step that commits a row, not of the id: the
session that takes it serves a request with a valid signature for that id, also when a
forged request for the same id is under way in another one. It needs `OnlySignedCalled`:
behind `Verify` the request in hand is signed, and the store call under way in a session
is that of its request, for the id in its body. Assumption: `IngestAssumption`.

`OutboxPublisher_proofs`: `PublishedIsInTopic` and `TopicIsCommitted` need
`WorkIsCommitted`, that a row at a publisher is committed and, once it is to be
marked, on the topic. The lemma `AdvanceStep` says what all steps have in common
(rows advance, the topic grows); each action is shown to be such a step.
Assumption: `PublisherAssumption`, of which only `Events # {}` is used.

`ConsumerCompletion_proofs`: `WorkIsBacked` says what a worker has established at
each statement; `RowsMove` says what any UPDATE does to the rows, whoever learns of
it. `CallsAreClaimed` counts: a claim adds one claimant and one attempt, a request
turns a claimant into a call. Assumption: `CompletionAssumption` (finitely many
workers).

`ClassesAgree` compares `DeliverJob` with the table of docs/branches/19, code by code: what
it calls done is exactly 200 to 299; 400, 404 and 422 are permanent; 429, 500 to 599 and no
answer are retryable. It says nothing of the codes that the table leaves out.

`OutboxCopies_proofs` bounds the duplicates. The bound is not inductive: the room that a
publisher still has for one more copy depends on where it stands. `Account` says, for a
pending row, that each copy belongs to a publisher about to mark it or to a fault, and for
a published row, that each copy belongs to a publisher that is *not* about to send it (one
that is will add its own) or to a fault. Marking a row turns the first count into the
second. The rest is arithmetic of finite sets, hence `IsFiniteSet(Publishers)`.

`Worker_proofs`: for any group, topic and number of rebalances. A committed offset alone
says nothing of the record in front of it, so `IInv` follows a batch from fetch to
commit: `BatchInv` (all between the batch's start and the cursor is handled and its job
settled), `OwnerInv` (while a member owns a partition the committed offset is where it
started or what it committed itself; this makes the offset grow), `CommitInv` (the
property over all offsets), `Bounded` (nobody reads past the end). That a job stays settled comes
from `ConsumerCompletion_proofs`, instantiated as `Rows`. Assumption:
`WorkerAssumption`.

The same module proves what only a worker with every event to itself can promise
(hypothesis `Alone`: `Workers` has one member; still any topic, faults, deaths and lost
partitions). With two, an evicted member may mark or fail the other's row, and each of
these statements has a counterexample.

- `LoneVerdictsAreDurable`, `LoneCallsAreNew`: `RowsAreMine` says that the row of the job
  in hand is in `processing` from the claim to the mark, and in its final status when the
  verdict is returned. Nobody else can move it, so the `UPDATE ... WHERE status` of the
  next statement matches.
- `LoneSkipsFollowFailures`: `failed` keeps the offsets at which a fetch was given up.
  Below a committed offset each record was handled or lies behind, or is, one of these.
  `SkipInv` carries this over the steps: `AccountedBelow(p, n)` for every `n` the worker
  has reached, where a failure accounts for all that follows it. A failure leaves
  `failed` only when its record succeeds, and then the records behind it are accounted
  for by the batch that has come past them. So a skipped record always has a failing one,
  or the head of a dropped fetch, before it: deaths, lost partitions, failed commits and
  the drift of the fetch position do not skip anything. `worker_skips` shows that
  failures do.
- `LoneCommitsAreHandled`: the case without failures. Hypotheses: `Rows!NothingFails`
  (no response is retryable, and no fetch, statement or commit fails) and
  `MalformedLast` (malformed records stand at the end of a partition). They are the
  constants of `worker_alone`; without either one TLC finds a skipped record.

`ApiServer_proofs`: `RequestInv` relates recorder, response, log and panic at each point
of the middleware; `ListenerInv` says that requests exist only once the API's listener has
been open, so that an early exit of `main` costs none. Assumption: `ServerAssumption`.
`ServesConfigured` needs `StartInv`: at each step of `main` it says which of the loader's
checks, the ping and the client have passed, and that none has failed for a right setting.

`Pipeline_proofs` starts anew. The invariants of the parts are not at hand: rolling a
migration back deletes rows that a publisher or a worker is at work on, so a row under
way may be absent (`WorkIsCommitted`, `WorkIsBacked` and `CallsAreClaimed` all fail). What
survives is about the topic, the history and the processes:

- `PublisherInv`: a row is marked, or about to be, only with its record on the topic,
  whether or not the table is still there.
- `KnownInv`: whatever still names an event (a row, a record, a late request, a publisher,
  a worker) names one that had a committed ledger row.
- `TablesInv`: no outbox row without its table; an accepted event without an outbox row
  was taken over by migration 2.
- `LoopInv`: worker and broker stay within the topic, which grows under them; `SentInv`:
  what a worker is about to mark as processed it has sent.

Their conjunction with `TypeOK` is inductive. `PublisherMoves`, `WorkerMoves` and
`RowMoves` say what the steps of a publisher, of the poll loop and of a record have in
common; each action is shown to be such a step, and the invariant is then proved once for
each kind. `OnlyMigrationStrands` follows directly, for any number of publishers and
workers; so does `OnlyAcceptedIsSent`, the part of `Delivery` that any group keeps.
`PipelineDelivers` is the whole refinement under `Alone`: `CommitInsert` is `Accept` or a
stutter, the POST (or a death during it) is `Send`, the mark is `Settle`, each rollback is
`Forget`, everything else stutters. `Send` needs `UnsettledInv` (what is about to be sent
is not processed), which a second worker would break.

`CommitsFollowOutcomes` and `CommitsOnlyGrow` are the commit discipline of `Worker` in the
composition, for any number of workers; the topic grows while they read it, and the
completions table may go at any moment. `Worker_proofs` gets the first from
`Rows!IInv`, which says among other things that a job under way has a row; a migration
deletes it. What remains is what the service has answered, so `CommitInv` rests on that: `BackedInv` (a processed row, a frame about to
mark and a verdict each have their answer behind them), `HandledInv` (what was handled is
on the topic and has a final answer), `BatchInv` and `OwnerInv` as in `Worker_proofs`, but
only about the offset just behind the cursor. A missing table makes a statement fail, the
record is not handled and the batch ends there. `ProcessedWasAnswered` is `BackedInv`'s
first part. `AnswersKept` says what the steps of a record have in common, `CommitStep` what
a worker's step has to keep. `CommitInv` was checked by TLC on the composition with one and
with two workers before it was proved.

Assumption: `PipelineAssumption` (there is an event, the malformed record and the missing
owner are not an event and a worker, responses are what a client can read).

Each `IInv` has also been checked by TLC as an invariant of the run of its module.
In the proofs there is no bound on sessions, workers, publishers, events, requests or
faults.

Every invariant, action property and refinement of the runs is a theorem. Only
model-checked is liveness (`CallsReturn`, `EveryEventAcked`, `PendingIsPublished`,
`EveryRecordHandled`, `AcceptedIsDelivered`, `ServesInTheEnd`), which is out of the
prover's reach. The properties of section 5 are false, hence no theorems.

## 7. Not modelled

- Job and Stripe types (`internal/engine`): plain data. `ParseStripeEvent` and
  `JobFromStripeEvent` are not called on the live path.
- Debug helper (`internal/dbg`): a development aid that prints, or ends the process.
- Deployment (`k8s/`, `openshift/`, `infra/`, `scripts/`, `.github/`): declarations
  without steps of their own. What they cause (restarts, overlapping replicas, rollouts)
  is in the models as faults and fairness.
- The locks of a migration: in `Pipeline` it is one step. A deadlock with it, which Postgres
  breaks by failing one side, is in the models as the failed statement only.
- Redirects of the downstream service are followed inside `net/http`. Request ids and the
  other fields of log lines carry no state. The HTTP signature check is Stripe's library:
  `Verify` tells signed from unsigned.

## 8. Plan

1. Done: all the modules above, with the proofs of section 6.
2. `Pipeline` without rollbacks (`MaxRollbacks = 0`): the bound on copies of
   `OutboxCopies_proofs` and the count of calls of `ConsumerCompletion_proofs`, which a
   dropped row breaks, carried over to the composition.
