----------------------------- MODULE Worker_proofs -----------------------------
(***************************************************************************)
(* Proofs about Worker, for any topic, members, restarts and rebalances:     *)
(* committed offsets follow outcomes and never move back.  What is proved of *)
(* ConsumerCompletion is used for the steps that handle a record.            *)
(***************************************************************************)
EXTENDS Worker, TLAPS

\* The theorems about the records' steps; its definitions are Completion's.
Rows == INSTANCE ConsumerCompletion_proofs WITH MaxAttempts <- 1000

\* Finite sets are the same seen through an instance.
LEMMA SameFinite == \A S : Rows!IsFiniteSet(S) <=> IsFiniteSet(S)
  BY DEF IsFiniteSet, Rows!IsFiniteSet

\* So are their sizes.
LEMMA SameCardinality == \A S : Rows!Cardinality(S) = Completion!Cardinality(S)
  BY DEF Rows!Cardinality, Completion!Cardinality

\* What ConsumerCompletion asks of its constants.
LEMMA RowsAssumption == Rows!CompletionAssumption
  <1>1. Responses \subseteq Rows!AnyResponse
    BY WorkerAssumption
       DEF Rows!AnyResponse, Completion!AnyResponse, Rows!NoResponse,
           Completion!NoResponse, Rows!StatusCodes, Completion!StatusCodes
  <1> QED
    BY <1>1, WorkerAssumption, SameFinite DEF Rows!CompletionAssumption

\* The rows' invariant is the same in both instances.
LEMMA SameIInv == Completion!IInv <=> Rows!IInv
  <1>1. Completion!TypeOK <=> Rows!TypeOK
    BY DEF Completion!TypeOK, Rows!TypeOK, Completion!StatementSteps,
           Rows!StatementSteps, Completion!Classes, Rows!Classes, Completion!Meanings,
           Rows!Meanings
  <1>2. Completion!CallsAreClaimed <=> Rows!CallsAreClaimed
    BY SameCardinality
       DEF Completion!CallsAreClaimed, Rows!CallsAreClaimed, Completion!Claimants,
           Rows!Claimants
  <1> QED
    BY <1>1, <1>2
       DEF Completion!IInv, Rows!IInv, Completion!ProcessedWasDelivered,
           Rows!ProcessedWasDelivered, Completion!VerdictIsBacked,
           Rows!VerdictIsBacked, Completion!WorkIsBacked, Rows!WorkIsBacked,
           Completion!FinalMeanings, Rows!FinalMeanings, Completion!Meanings,
           Rows!Meanings

\* So are the initial states.
LEMMA SameInit == Completion!Init <=> Rows!Init
  BY DEF Completion!Init, Rows!Init, Completion!NoJob, Rows!NoJob

\* So are the steps of a worker.
LEMMA SameSteps ==
    ASSUME NEW w \in Workers
    PROVE  /\ \A e \in Events : Completion!Start(w, e) <=> Rows!Start(w, e)
           /\ Completion!TakeVerdict(w) <=> Rows!TakeVerdict(w)
           /\ Completion!Die(w) <=> Rows!Die(w)
           /\ Completion!StatementFails(w) <=> Rows!StatementFails(w)
  <1>1. Completion!Effect(w) <=> Rows!Effect(w)
    BY DEF Completion!Effect, Rows!Effect, Completion!InsertRow, Rows!InsertRow,
           Completion!BumpProcessing, Rows!BumpProcessing, Completion!ReclaimFailed,
           Rows!ReclaimFailed, Completion!SetProcessed, Rows!SetProcessed,
           Completion!SetFailed, Rows!SetFailed, Completion!Update, Rows!Update,
           Completion!table, Rows!table
  <1>2. Completion!Leave(w) <=> Rows!Leave(w)
    BY DEF Completion!Leave, Rows!Leave, Completion!NoJob, Rows!NoJob
  <1> QED
    BY <1>1, <1>2
       DEF Completion!Start, Rows!Start, Completion!TakeVerdict, Rows!TakeVerdict,
           Completion!Die, Rows!Die, Completion!StatementFails, Rows!StatementFails,
           Completion!StatementSteps, Rows!StatementSteps, Completion!Fault, Rows!Fault,
           Completion!Return, Rows!Return, Completion!table, Rows!table,
           Completion!history, Rows!history

\* And the statements and calls of handleRecord.
LEMMA SameHandleStep ==
    ASSUME NEW w \in Workers PROVE Completion!HandleStep(w) <=> Rows!HandleStep(w)
  <1>1. /\ Completion!ClaimInsert(w) <=> Rows!ClaimInsert(w)
        /\ Completion!ClaimSelect(w) <=> Rows!ClaimSelect(w)
        /\ Completion!ClaimRetry(w) <=> Rows!ClaimRetry(w)
        /\ Completion!ClaimReclaim(w) <=> Rows!ClaimReclaim(w)
    BY DEF Completion!ClaimInsert, Rows!ClaimInsert, Completion!ClaimSelect,
           Rows!ClaimSelect, Completion!ClaimRetry, Rows!ClaimRetry,
           Completion!ClaimReclaim, Rows!ClaimReclaim, Completion!InsertRow,
           Rows!InsertRow, Completion!BumpProcessing, Rows!BumpProcessing,
           Completion!ReclaimFailed, Rows!ReclaimFailed, Completion!Update, Rows!Update,
           Completion!Goto, Rows!Goto, Completion!Return, Rows!Return,
           Completion!table, Rows!table, Completion!history, Rows!history
  <1>2. /\ Completion!MarkProcessed(w) <=> Rows!MarkProcessed(w)
        /\ Completion!MarkFailed(w) <=> Rows!MarkFailed(w)
    BY DEF Completion!MarkProcessed, Rows!MarkProcessed, Completion!MarkFailed,
           Rows!MarkFailed, Completion!SetProcessed, Rows!SetProcessed,
           Completion!SetFailed, Rows!SetFailed, Completion!Update, Rows!Update,
           Completion!Return, Rows!Return, Completion!table, Rows!table,
           Completion!history, Rows!history
  <1>3. ASSUME NEW r \in Responses PROVE Completion!Deliver(w, r) <=> Rows!Deliver(w, r)
    <2>1. Completion!DeliverJob(r) = Rows!DeliverJob(r)
      BY DEF Completion!DeliverJob, Rows!DeliverJob, Completion!classifyHTTPStatus,
             Rows!classifyHTTPStatus, Completion!NoResponse, Rows!NoResponse
    <2>2. Completion!Meaning(r) = Rows!Meaning(r)
      BY DEF Completion!Meaning, Rows!Meaning, Completion!Delivered, Rows!Delivered,
             Completion!Refused, Rows!Refused, Completion!Unavailable,
             Rows!Unavailable, Completion!NoResponse, Rows!NoResponse
    <2> QED
      BY <2>1, <2>2 DEF Completion!Deliver, Rows!Deliver, Completion!table, Rows!table
  <1> QED
    BY <1>1, <1>2, <1>3 DEF Completion!HandleStep, Rows!HandleStep

--------------------------------------------------------------------------------
(* The steps of a record, as far as the loop sees them *)

\* A step of ConsumerCompletion that worker w takes.
RowStep(w) ==
    \/ \E e \in Events : Completion!Start(w, e)
    \/ Completion!HandleStep(w) \/ Completion!StatementFails(w)
    \/ Completion!TakeVerdict(w)
    \/ Completion!Die(w) /\ UNCHANGED faults

\* It keeps the rows' invariant.
LEMMA RowStepIInv ==
    ASSUME Completion!IInv, NEW w \in Workers, RowStep(w) PROVE Completion!IInv'
  <1>1. Rows!IInv
    BY SameIInv
  <1>2. Rows!IInv'
    <2>1. CASE \E e \in Events : Completion!Start(w, e)
      BY <1>1, <2>1, SameSteps, RowsAssumption, Rows!StartIInv
    <2>2. CASE Completion!HandleStep(w)
      <3>1. Rows!HandleStep(w)
        BY <2>2, SameHandleStep
      <3>2. CASE Rows!ClaimInsert(w) \/ Rows!ClaimSelect(w) \/ Rows!ClaimRetry(w)
                   \/ Rows!ClaimReclaim(w)
        BY <1>1, <3>2, RowsAssumption, Rows!ClaimIInv
      <3>3. CASE \E r \in Responses : Rows!Deliver(w, r)
        BY <1>1, <3>3, RowsAssumption, Rows!DeliverIInv
      <3>4. CASE Rows!MarkProcessed(w) \/ Rows!MarkFailed(w)
        BY <1>1, <3>4, RowsAssumption, Rows!MarkIInv
      <3> QED
        BY <3>1, <3>2, <3>3, <3>4 DEF Rows!HandleStep
    <2>3. CASE Completion!StatementFails(w)
      BY <1>1, <2>3, SameSteps, RowsAssumption, Rows!StatementFailsIInv
    <2>4. CASE Completion!TakeVerdict(w)
      BY <1>1, <2>4, SameSteps, RowsAssumption, Rows!TakeVerdictIInv
    <2>5. CASE Completion!Die(w) /\ UNCHANGED faults
      <3>1. faults' \in Nat
        BY <2>5 DEF Completion!IInv, Completion!TypeOK
      <3> QED
        BY <1>1, <2>5, <3>1, SameSteps, RowsAssumption, Rows!DieIInv
    <2> QED
      BY <2>1, <2>2, <2>3, <2>4, <2>5 DEF RowStep
  <1> QED
    BY <1>2, SameIInv, PTL

\* Between two records no worker changes the record it has.
LEMMA StoreStepFrame ==
    ASSUME Completion!IInv, NEW w \in Workers,
           Completion!HandleStep(w) \/ Completion!StatementFails(w)
    PROVE  job' = job /\ \A e \in Events : answered[e] \subseteq answered'[e]
  <1>1. /\ answered \in [Events -> SUBSET Completion!Meanings]
        /\ status[job[w]] \in {"absent", "processing", "processed", "failed"}
    BY DEF Completion!IInv, Completion!TypeOK
  <1>2. CASE \E r \in Responses : Completion!Deliver(w, r)
    BY <1>1, <1>2 DEF Completion!Deliver
  <1>3. CASE ~ \E r \in Responses : Completion!Deliver(w, r)
    BY <1>1, <1>3
       DEF Completion!HandleStep, Completion!StatementFails, Completion!ClaimInsert,
           Completion!ClaimSelect, Completion!ClaimRetry, Completion!ClaimReclaim,
           Completion!MarkProcessed, Completion!MarkFailed, Completion!Goto,
           Completion!Return, Completion!history
  <1> QED
    BY <1>2, <1>3

\* It moves to another record only for w, and forgets no answer.
LEMMA RowStepFrame ==
    ASSUME Completion!IInv, NEW w \in Workers, RowStep(w)
    PROVE  /\ \A v \in Workers \ {w} : job'[v] = job[v]
           /\ \A e \in Events : answered[e] \subseteq answered'[e]
  <1>1. /\ job \in [Workers -> Events] /\ DOMAIN answered = Events
        /\ answered \in [Events -> SUBSET Completion!Meanings]
    BY DEF Completion!IInv, Completion!TypeOK
  <1>2. CASE \E e \in Events : Completion!Start(w, e)
    BY <1>1, <1>2 DEF Completion!Start, Completion!history
  <1>3. CASE Completion!TakeVerdict(w) \/ Completion!Die(w)
    BY <1>1, <1>3
       DEF Completion!TakeVerdict, Completion!Die, Completion!Leave, Completion!history
  <1>4. CASE Completion!HandleStep(w) \/ Completion!StatementFails(w)
    BY <1>1, <1>4, StoreStepFrame
  <1> QED
    BY <1>2, <1>3, <1>4 DEF RowStep

--------------------------------------------------------------------------------
(* The inductive invariant *)

Working(w) == phase[w] \in {"handle", "handling", "commit"}

\* The record at an offset was handled, and its job has a final answer.
Done(p, o) == o \in handled[p] /\ RecordAt(p, o) \in Events /\ Settled(RecordAt(p, o))

\* Nobody reads past the end of a partition.
Bounded ==
    \A p \in Partitions :
        /\ committed[p] <= Len(topic[p])
        /\ \A w \in Workers : position[w][p] <= Len(topic[p])

\* A worker's place in its batch: what lies behind the cursor is done.
BatchInv(w) ==
    /\ phase[w] \in {"poll", "down"} => todo[w] = {}
    /\ \A p \in todo[w] : start[w][p] <= position[w][p]
    /\ Working(w) =>
          /\ part[w] \notin todo[w]
          /\ start[w][part[w]] <= cursor[w]
          /\ cursor[w] <= position[w][part[w]]
          /\ cursor[w] > start[w][part[w]] => Done(part[w], cursor[w] - 1)
    /\ phase[w] = "handling" =>
          /\ cursor[w] < position[w][part[w]]
          /\ RecordAt(part[w], cursor[w]) = job[w]

\* While a member owns a partition, nobody else has moved its committed offset.
OwnerInv(w) ==
    \A p \in Partitions : owner[p] = w =>
        /\ committed[p] <= position[w][p]
        /\ p \in todo[w] \/ (Working(w) /\ p = part[w]) => committed[p] <= start[w][p]

CommitInv == \A p \in Partitions : committed[p] > 0 => Done(p, committed[p] - 1)

IInv ==
    /\ TypeOK
    /\ Completion!IInv
    /\ Bounded
    /\ CommitInv
    /\ \A w \in Workers : BatchInv(w) /\ OwnerInv(w)

\* The loop's part of the types.
GroupTyped ==
    /\ topic \in [Partitions -> Seq(Events \cup {Malformed})]
    /\ owner \in [Partitions -> Workers \cup {Nobody}]
    /\ committed \in [Partitions -> Nat]
    /\ position \in [Workers -> [Partitions -> Nat]]
    /\ handled \in [Partitions -> SUBSET Nat]
    /\ failed \in [Partitions -> SUBSET Nat]
    /\ restarts \in Nat

MemberTyped ==
    /\ start \in [Workers -> [Partitions -> Nat]]
    /\ todo \in [Workers -> SUBSET Partitions]
    /\ part \in [Workers -> Partitions]
    /\ cursor \in [Workers -> Nat]
    /\ phase \in [Workers ->
          {"poll", "batch", "handle", "handling", "commit", "down"}]

\* The types, by part of the state.
LEMMA TypeParts == TypeOK <=> Completion!TypeOK /\ GroupTyped /\ MemberTyped
  BY DEF TypeOK, GroupTyped, MemberTyped

\* The same after a step that kept the rows' invariant.
LEMMA NextTypeOK == Completion!IInv' /\ GroupTyped' /\ MemberTyped' => TypeOK'
  <1>1. Completion!IInv => Completion!TypeOK
    BY DEF Completion!IInv
  <1> QED
    BY <1>1, TypeParts, PTL

\* Histories never lose a record or an answer.
HistoryKept ==
    /\ UNCHANGED topic
    /\ \A p \in Partitions : handled[p] \subseteq handled'[p]
    /\ \A e \in Events : answered[e] \subseteq answered'[e]

MemberKept(v) ==
    /\ position'[v] = position[v] /\ start'[v] = start[v] /\ todo'[v] = todo[v]
    /\ part'[v] = part[v] /\ cursor'[v] = cursor[v] /\ phase'[v] = phase[v]
    /\ job'[v] = job[v]

\* So what is done stays done.
LEMMA DoneStays ==
    ASSUME HistoryKept, NEW p \in Partitions, NEW o, Done(p, o) PROVE Done(p, o)'
  <1>1. RecordAt(p, o)' = RecordAt(p, o)
    BY DEF HistoryKept, RecordAt
  <1>2. answered[RecordAt(p, o)] \subseteq answered'[RecordAt(p, o)]
    BY DEF HistoryKept, Done
  <1> QED
    BY <1>1, <1>2 DEF Done, Settled, HistoryKept

\* And a member that took no step is where it was.
LEMMA BatchStays ==
    ASSUME IInv, HistoryKept, NEW v \in Workers, MemberKept(v) PROVE BatchInv(v)'
  <1>1. BatchInv(v) /\ part[v] \in Partitions /\ UNCHANGED topic
    BY DEF IInv, TypeOK, HistoryKept
  <1>2. Working(v)' <=> Working(v)
    BY DEF Working, MemberKept
  <1>3. Done(part[v], cursor[v] - 1) => Done(part[v], cursor[v] - 1)'
    BY <1>1 DEF MemberKept, HistoryKept, Done, Settled, RecordAt
  <1> QED
    BY <1>1, <1>2, <1>3 DEF BatchInv, MemberKept, RecordAt

--------------------------------------------------------------------------------
(* One step of one member *)

\* Committed offsets that stay are still backed.
LEMMA CommitStays ==
    ASSUME IInv, HistoryKept, UNCHANGED committed PROVE CommitInv'
  BY DEF IInv, CommitInv, HistoryKept, Done, Settled, RecordAt

\* What another member owns, it owned before, at the same committed offset.
LEMMA OwnerStays ==
    ASSUME IInv, NEW w \in Workers, NEW v \in Workers \ {w}, MemberKept(v),
           \A p \in Partitions : committed'[p] = committed[p] \/ owner[p] = w,
           \A p \in Partitions : owner'[p] \in {owner[p], w, Nobody}
    PROVE  OwnerInv(v)'
  <1>1. OwnerInv(v) /\ (Working(v)' <=> Working(v))
    BY DEF IInv, Working, MemberKept
  <1>2. \A p \in Partitions : owner'[p] = v => owner[p] = v /\ committed'[p] = committed[p]
    BY WorkerAssumption
  <1> QED
    BY <1>1, <1>2 DEF OwnerInv, MemberKept

\* A step of w that keeps its own part of the invariant keeps all of it.
LEMMA MemberStep ==
    ASSUME IInv, NEW w \in Workers, HistoryKept, TypeOK', Completion!IInv',
           Bounded', CommitInv', BatchInv(w)', OwnerInv(w)',
           \A v \in Workers \ {w} : MemberKept(v),
           \A p \in Partitions : committed'[p] = committed[p] \/ owner[p] = w,
           \A p \in Partitions : owner'[p] \in {owner[p], w, Nobody}
    PROVE  IInv'
  <1>1. \A v \in Workers : BatchInv(v)' /\ OwnerInv(v)'
    BY BatchStays, OwnerStays
  <1> QED
    BY <1>1 DEF IInv

\* A step on the way through a batch: nothing is fetched, assigned or committed.
LEMMA BatchStep ==
    ASSUME IInv, NEW w \in Workers, HistoryKept, GroupTyped', MemberTyped',
           Completion!IInv', UNCHANGED groupVars, BatchInv(w)',
           \A v \in Workers \ {w} : MemberKept(v),
           \A p \in Partitions :
              p \in todo'[w] \/ (Working(w)' /\ p = part'[w]) =>
                  /\ p \in todo[w] \/ (Working(w) /\ p = part[w])
                  /\ start'[w][p] = start[w][p]
    PROVE  IInv'
  <1>1. TypeOK'
    BY NextTypeOK
  <1>2. Bounded' /\ CommitInv'
    BY CommitStays DEF IInv, Bounded, HistoryKept, groupVars
  <1>3. OwnerInv(w)'
    BY DEF IInv, OwnerInv, groupVars
  <1>4. \A p \in Partitions : committed'[p] = committed[p] /\ owner'[p] = owner[p]
    BY DEF groupVars
  <1> QED
    BY <1>1, <1>2, <1>3, <1>4, MemberStep

\* A step without a record leaves the rows' invariant.
LEMMA RowsKept ==
    ASSUME Completion!IInv, UNCHANGED completionVars
    PROVE  /\ Completion!IInv' /\ UNCHANGED job
           /\ \A e \in Events : answered[e] \subseteq answered'[e]
  BY DEF completionVars, Completion!IInv, Completion!TypeOK,
         Completion!ProcessedWasDelivered, Completion!CallsAreClaimed,
         Completion!Claimants, Completion!VerdictIsBacked, Completion!WorkIsBacked

\* What a worker has in hand.
LEMMA InHand ==
    ASSUME IInv, NEW w \in Workers
    PROVE  /\ Completion!IInv /\ GroupTyped /\ MemberTyped
           /\ BatchInv(w) /\ OwnerInv(w)
           /\ part[w] \in Partitions /\ cursor[w] \in Nat
           /\ \A p \in Partitions :
                 /\ start[w][p] \in Nat /\ position[w][p] \in Nat /\ committed[p] \in Nat
                 /\ position[w][p] <= Len(topic[p]) /\ committed[p] <= Len(topic[p])
                 /\ Len(topic[p]) \in Nat
  BY TypeParts DEF IInv, GroupTyped, MemberTyped, Bounded

--------------------------------------------------------------------------------
(* The poll loop *)

\* EachPartition starts at the position before the fetch, at or above the committed
\* offset of a partition that is still owned.
LEMMA EachPartitionIInv ==
    ASSUME IInv, NEW w \in Workers, EachPartition(w) PROVE IInv'
  <1>1. /\ GroupTyped /\ MemberTyped /\ BatchInv(w) /\ HistoryKept /\ Completion!IInv'
        /\ UNCHANGED <<job, groupVars, start, historyVars, topic, restarts>>
    BY InHand, RowsKept DEF EachPartition, HistoryKept, historyVars
  <1>2. PICK p \in todo[w] :
          /\ todo' = [todo EXCEPT ![w] = @ \ {p}]
          /\ part' = [part EXCEPT ![w] = p]
          /\ cursor' = [cursor EXCEPT ![w] = start[w][p]]
          /\ phase' = [phase EXCEPT ![w] = "handle"] /\ phase[w] = "batch"
    BY DEF EachPartition, Goto
  <1>3. /\ p \in Partitions /\ start[w][p] \in Nat
        /\ GroupTyped' /\ MemberTyped'
    BY <1>1, <1>2 DEF GroupTyped, MemberTyped, groupVars, historyVars
  <1>4. /\ todo'[w] = todo[w] \ {p} /\ part'[w] = p /\ cursor'[w] = start[w][p]
        /\ phase'[w] = "handle"
    BY <1>1, <1>2 DEF MemberTyped
  <1>5. BatchInv(w)'
    BY <1>1, <1>2, <1>3, <1>4 DEF BatchInv, Working, groupVars
  <1>6. \A v \in Workers \ {w} : MemberKept(v)
    BY <1>1, <1>2 DEF MemberTyped, MemberKept, groupVars
  <1> QED
    BY <1>1, <1>2, <1>3, <1>4, <1>5, <1>6, BatchStep DEF groupVars

\* Nothing is under way when a rebalance is let in.
LEMMA AllowRebalanceIInv ==
    ASSUME IInv, NEW w \in Workers, AllowRebalance(w) PROVE IInv'
  <1>1. /\ GroupTyped /\ MemberTyped /\ BatchInv(w) /\ HistoryKept /\ Completion!IInv'
        /\ UNCHANGED <<job, groupVars, todo, part, cursor, historyVars, topic, restarts>>
    BY InHand, RowsKept DEF AllowRebalance, HistoryKept, historyVars
  <1>2. /\ phase[w] = "batch" /\ todo[w] = {}
        /\ start' = [start EXCEPT ![w] = Zero]
        /\ phase' = [phase EXCEPT ![w] = "poll"]
    BY DEF AllowRebalance, Goto
  <1>3. GroupTyped' /\ MemberTyped'
    BY <1>1, <1>2 DEF GroupTyped, MemberTyped, groupVars, historyVars, Zero
  <1>4. todo'[w] = {} /\ phase'[w] = "poll"
    BY <1>1, <1>2 DEF MemberTyped
  <1>5. BatchInv(w)' /\ ~ Working(w)'
    BY <1>4 DEF BatchInv, Working
  <1>6. \A v \in Workers \ {w} : MemberKept(v)
    BY <1>1, <1>2 DEF MemberTyped, MemberKept, groupVars
  <1> QED
    BY <1>1, <1>3, <1>4, <1>5, <1>6, BatchStep

\* A fetch moves the positions of owned partitions and nothing else.
LEMMA PollFetchesIInv ==
    ASSUME IInv, NEW w \in Workers, PollFetches(w) PROVE IInv'
  <1>1. /\ GroupTyped /\ MemberTyped /\ OwnerInv(w) /\ HistoryKept /\ Completion!IInv'
        /\ UNCHANGED <<job, owner, committed, part, cursor, historyVars, topic, restarts>>
    BY InHand, RowsKept DEF PollFetches, HistoryKept, historyVars
  <1>2. PICK upto \in [Partitions -> Ends] :
          /\ \A p \in Partitions :
              /\ upto[p] \in position[w][p] .. Len(topic[p])
              /\ owner[p] # w => upto[p] = position[w][p]
          /\ position' = [position EXCEPT ![w] = upto]
          /\ todo' = [todo EXCEPT ![w] = {p \in Partitions : upto[p] # position[w][p]}]
    BY DEF PollFetches
  <1>3. /\ start' = [start EXCEPT ![w] = position[w]]
        /\ phase' = [phase EXCEPT ![w] = "batch"]
    BY DEF PollFetches, Goto
  <1>4. \A p \in Partitions :
          /\ upto[p] \in Nat /\ position[w][p] \in Nat /\ committed[p] \in Nat
          /\ position[w][p] <= upto[p] /\ upto[p] <= Len(topic[p])
    BY <1>1, <1>2, InHand
  <1>5. upto \in [Partitions -> Nat]
    BY <1>2, <1>4
  <1>6. GroupTyped' /\ MemberTyped'
    BY <1>1, <1>2, <1>3, <1>5 DEF GroupTyped, MemberTyped, historyVars
  <1>7. /\ position'[w] = upto /\ start'[w] = position[w] /\ phase'[w] = "batch"
        /\ todo'[w] = {p \in Partitions : upto[p] # position[w][p]}
    BY <1>1, <1>2, <1>3 DEF GroupTyped, MemberTyped
  <1>8. \A v \in Workers \ {w} : MemberKept(v) /\ position'[v] = position[v]
    BY <1>1, <1>2, <1>3 DEF GroupTyped, MemberTyped, MemberKept
  <1>9. Bounded' /\ CommitInv'
    BY <1>1, <1>4, <1>7, <1>8, CommitStays DEF IInv, Bounded, HistoryKept
  <1>10. BatchInv(w)' /\ ~ Working(w)'
    BY <1>4, <1>7 DEF BatchInv, Working
  <1>11. OwnerInv(w)'
    BY <1>1, <1>4, <1>7, <1>10 DEF OwnerInv
  <1> QED
    BY <1>1, <1>6, <1>8, <1>9, <1>10, <1>11, NextTypeOK, MemberStep

\* A restarted member has nothing under way.
LEMMA RestartIInv ==
    ASSUME IInv, NEW w \in Workers, Restart(w) PROVE IInv'
  <1>1. /\ GroupTyped /\ MemberTyped /\ BatchInv(w) /\ HistoryKept /\ Completion!IInv'
        /\ UNCHANGED <<job, groupVars, batchVars, historyVars, topic, restarts>>
    BY InHand, RowsKept DEF Restart, HistoryKept, historyVars
  <1>2. phase[w] = "down" /\ phase' = [phase EXCEPT ![w] = "poll"]
    BY DEF Restart, Goto
  <1>3. GroupTyped' /\ MemberTyped'
    BY <1>1, <1>2 DEF GroupTyped, MemberTyped, groupVars, batchVars, historyVars
  <1>4. todo'[w] = {} /\ phase'[w] = "poll"
    BY <1>1, <1>2 DEF MemberTyped, BatchInv, batchVars
  <1>5. BatchInv(w)' /\ ~ Working(w)'
    BY <1>4 DEF BatchInv, Working
  <1>6. \A v \in Workers \ {w} : MemberKept(v)
    BY <1>1, <1>2 DEF MemberTyped, MemberKept, groupVars, batchVars
  <1> QED
    BY <1>1, <1>3, <1>4, <1>5, <1>6, BatchStep

\* At the end of the fetched records the whole batch is the prefix.
LEMMA BatchHandledIInv ==
    ASSUME IInv, NEW w \in Workers, BatchHandled(w) PROVE IInv'
  <1>1. /\ GroupTyped /\ MemberTyped /\ BatchInv(w) /\ HistoryKept /\ Completion!IInv'
        /\ UNCHANGED <<job, groupVars, batchVars, historyVars, topic, restarts>>
    BY InHand, RowsKept DEF BatchHandled, HistoryKept, historyVars
  <1>2. phase[w] = "handle" /\ phase' = [phase EXCEPT ![w] = "commit"]
    BY DEF BatchHandled, Goto
  <1>3. GroupTyped' /\ MemberTyped'
    BY <1>1, <1>2 DEF GroupTyped, MemberTyped, groupVars, batchVars, historyVars
  <1>4. phase'[w] = "commit"
    BY <1>1, <1>2 DEF MemberTyped
  <1>5. BatchInv(w)'
    BY <1>1, <1>2, <1>4
       DEF BatchInv, Working, groupVars, batchVars, historyVars, HistoryKept, Done, Settled,
           RecordAt
  <1>6. \A v \in Workers \ {w} : MemberKept(v)
    BY <1>1, <1>2 DEF MemberTyped, MemberKept, groupVars, batchVars
  <1> QED
    BY <1>1, <1>2, <1>3, <1>4, <1>5, <1>6, BatchStep DEF Working, batchVars

--------------------------------------------------------------------------------
(* recordsSafeToCommit *)

\* The record it comes to is a job's, or malformed.
LEMMA RecordIsEvent ==
    ASSUME IInv, NEW w \in Workers, HandleRecord(w)
    PROVE  RecordAt(part[w], cursor[w]) \in Events
  <1>1. cursor[w] + 1 \in 1 .. Len(topic[part[w]])
    BY InHand DEF HandleRecord
  <1>2. topic[part[w]] \in Seq(Events \cup {Malformed})
    BY InHand DEF GroupTyped
  <1> QED
    BY <1>1, <1>2 DEF RecordAt, HandleRecord

\* A record is handed to handleRecord.
LEMMA HandleRecordIInv ==
    ASSUME IInv, NEW w \in Workers, HandleRecord(w) PROVE IInv'
  <1> DEFINE e == RecordAt(part[w], cursor[w])
  <1>1. /\ GroupTyped /\ MemberTyped /\ BatchInv(w)
        /\ phase[w] = "handle" /\ phase' = [phase EXCEPT ![w] = "handling"]
        /\ cursor[w] < position[w][part[w]] /\ e # Malformed /\ Completion!Start(w, e)
        /\ UNCHANGED <<groupVars, batchVars, historyVars, topic, restarts>>
    BY InHand DEF HandleRecord, Goto
  <1>2. e \in Events
    BY RecordIsEvent
  <1>3. RowStep(w)
    BY <1>1, <1>2 DEF RowStep
  <1>4. /\ Completion!IInv' /\ \A v \in Workers \ {w} : job'[v] = job[v]
        /\ HistoryKept
    BY <1>1, <1>3, InHand, RowStepIInv, RowStepFrame DEF HistoryKept, historyVars
  <1>5. job'[w] = e
    BY <1>1, InHand DEF Completion!Start, Completion!IInv, Completion!TypeOK
  <1>6. GroupTyped' /\ MemberTyped'
    BY <1>1 DEF GroupTyped, MemberTyped, groupVars, batchVars, historyVars
  <1>7. phase'[w] = "handling"
    BY <1>1 DEF MemberTyped
  <1>8. BatchInv(w)'
    BY <1>1, <1>4, <1>5, <1>7
       DEF BatchInv, Working, groupVars, batchVars, historyVars, HistoryKept, Done, Settled,
           RecordAt
  <1>9. \A v \in Workers \ {w} : MemberKept(v)
    BY <1>1, <1>4 DEF MemberTyped, MemberKept, groupVars, batchVars
  <1> HIDE DEF e
  <1> QED
    BY <1>1, <1>4, <1>6, <1>7, <1>8, <1>9, BatchStep DEF Working, batchVars

\* The loop breaks off: what was done before stays the prefix to commit.
LEMMA BreakOffIInv ==
    ASSUME IInv, NEW w \in Workers, BreakOff(w), phase[w] \in {"handle", "handling"},
           Completion!IInv', HistoryKept, \A v \in Workers \ {w} : job'[v] = job[v],
           UNCHANGED <<groupVars, start, todo, part, restarts>>
    PROVE  IInv'
  <1>1. /\ GroupTyped /\ MemberTyped /\ BatchInv(w)
        /\ phase' = [phase EXCEPT ![w] = "commit"]
        /\ failed' = [failed EXCEPT ![part[w]] = @ \cup {cursor[w]}]
        /\ UNCHANGED <<cursor, handled, topic>>
        /\ part[w] \in Partitions /\ cursor[w] \in Nat
    BY InHand DEF BreakOff, Goto, HistoryKept
  <1>2. GroupTyped' /\ MemberTyped'
    BY <1>1 DEF GroupTyped, MemberTyped, groupVars
  <1>3. phase'[w] = "commit"
    BY <1>1 DEF MemberTyped
  <1>4. BatchInv(w)'
    BY <1>1, <1>3
       DEF BatchInv, Working, groupVars, HistoryKept, Done, Settled, RecordAt
  <1>5. \A v \in Workers \ {w} : MemberKept(v)
    BY <1>1 DEF MemberTyped, MemberKept, groupVars
  <1> QED
    BY <1>2, <1>3, <1>4, <1>5, BatchStep DEF Working

\* A malformed record breaks the batch off before any store call.
LEMMA RejectMalformedIInv ==
    ASSUME IInv, NEW w \in Workers, RejectMalformed(w) PROVE IInv'
  <1>1. Completion!IInv' /\ HistoryKept /\ UNCHANGED job
    BY InHand, RowsKept DEF RejectMalformed, HistoryKept, BreakOff
  <1> QED
    BY <1>1, BreakOffIInv DEF RejectMalformed

\* handleRecord says that its record is safe to commit: the job is answered.
LEMMA SucceedIInv ==
    ASSUME IInv, NEW w \in Workers, Succeed(w), phase[w] = "handling",
           Completion!TakeVerdict(w), verdict[w], HistoryKept, Completion!IInv',
           \A v \in Workers \ {w} : job'[v] = job[v],
           UNCHANGED <<groupVars, start, todo, part, topic, restarts>>
    PROVE  IInv'
  <1> DEFINE p == part[w]
             o == cursor[w]
  <1>1. /\ GroupTyped /\ MemberTyped /\ BatchInv(w)
        /\ cursor' = [cursor EXCEPT ![w] = @ + 1]
        /\ handled' = [handled EXCEPT ![p] = @ \cup {o}]
        /\ failed' = [failed EXCEPT ![p] = @ \ {o}]
        /\ phase' = [phase EXCEPT ![w] = "handle"]
        /\ p \in Partitions /\ o \in Nat
    BY InHand DEF Succeed, Goto
  <1>2. GroupTyped' /\ MemberTyped'
    BY <1>1 DEF GroupTyped, MemberTyped, groupVars
  <1>3. cursor'[w] = o + 1 /\ phase'[w] = "handle" /\ part'[w] = p /\ o \in handled'[p]
    BY <1>1 DEF GroupTyped, MemberTyped
  <1>4. /\ job[w] \in Events /\ answered[job[w]] \cap Completion!FinalMeanings # {}
        /\ RecordAt(p, o) = job[w] /\ answered' = answered
    BY <1>1, InHand
       DEF Completion!TakeVerdict, Completion!history, Completion!IInv,
           Completion!TypeOK, Completion!VerdictIsBacked, BatchInv
  <1>5. (cursor[w] - 1)' = o
    BY <1>1, <1>3
  <1>6. RecordAt(part[w], cursor[w] - 1)' = RecordAt(p, o)
    BY <1>3, <1>5 DEF RecordAt
  <1>7. Done(part[w], cursor[w] - 1)'
    BY <1>3, <1>4, <1>5, <1>6, WorkerAssumption DEF Done, Settled
  <1>8. BatchInv(w)'
    BY <1>1, <1>3, <1>7, InHand DEF BatchInv, Working, groupVars
  <1>9. \A v \in Workers \ {w} : MemberKept(v)
    BY <1>1 DEF MemberTyped, MemberKept, groupVars
  <1> HIDE DEF p, o
  <1> QED
    BY <1>2, <1>3, <1>8, <1>9, BatchStep DEF Working

\* Either verdict of handleRecord.
LEMMA RecordHandledIInv ==
    ASSUME IInv, NEW w \in Workers, RecordHandled(w) PROVE IInv'
  <1>1. /\ Completion!TakeVerdict(w) /\ phase[w] = "handling"
        /\ UNCHANGED <<groupVars, start, todo, part, topic, restarts>>
        /\ IF verdict[w] THEN Succeed(w) ELSE BreakOff(w)
    BY DEF RecordHandled
  <1>2. RowStep(w)
    BY <1>1 DEF RowStep
  <1>3. /\ Completion!IInv' /\ \A v \in Workers \ {w} : job'[v] = job[v]
        /\ \A e \in Events : answered[e] \subseteq answered'[e]
    BY <1>2, InHand, RowStepIInv, RowStepFrame
  <1>4. \A p \in Partitions : handled[p] \subseteq handled'[p]
    <2>1. DOMAIN handled = Partitions
      BY InHand DEF GroupTyped
    <2> QED
      BY <1>1, <2>1 DEF Succeed, BreakOff
  <1>5. HistoryKept
    BY <1>1, <1>3, <1>4 DEF HistoryKept
  <1>6. CASE verdict[w]
    BY <1>1, <1>3, <1>5, <1>6, SucceedIInv
  <1>7. CASE ~ verdict[w]
    BY <1>1, <1>3, <1>5, <1>7, BreakOffIInv
  <1> QED
    BY <1>1, <1>6, <1>7

\* The statements and the POST of one record.
LEMMA StoreStepIInv ==
    ASSUME IInv, NEW w \in Workers, StoreStep(w) PROVE IInv'
  <1>1. /\ RowStep(w) /\ GroupTyped /\ MemberTyped
        /\ UNCHANGED <<groupVars, batchVars, phase, historyVars, topic, restarts>>
    BY InHand DEF StoreStep, RowStep
  <1>2. /\ Completion!IInv' /\ job' = job
        /\ \A e \in Events : answered[e] \subseteq answered'[e]
    BY <1>1, InHand, RowStepIInv, StoreStepFrame DEF StoreStep
  <1>3. HistoryKept /\ GroupTyped' /\ MemberTyped'
    BY <1>1, <1>2
       DEF HistoryKept, GroupTyped, MemberTyped, groupVars, batchVars, historyVars
  <1>4. \A v \in Workers : MemberKept(v)
    BY <1>1, <1>2 DEF MemberKept, groupVars, batchVars
  <1>5. BatchInv(w)'
    BY <1>3, <1>4, BatchStays
  <1> QED
    BY <1>1, <1>2, <1>3, <1>4, <1>5, BatchStep DEF Working, batchVars

--------------------------------------------------------------------------------
(* CommitRecords and the faults *)

\* The next partition of the fetch.
LEMMA NextPartitionFrame ==
    ASSUME IInv, NEW w \in Workers, NextPartition(w), UNCHANGED position
    PROVE  /\ MemberTyped' /\ phase'[w] = "batch" /\ ~ Working(w)' /\ BatchInv(w)'
           /\ UNCHANGED <<start, todo>>
           /\ \A v \in Workers \ {w} :
                part'[v] = part[v] /\ cursor'[v] = cursor[v] /\ phase'[v] = phase[v]
  <1>1. /\ MemberTyped /\ BatchInv(w) /\ NoPart \in Partitions
        /\ part' = [part EXCEPT ![w] = NoPart]
        /\ cursor' = [cursor EXCEPT ![w] = 0]
        /\ phase' = [phase EXCEPT ![w] = "batch"]
        /\ UNCHANGED <<start, todo>>
    BY InHand, WorkerAssumption DEF NextPartition, Goto, NoPart
  <1>2. MemberTyped' /\ phase'[w] = "batch"
    BY <1>1 DEF MemberTyped
  <1> QED
    BY <1>1, <1>2 DEF MemberTyped, Working, BatchInv

\* The committed offset moves up to the cursor, behind which all is done.
LEMMA CommitMoves ==
    ASSUME IInv, NEW w \in Workers, CommitRecords(w)
    PROVE  /\ \A p \in Partitions :
                \/ committed'[p] = committed[p]
                \/ /\ p = part[w] /\ owner[p] = w
                   /\ committed'[p] = cursor[w]
                   /\ committed[p] < cursor[w] /\ cursor[w] <= position[w][p]
                   /\ Done(p, cursor[w] - 1)
           /\ committed' \in [Partitions -> Nat]
  <1>1. /\ GroupTyped /\ BatchInv(w) /\ OwnerInv(w) /\ part[w] \in Partitions
        /\ cursor[w] \in Nat /\ start[w][part[w]] \in Nat /\ committed[part[w]] \in Nat
        /\ Working(w)
        /\ committed' = IF cursor[w] > start[w][part[w]] /\ owner[part[w]] = w
                        THEN [committed EXCEPT ![part[w]] = cursor[w]] ELSE committed
    BY InHand DEF CommitRecords, Working
  <1>2. CASE cursor[w] > start[w][part[w]] /\ owner[part[w]] = w
    <2>1. committed[part[w]] < cursor[w]
      BY <1>1, <1>2 DEF OwnerInv
    <2>2. Done(part[w], cursor[w] - 1) /\ cursor[w] <= position[w][part[w]]
      BY <1>1, <1>2 DEF BatchInv
    <2> QED
      BY <1>1, <1>2, <2>1, <2>2 DEF GroupTyped
  <1> QED
    BY <1>1, <1>2 DEF GroupTyped

\* Either outcome of CommitRecords.
LEMMA CommitRecordsIInv ==
    ASSUME IInv, NEW w \in Workers, CommitRecords(w) PROVE IInv'
  <1>1. /\ GroupTyped /\ MemberTyped /\ BatchInv(w) /\ OwnerInv(w)
        /\ NextPartition(w) /\ HistoryKept /\ Completion!IInv'
        /\ UNCHANGED <<job, owner, position, historyVars, topic, restarts>>
    BY InHand, RowsKept DEF CommitRecords, HistoryKept, historyVars
  <1>2. /\ MemberTyped' /\ ~ Working(w)' /\ BatchInv(w)' /\ UNCHANGED <<start, todo>>
        /\ \A v \in Workers \ {w} : MemberKept(v)
    BY <1>1, NextPartitionFrame DEF MemberKept
  <1>3. GroupTyped'
    BY <1>1, CommitMoves DEF GroupTyped, historyVars
  <1>4. Bounded'
    BY <1>1, InHand, CommitMoves DEF Bounded, IInv
  <1>5. CommitInv'
    <2> SUFFICES ASSUME NEW p \in Partitions, committed'[p] > 0
                 PROVE  Done(p, committed[p] - 1)'
      BY DEF CommitInv
    <2>1. Done(p, committed'[p] - 1)
      BY CommitMoves DEF IInv, CommitInv
    <2> QED
      BY <1>1, <2>1 DEF HistoryKept, historyVars, Done, Settled, RecordAt
  <1>6. OwnerInv(w)'
    <2> SUFFICES ASSUME NEW p \in Partitions, owner[p] = w
                 PROVE  /\ committed'[p] <= position[w][p]
                        /\ p \in todo[w] => committed'[p] <= start[w][p]
      BY <1>1, <1>2 DEF OwnerInv
    <2>1. part[w] \notin todo[w]
      BY <1>1 DEF BatchInv, CommitRecords, Working
    <2> QED
      BY <1>1, <2>1, CommitMoves DEF OwnerInv
  <1>7. \A p \in Partitions :
          /\ committed'[p] = committed[p] \/ owner[p] = w
          /\ owner'[p] = owner[p]
    BY <1>1, CommitMoves
  <1> QED
    BY <1>1, <1>2, <1>3, <1>4, <1>5, <1>6, <1>7, NextTypeOK, MemberStep

\* A failing fetch or commit touches no row: only the number of faults moves.
LEMMA FaultIInv ==
    ASSUME Completion!IInv, Completion!Fault,
           UNCHANGED <<status, attempts, pc, job, outcome, verdict, calls, answered>>
    PROVE  Completion!IInv'
  BY DEF Completion!Fault, Completion!IInv, Completion!TypeOK,
         Completion!ProcessedWasDelivered, Completion!CallsAreClaimed,
         Completion!Claimants, Completion!VerdictIsBacked, Completion!WorkIsBacked

\* A failed commit is logged and the loop goes on.
LEMMA CommitFailsIInv ==
    ASSUME IInv, NEW w \in Workers, CommitFails(w) PROVE IInv'
  <1>1. /\ GroupTyped /\ MemberTyped /\ NextPartition(w)
        /\ Completion!Fault /\ Completion!IInv
        /\ UNCHANGED <<status, attempts, pc, job, outcome, verdict, calls, answered,
                       groupVars, historyVars, topic, restarts>>
    BY InHand DEF CommitFails
  <1>2. Completion!IInv' /\ HistoryKept /\ GroupTyped'
    BY <1>1, FaultIInv DEF HistoryKept, GroupTyped, groupVars, historyVars
  <1>3. UNCHANGED position
    BY <1>1 DEF groupVars
  <1>4. /\ MemberTyped' /\ ~ Working(w)' /\ BatchInv(w)' /\ UNCHANGED <<start, todo>>
        /\ \A v \in Workers \ {w} : MemberKept(v)
    BY <1>1, <1>3, NextPartitionFrame DEF MemberKept
  <1> QED
    BY <1>1, <1>2, <1>4, BatchStep

\* A fetch that is dropped leaves its partition behind, unread.
LEMMA FetchFailsIInv ==
    ASSUME IInv, NEW w \in Workers, FetchFails(w) PROVE IInv'
  <1>1. /\ GroupTyped /\ MemberTyped /\ BatchInv(w)
        /\ Completion!Fault /\ Completion!IInv /\ phase[w] = "batch"
        /\ UNCHANGED <<status, attempts, pc, job, outcome, verdict, calls, answered,
                       groupVars, start, part, cursor, phase, handled, topic, restarts>>
    BY InHand DEF FetchFails
  <1>2. PICK p \in todo[w] :
          /\ todo' = [todo EXCEPT ![w] = @ \ {p}]
          /\ failed' = [failed EXCEPT ![p] = @ \cup {start[w][p]}]
    BY DEF FetchFails
  <1>3. p \in Partitions /\ start[w][p] \in Nat
    BY <1>1, <1>2 DEF MemberTyped
  <1>4. Completion!IInv' /\ HistoryKept
    BY <1>1, FaultIInv DEF HistoryKept
  <1>5. GroupTyped' /\ MemberTyped'
    BY <1>1, <1>2, <1>3 DEF GroupTyped, MemberTyped, groupVars
  <1>6. todo'[w] = todo[w] \ {p} /\ phase'[w] = "batch"
    BY <1>1, <1>2 DEF MemberTyped
  <1>7. BatchInv(w)' /\ ~ Working(w)'
    BY <1>1, <1>6 DEF BatchInv, Working, groupVars
  <1>8. \A v \in Workers \ {w} : MemberKept(v)
    BY <1>1, <1>2 DEF MemberTyped, MemberKept, groupVars
  <1> QED
    BY <1>1, <1>4, <1>5, <1>6, <1>7, <1>8, BatchStep

\* A member that dies owns nothing.
LEMMA DieIInv ==
    ASSUME IInv, NEW w \in Workers, Die(w) PROVE IInv'
  <1>1. /\ GroupTyped /\ MemberTyped /\ RowStep(w)
        /\ owner' = [p \in Partitions |-> IF owner[p] = w THEN Nobody ELSE owner[p]]
        /\ start' = [start EXCEPT ![w] = Zero]
        /\ todo' = [todo EXCEPT ![w] = {}]
        /\ part' = [part EXCEPT ![w] = NoPart]
        /\ cursor' = [cursor EXCEPT ![w] = 0]
        /\ phase' = [phase EXCEPT ![w] = "down"]
        /\ UNCHANGED <<committed, position, historyVars, topic>>
        /\ restarts' = restarts + 1
    BY InHand DEF Die, Goto, RowStep, RestartBudget
  <1>2. /\ Completion!IInv' /\ \A v \in Workers \ {w} : job'[v] = job[v]
        /\ HistoryKept
    BY <1>1, InHand, RowStepIInv, RowStepFrame DEF HistoryKept, historyVars
  <1>3. GroupTyped'
    BY <1>1 DEF GroupTyped, historyVars
  <1>4. MemberTyped'
    BY <1>1, WorkerAssumption DEF MemberTyped, Zero, NoPart
  <1>5. todo'[w] = {} /\ phase'[w] = "down"
    BY <1>1 DEF MemberTyped
  <1>6. BatchInv(w)'
    BY <1>5 DEF BatchInv, Working
  <1>7. \A p \in Partitions : owner'[p] # w /\ owner'[p] \in {owner[p], Nobody}
    BY <1>1, WorkerAssumption
  <1>8. OwnerInv(w)'
    BY <1>7 DEF OwnerInv
  <1>9. Bounded' /\ CommitInv'
    BY <1>1, <1>2, CommitStays DEF IInv, Bounded
  <1>10. \A v \in Workers \ {w} : MemberKept(v)
    BY <1>1, <1>2 DEF MemberTyped, MemberKept
  <1> QED
    BY <1>1, <1>2, <1>3, <1>4, <1>6, <1>7, <1>8, <1>9, <1>10, NextTypeOK, MemberStep

\* A partition is taken away: the members stay where they are.
LEMMA RevokeIInv ==
    ASSUME IInv, NEW p \in Partitions, Revoke(p) PROVE IInv'
  <1>1. /\ Completion!IInv /\ GroupTyped /\ MemberTyped
        /\ owner' = [owner EXCEPT ![p] = Nobody]
        /\ UNCHANGED <<completionVars, committed, position, batchVars, phase,
                       historyVars, topic>>
        /\ restarts' = restarts + 1
    BY TypeParts DEF IInv, Revoke, RestartBudget
  <1>2. Completion!IInv' /\ HistoryKept /\ UNCHANGED job
    BY <1>1, RowsKept DEF HistoryKept, historyVars
  <1>3. GroupTyped' /\ MemberTyped'
    BY <1>1 DEF GroupTyped, MemberTyped, batchVars, historyVars
  <1>4. \A v \in Workers : MemberKept(v)
    BY <1>1, <1>2 DEF MemberKept, batchVars
  <1>5. \A q \in Partitions : owner'[q] \in {owner[q], Nobody}
    BY <1>1 DEF GroupTyped
  <1>6. ASSUME NEW v \in Workers PROVE OwnerInv(v)'
    <2>1. \A q \in Partitions : owner'[q] = v => owner[q] = v
      BY <1>5, WorkerAssumption
    <2>2. OwnerInv(v) /\ (Working(v)' <=> Working(v))
      BY <1>4 DEF IInv, MemberKept, Working
    <2> QED
      BY <1>1, <1>4, <2>1, <2>2 DEF OwnerInv, MemberKept
  <1>7. Bounded' /\ CommitInv' /\ TypeOK'
    BY <1>1, <1>2, <1>3, CommitStays, NextTypeOK DEF IInv, Bounded
  <1>8. \A v \in Workers : BatchInv(v)'
    BY <1>2, <1>4, BatchStays
  <1> QED
    BY <1>2, <1>6, <1>7, <1>8 DEF IInv

\* A partition is assigned: the member starts at the committed offset.
LEMMA AssignIInv ==
    ASSUME IInv, NEW p \in Partitions, NEW w \in Workers, Assign(p, w) PROVE IInv'
  <1>1. /\ GroupTyped /\ MemberTyped /\ BatchInv(w) /\ OwnerInv(w) /\ phase[w] = "poll"
        /\ owner[p] = Nobody /\ owner' = [owner EXCEPT ![p] = w]
        /\ position' = [position EXCEPT ![w][p] = committed[p]]
        /\ UNCHANGED <<completionVars, committed, batchVars, phase, historyVars, topic,
                       restarts>>
    BY InHand DEF Assign
  <1>2. Completion!IInv' /\ HistoryKept /\ UNCHANGED job
    BY <1>1, InHand, RowsKept DEF HistoryKept, historyVars
  <1>3. GroupTyped' /\ MemberTyped'
    BY <1>1 DEF GroupTyped, MemberTyped, batchVars, historyVars
  <1>4. /\ \A v \in Workers \ {w} : MemberKept(v) /\ position'[v] = position[v]
        /\ \A q \in Partitions \ {p} :
              position'[w][q] = position[w][q] /\ owner'[q] = owner[q]
        /\ position'[w][p] = committed[p] /\ owner'[p] = w
    BY <1>1, <1>2 DEF GroupTyped, MemberKept, batchVars
  <1>5. Bounded' /\ CommitInv'
    BY <1>1, <1>2, <1>4, CommitStays DEF IInv, Bounded
  <1>6. phase'[w] = "poll" /\ todo'[w] = {}
    BY <1>1 DEF BatchInv, batchVars
  <1>7. BatchInv(w)' /\ ~ Working(w)'
    BY <1>6 DEF BatchInv, Working
  <1>8. OwnerInv(w)'
    BY <1>1, <1>4, <1>6, <1>7, InHand DEF OwnerInv
  <1>9. \A q \in Partitions : committed'[q] = committed[q] /\ owner'[q] \in {owner[q], w}
    BY <1>1, <1>4
  <1> QED
    BY <1>2, <1>3, <1>4, <1>5, <1>7, <1>8, <1>9, NextTypeOK, MemberStep

--------------------------------------------------------------------------------
(* The theorems *)

\* Nothing fetched, nothing committed.
LEMMA InitIInv == Init => IInv
  <1> SUFFICES ASSUME Init PROVE IInv
    OBVIOUS
  <1>1. Rows!IInv
    BY RowsAssumption, SameInit, Rows!InitIInv DEF Init
  <1>2. Completion!IInv /\ Completion!TypeOK
    BY <1>1, SameIInv DEF Completion!IInv
  <1>3. GroupTyped /\ MemberTyped
    BY WorkerAssumption DEF Init, GroupTyped, MemberTyped, Zero, NoPart
  <1>4. \A p \in Partitions : Len(topic[p]) \in Nat
    BY <1>3 DEF GroupTyped
  <1>5. Bounded /\ CommitInv
    BY <1>4 DEF Init, Zero, Bounded, CommitInv
  <1>6. \A w \in Workers : BatchInv(w) /\ OwnerInv(w)
    BY WorkerAssumption DEF Init, BatchInv, OwnerInv, Working
  <1> QED
    BY <1>2, <1>3, <1>5, <1>6, TypeParts DEF IInv

\* Every step of every member and of the group.
LEMMA NextIInv == IInv /\ [Next]_vars => IInv'
  <1> SUFFICES ASSUME IInv, [Next]_vars PROVE IInv'
    OBVIOUS
  <1>1. ASSUME NEW w \in Workers, LoopStep(w) PROVE IInv'
    BY <1>1, PollFetchesIInv, EachPartitionIInv, AllowRebalanceIInv, HandleRecordIInv,
       RejectMalformedIInv, RecordHandledIInv, BatchHandledIInv, CommitRecordsIInv
       DEF LoopStep
  <1>2. ASSUME NEW w \in Workers,
               \/ StoreStep(w) \/ FetchFails(w) \/ CommitFails(w)
               \/ Die(w) \/ Restart(w)
        PROVE  IInv'
    BY <1>2, StoreStepIInv, FetchFailsIInv, CommitFailsIInv, DieIInv, RestartIInv
  <1>3. ASSUME NEW p \in Partitions, Revoke(p) PROVE IInv'
    BY <1>3, RevokeIInv
  <1>4. ASSUME NEW p \in Partitions, NEW w \in Workers, Assign(p, w) PROVE IInv'
    BY <1>4, AssignIInv
  <1>5. CASE UNCHANGED vars
    <2>1. /\ Completion!IInv /\ GroupTyped /\ MemberTyped
          /\ UNCHANGED <<completionVars, groupVars, batchVars, phase, historyVars, topic,
                         restarts>>
      BY <1>5, TypeParts DEF IInv, vars
    <2>2. Completion!IInv' /\ HistoryKept /\ UNCHANGED job
      BY <2>1, RowsKept DEF HistoryKept, historyVars
    <2>3. TypeOK' /\ Bounded' /\ CommitInv'
      BY <2>1, <2>2, NextTypeOK, CommitStays
         DEF IInv, Bounded, GroupTyped, MemberTyped, groupVars, batchVars, historyVars
    <2>4. \A v \in Workers : MemberKept(v)
      BY <2>1, <2>2 DEF MemberKept, groupVars, batchVars
    <2>5. \A v \in Workers : BatchInv(v)'
      BY <2>2, <2>4, BatchStays
    <2>6. \A v \in Workers : OwnerInv(v)'
      BY <2>1, <2>4 DEF IInv, OwnerInv, Working, MemberKept, groupVars
    <2> QED
      BY <2>2, <2>3, <2>5, <2>6 DEF IInv
  <1> QED
    BY <1>1, <1>2, <1>3, <1>4, <1>5 DEF Next

\* The inductive invariant holds in every behaviour.
LEMMA Inductive == Spec => []IInv
  BY InitIInv, NextIInv, PTL DEF Spec

\* The loop's variables stay within their types, and so do the rows under it.
THEOREM TypeCorrect == Spec => []TypeOK
  <1>1. IInv => TypeOK
    BY DEF IInv
  <1> QED
    BY <1>1, Inductive, PTL

\* CommitRecords is never ahead of what recordsSafeToCommit has seen done: the
\* record below a committed offset was handled and answered for good.
THEOREM CommitsFollowOutcomes == Spec => []CommitFollowsOutcome
  <1>1. IInv => CommitFollowsOutcome
    BY DEF IInv, CommitInv, Done, CommitFollowsOutcome
  <1> QED
    BY <1>1, Inductive, PTL

\* No rebalance, eviction, restart or late commit moves a committed offset back.
THEOREM CommitsOnlyGrow == Spec => CommittedNeverRegresses
  <1>1. IInv /\ [Next]_vars =>
          [\A p \in Partitions : committed'[p] >= committed[p]]_vars
    <2> SUFFICES ASSUME IInv, Next
                 PROVE  \A p \in Partitions : committed'[p] >= committed[p]
      OBVIOUS
    <2>1. \A p \in Partitions : committed[p] \in Nat
      BY DEF IInv, TypeOK
    <2>2. ASSUME NEW w \in Workers, CommitRecords(w)
          PROVE  \A p \in Partitions : committed'[p] >= committed[p]
      BY <2>1, <2>2, CommitMoves, InHand
    <2>3. CASE UNCHANGED committed
      BY <2>1, <2>3
    <2>4. UNCHANGED committed \/ \E w \in Workers : CommitRecords(w)
      BY DEF Next, LoopStep, StoreStep, PollFetches, EachPartition, AllowRebalance,
             HandleRecord, RejectMalformed, RecordHandled, BatchHandled, FetchFails,
             CommitFails, Die, Restart, Revoke, Assign, groupVars
    <2> QED
      BY <2>2, <2>3, <2>4
  <1> QED
    BY <1>1, Inductive, PTL DEF Spec, CommittedNeverRegresses

--------------------------------------------------------------------------------
(* A worker that has every event to itself *)

\* One worker has every event to itself.
Alone == \E w \in Workers : Workers = {w}

\* What it knows of the row of its event.
RowsAreMine == \A w \in Workers : Rows!RowIsMine(w)

\* The rows' part of the state; a failing fetch or commit moves the number of
\* faults beside it.
rowVars == <<status, attempts, pc, job, outcome, verdict, calls, answered>>

\* Every step is one of the record it handles, or leaves the rows alone.
LEMMA LoneStep ==
    ASSUME IInv, Next, NEW w \in Workers, Workers = {w}
    PROVE  RowStep(w) \/ UNCHANGED rowVars
  <1>1. CASE LoopStep(w)
    <2>1. CASE HandleRecord(w)
      BY <2>1, RecordIsEvent DEF HandleRecord, RowStep
    <2>2. CASE RecordHandled(w)
      BY <2>2 DEF RecordHandled, RowStep
    <2>3. CASE UNCHANGED completionVars
      BY <2>3 DEF completionVars, rowVars
    <2>4. HandleRecord(w) \/ RecordHandled(w) \/ UNCHANGED completionVars
      BY <1>1 DEF LoopStep, PollFetches, EachPartition, AllowRebalance,
                  RejectMalformed, BatchHandled, CommitRecords
    <2> QED
      BY <2>1, <2>2, <2>3, <2>4
  <1>2. CASE StoreStep(w)
    BY <1>2 DEF StoreStep, RowStep
  <1>3. CASE FetchFails(w) \/ CommitFails(w)
    BY <1>3 DEF FetchFails, CommitFails, rowVars
  <1>4. CASE Die(w)
    BY <1>4 DEF Die, RowStep
  <1>5. CASE Restart(w)
    BY <1>5 DEF Restart, completionVars, rowVars
  <1>6. CASE \E p \in Partitions : Revoke(p) \/ \E v \in Workers : Assign(p, v)
    BY <1>6 DEF Revoke, Assign, completionVars, rowVars
  <1> QED
    BY <1>1, <1>2, <1>3, <1>4, <1>5, <1>6 DEF Next

\* What it knows of the row stays true: nobody else writes to it.
LEMMA RowStaysMine ==
    ASSUME IInv, NEW w \in Workers, Rows!RowIsMine(w), RowStep(w) \/ UNCHANGED rowVars
    PROVE  Rows!RowIsMine(w)'
  <1>1. Rows!IInv /\ Rows!FrameTyped
    <2>1. Rows!IInv
      BY SameIInv DEF IInv
    <2> QED
      BY <2>1 DEF Rows!IInv, Rows!TypeOK, Rows!FrameTyped, Rows!PCs
  <1>2. CASE Completion!HandleStep(w)
    BY <1>1, <1>2, SameHandleStep, RowsAssumption, Rows!StatementsKeepRow
  <1>3. CASE \/ \E e \in Events : Completion!Start(w, e)
             \/ Completion!StatementFails(w) \/ Completion!TakeVerdict(w)
             \/ Completion!Die(w)
    BY <1>1, <1>3, SameSteps, RowsAssumption, Rows!OtherStepsKeepRow
  <1>4. CASE UNCHANGED rowVars
    BY <1>4 DEF rowVars, Rows!RowIsMine
  <1> QED
    BY <1>2, <1>3, <1>4 DEF RowStep

\* At the start no worker is at a statement.
LEMMA InitRowsAreMine == Init => RowsAreMine
  BY DEF Init, Completion!Init, RowsAreMine, Rows!RowIsMine

\* So a lone worker knows its row at every statement.
LEMMA LoneRowsAreMine ==
    ASSUME Alone PROVE Spec => []RowsAreMine
  <1>1. IInv /\ RowsAreMine /\ [Next]_vars => RowsAreMine'
    <2> SUFFICES ASSUME IInv, RowsAreMine, [Next]_vars PROVE RowsAreMine'
      OBVIOUS
    <2>1. PICK w \in Workers : Workers = {w}
      BY DEF Alone
    <2>2. CASE Next
      BY <2>1, <2>2, LoneStep, RowStaysMine DEF RowsAreMine
    <2>3. CASE UNCHANGED vars
      BY <2>3, RowStaysMine DEF RowsAreMine, vars, completionVars, rowVars
    <2> QED
      BY <2>2, <2>3
  <1> QED
    BY <1>1, InitRowsAreMine, Inductive, PTL DEF Spec

\* A lone worker says "safe to commit" only over a durable row, through crashes,
\* lost answers and duplicates of its event on the topic.
THEOREM LoneVerdictsAreDurable ==
    ASSUME Alone PROVE Spec => []VerdictIsDurable
  <1>1. RowsAreMine => VerdictIsDurable
    BY DEF RowsAreMine, Rows!RowIsMine, VerdictIsDurable, Completion!VerdictIsDurable
  <1> QED
    BY <1>1, LoneRowsAreMine, PTL

\* And never POSTs a job whose row says "processed", however often the record
\* comes back.
THEOREM LoneCallsAreNew ==
    ASSUME Alone PROVE Spec => NoCallOnceProcessed
  <1>1. IInv /\ RowsAreMine /\ [Next]_vars =>
          [\A e \in Events : calls'[e] # calls[e] => status[e] # "processed"]_vars
    <2> SUFFICES ASSUME IInv, RowsAreMine, Next,
                        NEW e \in Events, calls'[e] # calls[e]
                 PROVE  status[e] # "processed"
      OBVIOUS
    <2>1. PICK w \in Workers : Workers = {w}
      BY DEF Alone
    <2>2. RowStep(w)
      BY <2>1, LoneStep DEF rowVars
    <2>3. Completion!HandleStep(w) \/ Completion!Die(w)
      BY <2>2 DEF RowStep, Completion!Start, Completion!StatementFails,
                  Completion!TakeVerdict, Completion!history
    <2>4. Rows!HandleStep(w) \/ Rows!Die(w)
      BY <2>3, SameSteps, SameHandleStep
    <2>5. status[e] = "processing"
      BY <2>1, <2>4, RowsAssumption, SameIInv, Rows!CallsOfMine DEF IInv, RowsAreMine
    <2> QED
      BY <2>5
  <1> QED
    BY <1>1, LoneRowsAreMine, Inductive, PTL DEF Spec, NoCallOnceProcessed

--------------------------------------------------------------------------------
(* Which offsets a commit can pass over *)

\* Up to offset n every record was handled, or one before it has failed since.
AccountedBelow(p, n) ==
    \A o \in 0 .. n - 1 : o \in handled[p] \/ \E f \in failed[p] : f <= o

\* The record of a partition that a member comes to next: nothing of a fetch is
\* read again once its loop has broken off.
Reached(w, p) ==
    IF p \in todo[w] THEN start[w][p]
    ELSE IF phase[w] \in {"handle", "handling"} /\ p = part[w] THEN cursor[w]
    ELSE position[w][p]

\* What a lone worker has passed over, in a partition that is still its own and in
\* one that it has lost during the batch.
SkipInv(w) ==
    \A p \in Partitions :
        /\ AccountedBelow(p, committed[p])
        /\ owner[p] = w => AccountedBelow(p, Reached(w, p))
        /\ p \in todo[w] \/ (Working(w) /\ p = part[w]) => committed[p] <= start[w][p]

\* A step that passes over nothing: no history moves, and each record of its
\* partitions that w comes to next is the one it came to next before.
LEMMA PassesNothing ==
    ASSUME NEW w \in Workers, SkipInv(w), UNCHANGED <<groupVars, historyVars>>,
           \A p \in Partitions : Reached(w, p)' = Reached(w, p),
           \A p \in Partitions :
              p \in todo'[w] \/ (Working(w)' /\ p = part'[w]) =>
                  /\ p \in todo[w] \/ (Working(w) /\ p = part[w])
                  /\ start'[w][p] = start[w][p]
    PROVE  SkipInv(w)'
  <1>1. ASSUME NEW p \in Partitions
        PROVE  AccountedBelow(p, committed[p])' /\ owner'[p] = owner[p]
    BY <1>1 DEF SkipInv, AccountedBelow, groupVars, historyVars
  <1>2. ASSUME NEW p \in Partitions, owner[p] = w
        PROVE  AccountedBelow(p, Reached(w, p))'
    <2>1. AccountedBelow(p, Reached(w, p))
      BY <1>2 DEF SkipInv
    <2>2. Reached(w, p)' = Reached(w, p)
      OBVIOUS
    <2> QED
      BY <2>1, <2>2 DEF AccountedBelow, historyVars
  <1> QED
    BY <1>1, <1>2 DEF SkipInv, groupVars

\* The steps that only go from one record or partition to the next.
LEMMA MovesOn ==
    ASSUME IInv, NEW w \in Workers, SkipInv(w),
           \/ EachPartition(w) \/ AllowRebalance(w) \/ HandleRecord(w)
           \/ BatchHandled(w) \/ StoreStep(w) \/ CommitFails(w) \/ Restart(w)
    PROVE  SkipInv(w)'
  <1>1. MemberTyped /\ BatchInv(w) /\ part[w] \in Partitions
    BY InHand
  <1>2. CASE EachPartition(w)
    BY <1>1, <1>2, PassesNothing
       DEF EachPartition, Goto, groupVars, MemberTyped, Reached, Working
  <1>3. CASE AllowRebalance(w)
    BY <1>1, <1>3, PassesNothing
       DEF AllowRebalance, Goto, groupVars, MemberTyped, Reached, Working
  <1>4. CASE HandleRecord(w)
    BY <1>1, <1>4, PassesNothing
       DEF HandleRecord, Goto, groupVars, batchVars, MemberTyped, Reached, Working
  <1>5. CASE BatchHandled(w)
    BY <1>1, <1>5, PassesNothing
       DEF BatchHandled, Goto, groupVars, batchVars, MemberTyped, Reached, Working
  <1>6. CASE StoreStep(w)
    BY <1>1, <1>6, PassesNothing
       DEF StoreStep, groupVars, batchVars, MemberTyped, Reached, Working
  <1>7. CASE CommitFails(w)
    BY <1>1, <1>7, PassesNothing
       DEF CommitFails, NextPartition, Goto, groupVars, MemberTyped, Reached, Working
  <1>8. CASE Restart(w)
    BY <1>1, <1>8, PassesNothing
       DEF Restart, Goto, groupVars, batchVars, MemberTyped, Reached, Working, BatchInv
  <1> QED
    BY <1>2, <1>3, <1>4, <1>5, <1>6, <1>7, <1>8

\* A fetch is read from where the member had got to, at or above the committed
\* offset of a partition that it owns.
LEMMA FetchSkips ==
    ASSUME IInv, NEW w \in Workers, SkipInv(w), PollFetches(w) PROVE SkipInv(w)'
  <1>1. /\ GroupTyped /\ MemberTyped /\ BatchInv(w) /\ OwnerInv(w)
        /\ phase[w] = "poll" /\ todo[w] = {}
    BY InHand DEF PollFetches, BatchInv
  <1>2. PICK upto \in [Partitions -> Ends] :
          /\ \A p \in Partitions : owner[p] # w => upto[p] = position[w][p]
          /\ position' = [position EXCEPT ![w] = upto]
          /\ todo' = [todo EXCEPT ![w] = {p \in Partitions : upto[p] # position[w][p]}]
    BY DEF PollFetches
  <1>3. /\ start' = [start EXCEPT ![w] = position[w]]
        /\ phase' = [phase EXCEPT ![w] = "batch"]
        /\ UNCHANGED <<owner, committed, historyVars>>
    BY DEF PollFetches, Goto
  <1>4. /\ position'[w] = upto /\ start'[w] = position[w] /\ phase'[w] = "batch"
        /\ \A p \in Partitions : p \in todo'[w] <=> upto[p] # position[w][p]
    BY <1>1, <1>2, <1>3 DEF GroupTyped, MemberTyped
  <1> SUFFICES ASSUME NEW p \in Partitions
               PROVE  /\ AccountedBelow(p, committed[p])'
                      /\ owner[p] = w => AccountedBelow(p, Reached(w, p))'
                      /\ p \in todo'[w] => committed[p] <= start'[w][p]
    BY <1>3, <1>4 DEF SkipInv, Working
  <1>5. AccountedBelow(p, committed[p])'
    BY <1>3 DEF SkipInv, AccountedBelow, historyVars
  <1>6. ASSUME owner[p] = w PROVE AccountedBelow(p, Reached(w, p))'
    <2>1. AccountedBelow(p, position[w][p])
      BY <1>1, <1>6 DEF SkipInv, Reached
    <2>2. Reached(w, p)' = position[w][p]
      BY <1>4 DEF Reached
    <2> QED
      BY <1>3, <2>1, <2>2 DEF AccountedBelow, historyVars
  <1>7. p \in todo'[w] => owner[p] = w /\ committed[p] <= start'[w][p]
    BY <1>1, <1>2, <1>4 DEF OwnerInv
  <1> QED
    BY <1>5, <1>6, <1>7

\* Breaking off passes over the rest of the fetch, which lies after the failure.
LEMMA BreakOffSkips ==
    ASSUME IInv, NEW w \in Workers, SkipInv(w), BreakOff(w),
           phase[w] \in {"handle", "handling"},
           UNCHANGED <<groupVars, start, todo, part>>
    PROVE  SkipInv(w)'
  <1> DEFINE q == part[w]
             c == cursor[w]
  <1>1. /\ GroupTyped /\ MemberTyped /\ BatchInv(w) /\ q \in Partitions /\ c \in Nat
        /\ position[w][q] \in Nat /\ q \notin todo[w]
    BY InHand DEF BatchInv, Working
  <1>2. /\ failed' = [failed EXCEPT ![q] = @ \cup {c}]
        /\ phase' = [phase EXCEPT ![w] = "commit"]
        /\ UNCHANGED <<cursor, handled>>
    BY DEF BreakOff, Goto
  <1>3. /\ phase'[w] = "commit" /\ c \in failed'[q]
        /\ \A p \in Partitions : failed[p] \subseteq failed'[p]
    BY <1>1, <1>2 DEF GroupTyped, MemberTyped
  <1> SUFFICES ASSUME NEW p \in Partitions
               PROVE  /\ AccountedBelow(p, committed[p])'
                      /\ owner[p] = w => AccountedBelow(p, Reached(w, p))'
                      /\ p \in todo[w] \/ p = q => committed[p] <= start[w][p]
    BY DEF SkipInv, groupVars
  <1>4. AccountedBelow(p, committed[p])'
    <2>1. AccountedBelow(p, committed[p])
      BY DEF SkipInv
    <2> QED
      BY <2>1, <1>2, <1>3 DEF AccountedBelow, groupVars
  <1>5. ASSUME owner[p] = w PROVE AccountedBelow(p, Reached(w, p))'
    <2>1. AccountedBelow(p, Reached(w, p))
      BY <1>5 DEF SkipInv
    <2>2. CASE p # q
      <3>1. Reached(w, p)' = Reached(w, p)
        BY <1>1, <1>3, <2>2 DEF Reached, groupVars
      <3> QED
        BY <1>2, <1>3, <2>1, <3>1 DEF AccountedBelow
    <2>3. CASE p = q
      <3>1. Reached(w, p) = c /\ Reached(w, p)' = position[w][p]
        BY <1>1, <1>3, <2>3 DEF Reached, groupVars
      <3>2. \A o \in 0 .. position[w][p] - 1 :
              o \in handled[p] \/ \E f \in failed'[p] : f <= o
        <4> TAKE o \in 0 .. position[w][p] - 1
        <4>1. CASE o < c
          BY <1>1, <1>3, <2>1, <2>3, <3>1, <4>1 DEF AccountedBelow
        <4>2. CASE ~ (o < c)
          BY <1>1, <1>3, <2>3, <4>2
        <4> QED
          BY <4>1, <4>2
      <3> QED
        BY <1>2, <3>1, <3>2 DEF AccountedBelow
    <2> QED
      BY <2>2, <2>3
  <1>6. p \in todo[w] \/ p = q => committed[p] <= start[w][p]
    BY DEF SkipInv, Working
  <1> QED
    BY <1>4, <1>5, <1>6

\* Dropping a fetch passes over all of it, which starts where it is said to fail.
LEMMA FetchFailsSkips ==
    ASSUME IInv, NEW w \in Workers, SkipInv(w), FetchFails(w) PROVE SkipInv(w)'
  <1>1. /\ GroupTyped /\ MemberTyped /\ phase[w] = "batch"
        /\ UNCHANGED <<groupVars, start, part, cursor, phase, handled>>
    BY InHand DEF FetchFails
  <1>2. PICK q \in todo[w] :
          /\ todo' = [todo EXCEPT ![w] = @ \ {q}]
          /\ failed' = [failed EXCEPT ![q] = @ \cup {start[w][q]}]
    BY DEF FetchFails
  <1>3. q \in Partitions /\ start[w][q] \in Nat /\ position[w][q] \in Nat
    BY <1>1, <1>2 DEF GroupTyped, MemberTyped
  <1>4. /\ todo'[w] = todo[w] \ {q} /\ start[w][q] \in failed'[q]
        /\ \A p \in Partitions : failed[p] \subseteq failed'[p]
    BY <1>1, <1>2, <1>3 DEF GroupTyped, MemberTyped
  <1> SUFFICES ASSUME NEW p \in Partitions
               PROVE  /\ AccountedBelow(p, committed[p])'
                      /\ owner[p] = w => AccountedBelow(p, Reached(w, p))'
                      /\ p \in todo[w] => committed[p] <= start[w][p]
    BY <1>1, <1>4 DEF SkipInv, Working, groupVars
  <1>5. AccountedBelow(p, committed[p])'
    <2>1. AccountedBelow(p, committed[p])
      BY DEF SkipInv
    <2> QED
      BY <2>1, <1>1, <1>4 DEF AccountedBelow, groupVars
  <1>6. ASSUME owner[p] = w PROVE AccountedBelow(p, Reached(w, p))'
    <2>1. AccountedBelow(p, Reached(w, p))
      BY <1>6 DEF SkipInv
    <2>2. CASE p # q
      <3>1. Reached(w, p)' = Reached(w, p)
        BY <1>1, <1>4, <2>2 DEF Reached, groupVars
      <3> QED
        BY <1>1, <1>4, <2>1, <3>1 DEF AccountedBelow
    <2>3. CASE p = q
      <3>1. Reached(w, p) = start[w][q] /\ Reached(w, p)' = position[w][q]
        BY <1>1, <1>2, <1>4, <2>3 DEF Reached, groupVars
      <3>2. \A o \in 0 .. position[w][q] - 1 :
              o \in handled[p] \/ \E f \in failed'[p] : f <= o
        <4> TAKE o \in 0 .. position[w][q] - 1
        <4>1. CASE o < start[w][q]
          BY <1>3, <1>4, <2>1, <3>1, <4>1 DEF AccountedBelow
        <4>2. CASE ~ (o < start[w][q])
          BY <1>3, <1>4, <2>3, <4>2
        <4> QED
          BY <4>1, <4>2
      <3> QED
        BY <1>1, <3>1, <3>2 DEF AccountedBelow
    <2> QED
      BY <2>2, <2>3
  <1>7. p \in todo[w] => committed[p] <= start[w][p]
    BY DEF SkipInv
  <1> QED
    BY <1>5, <1>6, <1>7

\* A record that is handled after all accounts for itself, and every offset below
\* it is accounted for without it.
LEMMA SucceedSkips ==
    ASSUME IInv, NEW w \in Workers, SkipInv(w), Succeed(w), phase[w] = "handling",
           UNCHANGED <<groupVars, start, todo, part>>
    PROVE  SkipInv(w)'
  <1> DEFINE q == part[w]
             c == cursor[w]
  <1>1. /\ GroupTyped /\ MemberTyped /\ BatchInv(w) /\ q \in Partitions /\ c \in Nat
        /\ q \notin todo[w] /\ start[w][q] \in Nat /\ start[w][q] <= c
    BY InHand DEF BatchInv, Working
  <1>2. /\ cursor' = [cursor EXCEPT ![w] = c + 1]
        /\ handled' = [handled EXCEPT ![q] = @ \cup {c}]
        /\ failed' = [failed EXCEPT ![q] = @ \ {c}]
        /\ phase' = [phase EXCEPT ![w] = "handle"]
    BY DEF Succeed, Goto
  <1>3. /\ phase'[w] = "handle" /\ cursor'[w] = c + 1
        /\ handled'[q] = handled[q] \cup {c} /\ failed'[q] = failed[q] \ {c}
        /\ \A p \in Partitions \ {q} : handled'[p] = handled[p] /\ failed'[p] = failed[p]
    BY <1>1, <1>2 DEF GroupTyped, MemberTyped
  <1> SUFFICES ASSUME NEW p \in Partitions
               PROVE  /\ AccountedBelow(p, committed[p])'
                      /\ owner[p] = w => AccountedBelow(p, Reached(w, p))'
                      /\ p \in todo[w] \/ p = q => committed[p] <= start[w][p]
    BY <1>3 DEF SkipInv, Working, groupVars
  <1>4. committed[p] \in Nat /\ (p \in todo[w] \/ p = q => committed[p] <= start[w][p])
    BY <1>1 DEF SkipInv, Working, GroupTyped
  <1>5. AccountedBelow(p, committed[p])'
    <2>1. AccountedBelow(p, committed[p])
      BY DEF SkipInv
    <2>2. CASE p # q
      BY <1>3, <2>1, <2>2 DEF AccountedBelow, groupVars
    <2>3. CASE p = q
      <3>1. committed[p] <= c
        BY <1>1, <1>4, <2>3
      <3>2. \A o \in 0 .. committed[p] - 1 :
              o \in handled'[p] \/ \E f \in failed'[p] : f <= o
        <4> TAKE o \in 0 .. committed[p] - 1
        <4>1. o < c
          BY <1>1, <1>4, <3>1
        <4> QED
          BY <1>1, <1>3, <2>1, <2>3, <4>1 DEF AccountedBelow
      <3> QED
        BY <3>2 DEF AccountedBelow, groupVars
    <2> QED
      BY <2>2, <2>3
  <1>6. ASSUME owner[p] = w PROVE AccountedBelow(p, Reached(w, p))'
    <2>1. AccountedBelow(p, Reached(w, p))
      BY <1>6 DEF SkipInv
    <2>2. CASE p # q
      <3>1. Reached(w, p)' = Reached(w, p)
        BY <1>1, <1>3, <2>2 DEF Reached, groupVars
      <3> QED
        BY <1>3, <2>1, <2>2, <3>1 DEF AccountedBelow
    <2>3. CASE p = q
      <3>1. Reached(w, p) = c /\ Reached(w, p)' = c + 1
        BY <1>1, <1>3, <2>3 DEF Reached, groupVars
      <3>2. \A o \in 0 .. c : o \in handled'[p] \/ \E f \in failed'[p] : f <= o
        <4> TAKE o \in 0 .. c
        <4>1. CASE o = c
          BY <1>3, <2>3, <4>1
        <4>2. CASE o < c
          BY <1>1, <1>3, <2>1, <2>3, <3>1, <4>2 DEF AccountedBelow
        <4> QED
          BY <1>1, <4>1, <4>2
      <3> QED
        BY <1>1, <3>1, <3>2 DEF AccountedBelow
    <2> QED
      BY <2>2, <2>3
  <1> QED
    BY <1>4, <1>5, <1>6

\* Either verdict, and a malformed record.
LEMMA RecordSkips ==
    ASSUME IInv, NEW w \in Workers, SkipInv(w), RecordHandled(w) \/ RejectMalformed(w)
    PROVE  SkipInv(w)'
  <1>1. CASE RejectMalformed(w)
    BY <1>1, BreakOffSkips DEF RejectMalformed
  <1>2. CASE RecordHandled(w) /\ verdict[w]
    BY <1>2, SucceedSkips DEF RecordHandled
  <1>3. CASE RecordHandled(w) /\ ~ verdict[w]
    BY <1>3, BreakOffSkips DEF RecordHandled
  <1> QED
    BY <1>1, <1>2, <1>3

\* A commit goes up to the cursor, which is at most where the member goes on.
LEMMA CommitSkips ==
    ASSUME IInv, NEW w \in Workers, SkipInv(w), CommitRecords(w) PROVE SkipInv(w)'
  <1>1. /\ MemberTyped /\ BatchInv(w) /\ part[w] \in Partitions /\ cursor[w] \in Nat
        /\ phase[w] = "commit" /\ part[w] \notin todo[w]
        /\ \A p \in Partitions : position[w][p] \in Nat
    BY InHand DEF BatchInv, Working, CommitRecords
  <1>2. /\ phase'[w] = "batch" /\ ~ Working(w)'
        /\ UNCHANGED <<start, todo, owner, position, historyVars>>
    BY NextPartitionFrame DEF CommitRecords
  <1> SUFFICES ASSUME NEW p \in Partitions
               PROVE  /\ AccountedBelow(p, committed[p])'
                      /\ owner[p] = w => AccountedBelow(p, Reached(w, p))'
                      /\ p \in todo[w] => committed'[p] <= start[w][p]
    BY <1>2 DEF SkipInv
  <1>3. Reached(w, p)' = Reached(w, p)
    BY <1>1, <1>2 DEF Reached
  <1>4. owner[p] = w => AccountedBelow(p, Reached(w, p))'
    BY <1>2, <1>3 DEF SkipInv, AccountedBelow, historyVars
  <1>5. CASE committed'[p] = committed[p]
    <2>1. AccountedBelow(p, committed[p])'
      BY <1>2, <1>5 DEF SkipInv, AccountedBelow, historyVars
    <2> QED
      BY <1>4, <1>5, <2>1 DEF SkipInv
  <1>6. CASE committed'[p] # committed[p]
    <2>1. p = part[w] /\ owner[p] = w /\ committed'[p] = cursor[w]
          /\ cursor[w] <= position[w][p]
      BY <1>6, CommitMoves
    <2>2. AccountedBelow(p, position[w][p])
      BY <1>1, <2>1 DEF SkipInv, Reached
    <2>3. \A o \in 0 .. cursor[w] - 1 : o \in 0 .. position[w][p] - 1
      BY <1>1, <2>1
    <2>4. AccountedBelow(p, committed[p])'
      BY <1>2, <2>1, <2>2, <2>3 DEF AccountedBelow, historyVars
    <2> QED
      BY <1>1, <1>4, <2>1, <2>4
  <1> QED
    BY <1>5, <1>6

\* A member that dies owns nothing and reads its offsets again.
LEMMA DieSkips ==
    ASSUME IInv, NEW w \in Workers, SkipInv(w), Die(w) PROVE SkipInv(w)'
  <1>1. MemberTyped /\ UNCHANGED <<committed, historyVars>>
    BY InHand DEF Die
  <1>2. todo'[w] = {} /\ phase'[w] = "down" /\ ~ Working(w)'
    BY <1>1 DEF Die, Goto, MemberTyped, Working
  <1>3. \A p \in Partitions : owner'[p] # w
    BY WorkerAssumption DEF Die
  <1>4. \A p \in Partitions : AccountedBelow(p, committed[p])'
    BY <1>1 DEF SkipInv, AccountedBelow, historyVars
  <1> QED
    BY <1>2, <1>3, <1>4 DEF SkipInv

\* A partition that is taken away during a batch leaves it where it is.
LEMMA RevokeSkips ==
    ASSUME IInv, NEW w \in Workers, SkipInv(w), NEW q \in Partitions, Revoke(q)
    PROVE  SkipInv(w)'
  <1>1. /\ GroupTyped /\ owner' = [owner EXCEPT ![q] = Nobody]
        /\ UNCHANGED <<committed, position, batchVars, phase, historyVars>>
    BY InHand DEF Revoke
  <1>2. \A p \in Partitions : owner'[p] = w => owner[p] = w
    BY <1>1, WorkerAssumption DEF GroupTyped
  <1>3. \A p \in Partitions : Reached(w, p)' = Reached(w, p)
    BY <1>1 DEF Reached, batchVars
  <1>4. ASSUME NEW p \in Partitions
        PROVE  /\ AccountedBelow(p, committed[p])'
               /\ owner[p] = w => AccountedBelow(p, Reached(w, p))'
    BY <1>1, <1>3 DEF SkipInv, AccountedBelow, historyVars
  <1> QED
    BY <1>1, <1>2, <1>4 DEF SkipInv, Working, batchVars

\* A partition that is assigned is read from its committed offset.
LEMMA AssignSkips ==
    ASSUME IInv, NEW w \in Workers, SkipInv(w), NEW q \in Partitions, Assign(q, w)
    PROVE  SkipInv(w)'
  <1>1. /\ GroupTyped /\ owner' = [owner EXCEPT ![q] = w]
        /\ phase[w] = "poll" /\ todo[w] = {} /\ ~ Working(w)
        /\ position' = [position EXCEPT ![w][q] = committed[q]]
        /\ UNCHANGED <<committed, batchVars, phase, historyVars>>
    BY InHand DEF Assign, BatchInv, Working
  <1>2. /\ position'[w][q] = committed[q]
        /\ \A p \in Partitions \ {q} :
              position'[w][p] = position[w][p] /\ owner'[p] = owner[p]
    BY <1>1 DEF GroupTyped
  <1>3. todo'[w] = {} /\ phase'[w] = "poll" /\ ~ Working(w)'
    BY <1>1 DEF batchVars, Working
  <1> SUFFICES ASSUME NEW p \in Partitions
               PROVE  /\ AccountedBelow(p, committed[p])'
                      /\ owner'[p] = w => AccountedBelow(p, Reached(w, p))'
    BY <1>3 DEF SkipInv
  <1>4. AccountedBelow(p, committed[p])'
    BY <1>1 DEF SkipInv, AccountedBelow, historyVars
  <1>5. ASSUME owner'[p] = w PROVE AccountedBelow(p, Reached(w, p))'
    <2>1. CASE p = q
      <3>1. Reached(w, p)' = committed[p]
        BY <1>2, <1>3, <2>1 DEF Reached
      <3> QED
        BY <1>1, <3>1 DEF SkipInv, AccountedBelow, historyVars
    <2>2. CASE p # q
      <3>1. Reached(w, p)' = Reached(w, p) /\ owner[p] = w
        BY <1>1, <1>2, <1>3, <1>5, <2>2 DEF Reached
      <3> QED
        BY <1>1, <3>1 DEF SkipInv, AccountedBelow, historyVars
    <2> QED
      BY <2>1, <2>2
  <1> QED
    BY <1>4, <1>5

\* So it is in every state of a lone worker.
LEMMA LoneSkips ==
    ASSUME Alone PROVE Spec => [](\A w \in Workers : SkipInv(w))
  <1> DEFINE Inv == \A w \in Workers : SkipInv(w)
  <1>1. Init => Inv
    <2> SUFFICES ASSUME Init, NEW w \in Workers, NEW p \in Partitions
                 PROVE  /\ AccountedBelow(p, 0) /\ committed[p] = 0
                        /\ owner[p] # w /\ todo[w] = {} /\ ~ Working(w)
      BY DEF SkipInv
    <2> QED
      BY WorkerAssumption DEF Init, Zero, AccountedBelow, Working
  <1>2. IInv /\ Inv /\ [Next]_vars => Inv'
    <2> SUFFICES ASSUME IInv, Inv, [Next]_vars PROVE Inv'
      OBVIOUS
    <2>1. PICK w \in Workers : Workers = {w}
      BY DEF Alone
    <2> SUFFICES SkipInv(w)'
      BY <2>1
    <2>2. SkipInv(w)
      OBVIOUS
    <2>3. CASE LoopStep(w)
      BY <2>2, <2>3, FetchSkips, MovesOn, RecordSkips, CommitSkips DEF LoopStep
    <2>4. CASE \/ StoreStep(w) \/ FetchFails(w) \/ CommitFails(w)
               \/ Die(w) \/ Restart(w)
      BY <2>2, <2>4, MovesOn, FetchFailsSkips, DieSkips
    <2>5. CASE \E p \in Partitions : Revoke(p) \/ \E v \in Workers : Assign(p, v)
      BY <2>1, <2>2, <2>5, RevokeSkips, AssignSkips
    <2>6. CASE UNCHANGED vars
      <3>1. UNCHANGED <<groupVars, batchVars, phase, historyVars>>
        BY <2>6 DEF vars
      <3> QED
        BY <2>2, <3>1, PassesNothing
           DEF groupVars, batchVars, Reached, Working
    <2> QED
      BY <2>1, <2>3, <2>4, <2>5, <2>6 DEF Next
  <1> QED
    BY <1>1, <1>2, Inductive, PTL DEF Spec

\* Every offset that a commit has passed over, without its record being handled,
\* lies at or after one of its partition at which a fetch was given up, and which was
\* not handled since: a record that failed, or the first of a dropped fetch.
SkipsFollowFailures == \A p \in Partitions : AccountedBelow(p, committed[p])

\* With failing statements, retryable answers, malformed records, deaths and lost
\* partitions, a lone worker commits past a record only by the break of
\* recordsSafeToCommit or the early return for a fetch that came with an error.
THEOREM LoneSkipsFollowFailures ==
    ASSUME Alone PROVE Spec => []SkipsFollowFailures
  <1>1. (\E w \in Workers : TRUE) /\ (\A w \in Workers : SkipInv(w))
          => SkipsFollowFailures
    BY DEF SkipInv, SkipsFollowFailures
  <1>2. \E w \in Workers : TRUE
    BY DEF Alone
  <1> QED
    BY <1>1, <1>2, LoneSkips, PTL

\* Nothing comes after a malformed record in its partition.
MalformedLast ==
    \A p \in Partitions : \A o \in 0 .. Len(Log[p]) - 1 :
        Log[p][o + 1] = Malformed => o = Len(Log[p]) - 1

\* Then nothing but malformed records fails.
OnlyMalformedFails ==
    /\ topic = Log
    /\ \A w \in Workers : Rows!Succeeds(w)
    /\ \A p \in Partitions : \A f \in failed[p] :
          f \in 0 .. Len(topic[p]) - 1 /\ RecordAt(p, f) = Malformed

\* handleRecord goes on to return true.
LEMMA RowSucceeds ==
    ASSUME IInv, Rows!NothingFails, NEW w \in Workers, Rows!RowIsMine(w),
           Rows!Succeeds(w), RowStep(w) \/ UNCHANGED rowVars
    PROVE  Rows!Succeeds(w)'
  <1>1. Rows!IInv /\ Rows!FrameTyped /\ faults \in Nat
    <2>1. Rows!IInv
      BY SameIInv DEF IInv
    <2> QED
      BY <2>1 DEF Rows!IInv, Rows!TypeOK, Rows!FrameTyped, Rows!PCs
  <1>2. CASE Completion!HandleStep(w)
    BY <1>1, <1>2, SameHandleStep, RowsAssumption, Rows!StatementsSucceed
  <1>3. CASE \/ \E e \in Events : Completion!Start(w, e)
             \/ Completion!StatementFails(w) \/ Completion!TakeVerdict(w)
             \/ Completion!Die(w)
    BY <1>1, <1>3, SameSteps, RowsAssumption, Rows!OtherStepsSucceed
  <1>4. CASE UNCHANGED rowVars
    BY <1>4 DEF rowVars, Rows!Succeeds
  <1> QED
    BY <1>2, <1>3, <1>4 DEF RowStep

\* So a batch breaks off only at a malformed record.
LEMMA FailuresAreMalformed ==
    ASSUME IInv, Rows!NothingFails, OnlyMalformedFails, NEW w \in Workers,
           Workers = {w}, Next,
           NEW p \in Partitions, NEW f \in failed'[p]
    PROVE  f \in 0 .. Len(topic[p]) - 1 /\ RecordAt(p, f) = Malformed
  <1>1. CASE f \in failed[p]
    BY <1>1 DEF OnlyMalformedFails
  <1>2. CASE RejectMalformed(w)
    <2>1. /\ failed' = [failed EXCEPT ![part[w]] = @ \cup {cursor[w]}]
          /\ RecordAt(part[w], cursor[w]) = Malformed
          /\ cursor[w] < position[w][part[w]]
          /\ GroupTyped
      BY <1>2, InHand DEF RejectMalformed, BreakOff
    <2>2. f \in failed[p] \/ (p = part[w] /\ f = cursor[w])
      BY <2>1 DEF GroupTyped
    <2> QED
      BY <1>1, <2>1, <2>2, InHand
  <1>3. CASE RecordHandled(w)
    <2>1. verdict[w]
      BY <1>3 DEF RecordHandled, Completion!TakeVerdict, OnlyMalformedFails,
                  Rows!Succeeds
    <2>2. failed' = [failed EXCEPT ![part[w]] = @ \ {cursor[w]}] /\ GroupTyped
      BY <1>3, <2>1, InHand DEF RecordHandled, Succeed
    <2> QED
      BY <1>1, <2>2 DEF GroupTyped
  <1>4. ~ FetchFails(w)
    BY InHand
       DEF FetchFails, Completion!Fault, Rows!NothingFails, Completion!IInv,
           Completion!TypeOK
  <1>5. RejectMalformed(w) \/ RecordHandled(w) \/ UNCHANGED failed
    BY <1>4
       DEF Next, LoopStep, StoreStep, PollFetches, EachPartition, AllowRebalance,
           HandleRecord, BatchHandled, CommitRecords, CommitFails, Die, Restart,
           Revoke, Assign, historyVars
  <1> QED
    BY <1>1, <1>2, <1>3, <1>5

\* It stays so: the worker is alone, and nothing else writes to its rows.
LEMMA LoneFailuresAreMalformed ==
    ASSUME Alone, Rows!NothingFails PROVE Spec => []OnlyMalformedFails
  <1>1. Init => OnlyMalformedFails
    BY WorkerAssumption
       DEF Init, Completion!Init, OnlyMalformedFails, Rows!Succeeds
  <1>2. IInv /\ RowsAreMine /\ OnlyMalformedFails /\ [Next]_vars => OnlyMalformedFails'
    <2> SUFFICES ASSUME IInv, RowsAreMine, OnlyMalformedFails, [Next]_vars
                 PROVE  OnlyMalformedFails'
      OBVIOUS
    <2>1. PICK w \in Workers : Workers = {w}
      BY DEF Alone
    <2>2. CASE UNCHANGED vars
      BY <2>2 DEF vars, completionVars, historyVars, OnlyMalformedFails,
                  Rows!Succeeds, RecordAt
    <2>3. CASE Next
      <3>1. Rows!Succeeds(w)'
        BY <2>1, <2>3, LoneStep, RowSucceeds DEF RowsAreMine, OnlyMalformedFails
      <3>2. topic' = topic
        BY <2>3 DEF Next, LoopStep, StoreStep, PollFetches, EachPartition,
                    AllowRebalance, HandleRecord, RejectMalformed, RecordHandled,
                    BatchHandled, CommitRecords, FetchFails, CommitFails, Die, Restart,
                    Revoke, Assign
      <3>3. \A p \in Partitions : \A f \in failed'[p] :
              f \in 0 .. Len(topic[p]) - 1 /\ RecordAt(p, f) = Malformed
        BY <2>1, <2>3, FailuresAreMalformed
      <3> QED
        BY <2>1, <3>1, <3>2, <3>3 DEF OnlyMalformedFails, RecordAt
    <2> QED
      BY <2>2, <2>3
  <1> QED
    BY <1>1, <1>2, LoneRowsAreMine, Inductive, PTL DEF Spec

\* When no fetch, statement or job fails, and nothing follows a malformed record,
\* no death, rebalance or eviction makes a lone worker commit past a record.
THEOREM LoneCommitsAreHandled ==
    ASSUME Alone, Rows!NothingFails, MalformedLast PROVE Spec => []EveryCommittedHandled
  <1>1. IInv /\ SkipsFollowFailures /\ OnlyMalformedFails => EveryCommittedHandled
    <2> SUFFICES ASSUME IInv, SkipsFollowFailures, OnlyMalformedFails,
                        NEW p \in Partitions, NEW o \in 0 .. committed[p] - 1,
                        o \notin handled[p]
                 PROVE  FALSE
      BY DEF EveryCommittedHandled
    <2>1. PICK f \in failed[p] : f <= o
      BY DEF SkipsFollowFailures, AccountedBelow
    <2>2. f \in 0 .. Len(Log[p]) - 1 /\ f = Len(Log[p]) - 1
      BY DEF OnlyMalformedFails, MalformedLast, RecordAt
    <2>3. /\ committed[p] \in Nat /\ committed[p] <= Len(Log[p]) /\ Len(Log[p]) \in Nat
          /\ committed[p] > 0 => committed[p] - 1 \in handled[p]
      BY TypeParts DEF IInv, GroupTyped, Bounded, CommitInv, Done, OnlyMalformedFails
    <2>4. o = committed[p] - 1
      BY <2>1, <2>2, <2>3
    <2> QED
      BY <2>3, <2>4
  <1> QED
    BY <1>1, Inductive, LoneSkipsFollowFailures, LoneFailuresAreMalformed, PTL
================================================================================
