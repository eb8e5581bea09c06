------------------------- MODULE OutboxPublisher_proofs -------------------------
(***************************************************************************)
(* Proofs about OutboxPublisher, for any rows, any number of overlapping    *)
(* publishers and any faults: a published row's record is on the topic, and *)
(* nothing on the topic comes from a transaction that could roll back.      *)
(***************************************************************************)
EXTENDS OutboxPublisher, TLAPS

\* There is an event for an empty row variable to hold.
LEMMA NoRowIsEvent == NoRow \in Events
  BY PublisherAssumption DEF NoRow

\* The broker's append adds one record and keeps the others.
LEMMA AppendTopic ==
    ASSUME topic \in Seq(Events), NEW e \in Events, topic' = Append(topic, e)
    PROVE  /\ topic' \in Seq(Events)
           /\ \A f \in Events : InTopic(f)' <=> InTopic(f) \/ f = e
  <1>1. /\ topic' \in Seq(Events)
        /\ Len(topic') = Len(topic) + 1
        /\ \A i \in 1 .. Len(topic) : topic'[i] = topic[i]
        /\ topic'[Len(topic) + 1] = e
    OBVIOUS
  <1>2. DOMAIN topic = 1 .. Len(topic) /\ DOMAIN topic' = 1 .. (Len(topic) + 1)
    BY <1>1
  <1>3. ASSUME NEW f \in Events PROVE InTopic(f)' <=> InTopic(f) \/ f = e
    BY <1>1, <1>2 DEF InTopic
  <1> QED
    BY <1>1, <1>3

\* The empty outbox and topic satisfy the inductive invariant.
LEMMA InitIInv == Init => IInv
  BY NoRowIsEvent
     DEF Init, IInv, TypeOK, Messages, PublishedIsInTopic, TopicIsCommitted,
         WorkIsCommitted, InTopic

\* A publisher that leaves its iteration has no row under way.
LEMMA ContinueFrame ==
    ASSUME TypeOK, NEW p \in Publishers, NEW step \in {"poll", "sleep", "stopped"},
           NEW m \in Messages, Continue(p, step, m)
    PROVE  /\ pc' \in [Publishers -> {"poll", "produce", "mark", "sleep", "stopped"}]
           /\ row' \in [Publishers -> Events]
           /\ log' \in [Publishers -> Messages]
           /\ pc'[p] = step
           /\ \A q \in Publishers \ {p} : pc'[q] = pc[q] /\ row'[q] = row[q]
  BY NoRowIsEvent DEF TypeOK, Continue

\* Rows only move from absent to pending to published, and a row is published
\* only by a publisher that has its record on the topic.
RowsAdvance ==
    \A e \in Events :
        \/ outbox'[e] = outbox[e]
        \/ outbox[e] = "absent" /\ outbox'[e] = "pending"
        \/ outbox[e] # "absent" /\ outbox'[e] = "published" /\ InTopic(e)

\* What the steps have in common, as far as the invariant can see it.
LEMMA AdvanceStep ==
    ASSUME IInv, TypeOK', RowsAdvance,
           \A e \in Events : InTopic(e) => InTopic(e)',
           \A e \in Events : InTopic(e)' \/ late'[e] > 0 =>
               InTopic(e) \/ late[e] > 0 \/ outbox[e] # "absent",
           \A p \in Publishers :
               \/ pc'[p] \notin {"produce", "mark"}
               \/ pc'[p] = pc[p] /\ row'[p] = row[p]
               \/ pc'[p] = "produce" /\ outbox[row'[p]] # "absent"
               \/ pc'[p] = "mark" /\ outbox[row'[p]] # "absent" /\ InTopic(row[p])'
    PROVE  IInv'
  <1>1. \A e \in Events : outbox[e] # "absent" => outbox'[e] # "absent"
    BY DEF RowsAdvance
  <1>2. PublishedIsInTopic'
    <2> SUFFICES ASSUME NEW e \in Events, outbox'[e] = "published" PROVE InTopic(e)'
      BY DEF PublishedIsInTopic
    <2> QED
      BY DEF RowsAdvance, IInv, PublishedIsInTopic
  <1>3. TopicIsCommitted'
    <2> SUFFICES ASSUME NEW e \in Events, InTopic(e)' \/ late'[e] > 0
                 PROVE  outbox'[e] # "absent"
      BY DEF TopicIsCommitted
    <2> QED
      BY <1>1 DEF IInv, TopicIsCommitted
  <1>4. WorkIsCommitted'
    <2> SUFFICES ASSUME NEW p \in Publishers, pc'[p] \in {"produce", "mark"}
                 PROVE  /\ outbox'[row'[p]] # "absent"
                        /\ pc'[p] = "mark" => InTopic(row[p])'
      BY DEF WorkIsCommitted, InTopic
    <2>1. row'[p] \in Events
      BY DEF TypeOK
    <2> QED
      BY <1>1, <2>1 DEF IInv, WorkIsCommitted, InTopic
  <1> QED
    BY <1>2, <1>3, <1>4 DEF IInv

\* A step that leaves the rows and the topic alone and puts no row under way.
LEMMA QuietStep ==
    ASSUME IInv, TypeOK', UNCHANGED outbox, UNCHANGED topic, UNCHANGED late,
           \A p \in Publishers :
               \/ pc'[p] \notin {"produce", "mark"}
               \/ pc'[p] = pc[p] /\ row'[p] = row[p]
    PROVE  IInv'
  <1>1. RowsAdvance
    BY DEF RowsAdvance
  <1>2. \A e \in Events : InTopic(e)' <=> InTopic(e)
    BY DEF InTopic
  <1> QED
    BY <1>1, <1>2, AdvanceStep

\* The statements of AcceptEvent.
LEMMA RowStepIInv == ASSUME IInv, NEW e \in Events, RowStep(e) PROVE IInv'
  <1>1. CASE Insert(e)
    <2>1. TypeOK'
      BY <1>1 DEF IInv, TypeOK, Insert, kafka
    <2> QED
      BY <1>1, <2>1, QuietStep DEF Insert, kafka
  <1>2. CASE CommitInsert(e)
    <2>1. TypeOK'
      BY <1>2 DEF IInv, TypeOK, CommitInsert, kafka
    <2>2. RowsAdvance
      BY <1>2 DEF IInv, TypeOK, CommitInsert, RowsAdvance
    <2>3. \A f \in Events : InTopic(f)' <=> InTopic(f)
      BY <1>2 DEF CommitInsert, kafka, InTopic
    <2> QED
      BY <1>2, <2>1, <2>2, <2>3, AdvanceStep DEF CommitInsert, kafka
  <1>3. CASE RollbackInsert(e)
    <2>1. TypeOK'
      BY <1>3 DEF IInv, TypeOK, RollbackInsert, Fault, kafka
    <2> QED
      BY <1>3, <2>1, QuietStep DEF RollbackInsert, kafka
  <1> QED
    BY <1>1, <1>2, <1>3 DEF RowStep

\* The broker gets a request that nobody waits for.
LEMMA LateAppendIInv == ASSUME IInv, NEW e \in Events, LateAppend(e) PROVE IInv'
  <1>1. topic \in Seq(Events) /\ late \in [Events -> Nat]
    BY DEF IInv, TypeOK
  <1>2. /\ topic' \in Seq(Events)
        /\ \A f \in Events : InTopic(f)' <=> InTopic(f) \/ f = e
    BY <1>1, AppendTopic DEF LateAppend
  <1>3. /\ late' \in [Events -> Nat]
        /\ \A f \in Events : late'[f] > 0 => late[f] > 0
    BY <1>1 DEF LateAppend
  <1>4. TypeOK'
    BY <1>2, <1>3 DEF IInv, TypeOK, LateAppend, rows
  <1>5. RowsAdvance
    BY DEF LateAppend, rows, RowsAdvance
  <1>6. \A f \in Events : InTopic(f)' \/ late'[f] > 0 => InTopic(f) \/ late[f] > 0
    BY <1>2, <1>3 DEF LateAppend
  <1> QED
    BY <1>2, <1>4, <1>5, <1>6, AdvanceStep DEF LateAppend

\* The steps of an iteration of the loop.
LEMMA LoopStepIInv == ASSUME IInv, NEW p \in Publishers, LoopStep(p) PROVE IInv'
  <1>1. CASE NextPendingOutbox(p)
    <2>1. PICK e \in Pending : row' = [row EXCEPT ![p] = e]
      BY <1>1 DEF NextPendingOutbox
    <2>2. e \in Events /\ outbox[e] = "pending"
      BY DEF Pending
    <2>3. TypeOK'
      BY <1>1, <2>1, <2>2 DEF IInv, TypeOK, NextPendingOutbox, rows, kafka
    <2>4. RowsAdvance
      BY <1>1 DEF NextPendingOutbox, rows, RowsAdvance
    <2>5. \A f \in Events : InTopic(f)' <=> InTopic(f)
      BY <1>1 DEF NextPendingOutbox, kafka, InTopic
    <2>6. \A q \in Publishers :
             \/ pc'[q] = pc[q] /\ row'[q] = row[q]
             \/ pc'[q] = "produce" /\ outbox[row'[q]] # "absent"
      BY <1>1, <2>1, <2>2 DEF IInv, TypeOK, NextPendingOutbox
    <2> QED
      BY <1>1, <2>3, <2>4, <2>5, <2>6, AdvanceStep DEF NextPendingOutbox, kafka
  <1>2. CASE NothingPending(p)
    <2>1. log[p] \in Messages /\ TypeOK
      BY DEF IInv, TypeOK
    <2>2. Continue(p, "sleep", log[p])
      BY <1>2 DEF NothingPending
    <2>3. TypeOK'
      BY <1>2, <2>1, <2>2, ContinueFrame DEF TypeOK, NothingPending, rows, kafka
    <2> QED
      BY <1>2, <2>1, <2>2, <2>3, ContinueFrame, QuietStep
         DEF NothingPending, rows, kafka
  <1>3. CASE Produce(p)
    <2>1. TypeOK /\ row[p] \in Events /\ outbox[row[p]] # "absent"
      BY <1>3 DEF IInv, TypeOK, WorkIsCommitted, Produce
    <2>2. /\ topic' \in Seq(Events)
          /\ \A f \in Events : InTopic(f)' <=> InTopic(f) \/ f = row[p]
      BY <1>3, <2>1, AppendTopic DEF Produce, TypeOK
    <2>3. TypeOK'
      BY <1>3, <2>1, <2>2 DEF TypeOK, Produce, rows
    <2>4. RowsAdvance
      BY <1>3 DEF Produce, rows, RowsAdvance
    <2>5. \A q \in Publishers :
             \/ pc'[q] = pc[q] /\ row'[q] = row[q]
             \/ pc'[q] = "mark" /\ outbox[row'[q]] # "absent" /\ InTopic(row[q])'
      BY <1>3, <2>1, <2>2 DEF TypeOK, Produce, InTopic
    <2>6. \A f \in Events : InTopic(f)' \/ late'[f] > 0 =>
             InTopic(f) \/ late[f] > 0 \/ outbox[f] # "absent"
      BY <1>3, <2>1, <2>2 DEF Produce
    <2> QED
      BY <2>2, <2>3, <2>4, <2>5, <2>6, AdvanceStep
  <1>4. CASE ProduceRefused(p)
    <2>1. TypeOK /\ "outbox_publish_failed" \in Messages
      BY DEF IInv, Messages
    <2>2. Continue(p, "sleep", "outbox_publish_failed")
      BY <1>4 DEF ProduceRefused
    <2>3. TypeOK'
      BY <1>4, <2>1, <2>2, ContinueFrame DEF TypeOK, ProduceRefused, rows, kafka
    <2> QED
      BY <1>4, <2>1, <2>2, <2>3, ContinueFrame, QuietStep
         DEF ProduceRefused, rows, kafka
  <1>5. CASE MarkOutboxPublished(p)
    <2> DEFINE e == row[p]
    <2>1. TypeOK /\ e \in Events /\ outbox[e] # "absent" /\ InTopic(e)
      BY <1>5 DEF IInv, TypeOK, WorkIsCommitted, MarkOutboxPublished
    <2>2. /\ "outbox_publish_succeeded" \in Messages
          /\ "outbox_mark_published_failed" \in Messages
      BY DEF Messages
    <2>3. \/ Continue(p, "poll", "outbox_publish_succeeded")
          \/ Continue(p, "sleep", "outbox_mark_published_failed")
      BY <1>5 DEF MarkOutboxPublished
    <2>4. outbox' = outbox \/ outbox' = [outbox EXCEPT ![e] = "published"]
      BY <1>5 DEF MarkOutboxPublished
    <2>5. RowsAdvance
      BY <2>1, <2>4 DEF TypeOK, RowsAdvance
    <2>6. TypeOK'
      <3>1. outbox' \in [Events -> {"absent", "pending", "published"}]
        BY <2>1, <2>4 DEF TypeOK
      <3>2. /\ pc' \in [Publishers -> {"poll", "produce", "mark", "sleep", "stopped"}]
            /\ row' \in [Publishers -> Events]
            /\ log' \in [Publishers -> Messages]
        BY <2>1, <2>2, <2>3, ContinueFrame
      <3> QED
        BY <1>5, <2>1, <3>1, <3>2 DEF TypeOK, MarkOutboxPublished, kafka
    <2>7. \A f \in Events : InTopic(f)' <=> InTopic(f)
      BY <1>5 DEF MarkOutboxPublished, kafka, InTopic
    <2>8. \A q \in Publishers :
             \/ pc'[q] \notin {"produce", "mark"}
             \/ pc'[q] = pc[q] /\ row'[q] = row[q]
      BY <2>1, <2>2, <2>3, ContinueFrame
    <2> QED
      BY <1>5, <2>5, <2>6, <2>7, <2>8, AdvanceStep DEF MarkOutboxPublished, kafka
  <1>6. CASE Wake(p)
    <2>1. TypeOK'
      BY <1>6 DEF IInv, TypeOK, Wake, rows, kafka
    <2> QED
      BY <1>6, <2>1, QuietStep DEF IInv, TypeOK, Wake, rows, kafka
  <1> QED
    BY <1>1, <1>2, <1>3, <1>4, <1>5, <1>6 DEF LoopStep

\* Abandoned requests are for rows under way, so they are for committed rows.
LEMMA AbandonLate ==
    ASSUME TypeOK, NEW e \in Events, Abandon(e)
    PROVE  /\ late' \in [Events -> Nat]
           /\ \A f \in Events : late'[f] > 0 => late[f] > 0 \/ f = e
  BY DEF TypeOK, Abandon

\* A publisher's UPDATE that may or may not have happened.
LEMMA UncertainMark ==
    ASSUME IInv, NEW p \in Publishers, pc[p] = "mark",
           outbox' \in {outbox, Marked(row[p])}
    PROVE  /\ outbox' \in [Events -> {"absent", "pending", "published"}]
           /\ RowsAdvance
  <1>1. row[p] \in Events /\ outbox[row[p]] # "absent" /\ InTopic(row[p])
    BY DEF IInv, TypeOK, WorkIsCommitted
  <1> QED
    BY <1>1 DEF IInv, TypeOK, RowsAdvance, Marked

\* Failed calls and stops.
LEMMA LoopFailsIInv == ASSUME IInv, NEW p \in Publishers, LoopFails(p) PROVE IInv'
  <1>1. /\ TypeOK /\ row[p] \in Events
        /\ "outbox_publish_failed" \in Messages /\ "none" \in Messages
    BY DEF IInv, TypeOK, Messages
  <1>2. CASE SelectFails(p)
    <2>1. Continue(p, "sleep", "outbox_publish_failed")
      BY <1>2 DEF SelectFails
    <2>2. TypeOK'
      BY <1>1, <1>2, <2>1, ContinueFrame DEF TypeOK, SelectFails, Fault, rows, kafka
    <2> QED
      BY <1>1, <1>2, <2>1, <2>2, ContinueFrame, QuietStep
         DEF SelectFails, rows, kafka
  <1>3. CASE ProduceFails(p)
    <2>1. Continue(p, "sleep", "outbox_publish_failed") /\ Abandon(row[p])
      BY <1>3 DEF ProduceFails
    <2>2. outbox[row[p]] # "absent"
      BY <1>3 DEF IInv, WorkIsCommitted, ProduceFails
    <2>3. TypeOK'
      <3>1. /\ pc' \in [Publishers -> {"poll", "produce", "mark", "sleep", "stopped"}]
            /\ row' \in [Publishers -> Events] /\ log' \in [Publishers -> Messages]
        BY <1>1, <2>1, ContinueFrame DEF Messages
      <3>2. late' \in [Events -> Nat]
        BY <1>1, <2>1, AbandonLate
      <3>3. faults' \in Nat /\ UNCHANGED <<outbox, rowId, lastId, topic>>
        BY <1>1, <1>3 DEF TypeOK, ProduceFails, Fault, rows
      <3> QED
        BY <1>1, <3>1, <3>2, <3>3 DEF TypeOK
    <2>4. RowsAdvance
      BY <1>3 DEF ProduceFails, rows, RowsAdvance
    <2>5. \A f \in Events : InTopic(f)' <=> InTopic(f)
      BY <1>3 DEF ProduceFails, InTopic
    <2>6. \A f \in Events : InTopic(f)' \/ late'[f] > 0 =>
             InTopic(f) \/ late[f] > 0 \/ outbox[f] # "absent"
      BY <1>1, <2>1, <2>2, <2>5, AbandonLate
    <2>7. \A q \in Publishers :
             \/ pc'[q] \notin {"produce", "mark"}
             \/ pc'[q] = pc[q] /\ row'[q] = row[q]
      BY <1>1, <2>1, ContinueFrame
    <2> QED
      BY <2>3, <2>4, <2>5, <2>6, <2>7, AdvanceStep
  <1>4. CASE MarkFails(p)
    <2>1. Continue(p, "sleep", "outbox_publish_failed")
      BY <1>4 DEF MarkFails
    <2>2. /\ outbox' \in [Events -> {"absent", "pending", "published"}]
          /\ RowsAdvance
      BY <1>4, UncertainMark DEF MarkFails
    <2>3. TypeOK'
      BY <1>1, <1>4, <2>1, <2>2, ContinueFrame DEF TypeOK, MarkFails, Fault, kafka
    <2>4. \A f \in Events : InTopic(f)' <=> InTopic(f)
      BY <1>4 DEF MarkFails, kafka, InTopic
    <2>5. \A q \in Publishers :
             \/ pc'[q] \notin {"produce", "mark"}
             \/ pc'[q] = pc[q] /\ row'[q] = row[q]
      BY <1>1, <2>1, ContinueFrame
    <2> QED
      BY <1>4, <2>2, <2>3, <2>4, <2>5, AdvanceStep DEF MarkFails, kafka
  <1>5. CASE Stop(p)
    <2>1. Continue(p, "stopped", "none")
      BY <1>5 DEF Stop
    <2>2. /\ outbox' \in [Events -> {"absent", "pending", "published"}]
          /\ RowsAdvance
      <3>1. CASE pc[p] = "mark"
        BY <1>5, <3>1, UncertainMark DEF Stop
      <3>2. CASE pc[p] # "mark"
        BY <1>1, <1>5, <3>2 DEF Stop, TypeOK, RowsAdvance
      <3> QED
        BY <3>1, <3>2
    <2>3. /\ late' \in [Events -> Nat]
          /\ \A f \in Events : late'[f] > 0 => late[f] > 0 \/ outbox[f] # "absent"
      <3>1. CASE pc[p] = "produce"
        <4>1. outbox[row[p]] # "absent"
          BY <3>1 DEF IInv, WorkIsCommitted
        <4>2. Abandon(row[p])
          BY <1>5, <3>1 DEF Stop
        <4> QED
          BY <1>1, <4>1, <4>2, AbandonLate
      <3>2. CASE pc[p] # "produce"
        BY <1>1, <1>5, <3>2 DEF Stop, TypeOK
      <3> QED
        BY <3>1, <3>2
    <2>4. TypeOK'
      <3>1. faults' \in Nat /\ UNCHANGED <<rowId, lastId, topic>>
        BY <1>1, <1>5 DEF TypeOK, Stop, Fault
      <3>2. /\ pc' \in [Publishers -> {"poll", "produce", "mark", "sleep", "stopped"}]
            /\ row' \in [Publishers -> Events]
            /\ log' \in [Publishers -> Messages]
        BY <1>1, <2>1, ContinueFrame
      <3> QED
        BY <1>1, <2>2, <2>3, <3>1, <3>2 DEF TypeOK
    <2>5. \A f \in Events : InTopic(f)' <=> InTopic(f)
      BY <1>5 DEF Stop, InTopic
    <2>6. \A q \in Publishers :
             \/ pc'[q] \notin {"produce", "mark"}
             \/ pc'[q] = pc[q] /\ row'[q] = row[q]
      BY <1>1, <2>1, ContinueFrame
    <2> QED
      BY <2>2, <2>3, <2>4, <2>5, <2>6, AdvanceStep
  <1> QED
    BY <1>2, <1>3, <1>4, <1>5 DEF LoopFails

\* Every step of the publishers, the transactions and the broker.
LEMMA NextIInv == IInv /\ [Next]_vars => IInv'
  <1> SUFFICES ASSUME IInv, [Next]_vars PROVE IInv'
    OBVIOUS
  <1>1. CASE \E e \in Events : RowStep(e) \/ LateAppend(e)
    BY <1>1, RowStepIInv, LateAppendIInv
  <1>2. CASE \E p \in Publishers : LoopStep(p) \/ LoopFails(p)
    BY <1>2, LoopStepIInv, LoopFailsIInv
  <1>3. ASSUME NEW p \in Publishers, Restart(p) PROVE IInv'
    <2>1. TypeOK'
      BY <1>3 DEF IInv, TypeOK, Restart, rows, kafka
    <2> QED
      BY <1>3, <2>1, QuietStep DEF IInv, TypeOK, Restart, rows, kafka
  <1>4. CASE UNCHANGED vars
    <2>1. TypeOK'
      BY <1>4 DEF IInv, TypeOK, vars, rows, kafka
    <2> QED
      BY <1>4, <2>1, QuietStep DEF vars, rows, kafka
  <1> QED
    BY <1>1, <1>2, <1>3, <1>4 DEF Next

\* The inductive invariant holds in every behaviour.
LEMMA Inductive == Spec => []IInv
  BY InitIInv, NextIInv, PTL DEF Spec

\* NextPendingOutbox, publishOutbox and MarkOutboxPublished keep the row's status
\* within the CHECK constraint and the loop at one of its calls.
THEOREM TypeCorrect == Spec => []TypeOK
  <1>1. IInv => TypeOK
    BY DEF IInv
  <1> QED
    BY <1>1, Inductive, PTL

\* At-least-once: MarkOutboxPublished never overtakes the broker's
\* acknowledgement, however many publishers run, stop or lose their answers.
THEOREM NothingIsMarkedUnpublished == Spec => []PublishedIsInTopic
  <1>1. IInv => PublishedIsInTopic
    BY DEF IInv
  <1> QED
    BY <1>1, Inductive, PTL

\* The transactional outbox: what publishOutbox sends, also late, belongs to an
\* AcceptEvent transaction that has committed.
THEOREM NothingUncommittedIsSent == Spec => []TopicIsCommitted
  <1>1. IInv => TopicIsCommitted
    BY DEF IInv
  <1> QED
    BY <1>1, Inductive, PTL

\* No step of a stale publisher, and no rollback or insert of a redelivered
\* event, makes a published row pending again.
LEMMA PublishedStep ==
    TypeOK /\ [Next]_vars =>
        \A e \in Events : outbox[e] = "published" => outbox'[e] = "published"
  <1> SUFFICES ASSUME TypeOK, [Next]_vars, NEW e \in Events, outbox[e] = "published"
               PROVE  outbox'[e] = "published"
    OBVIOUS
  <1>1. ASSUME NEW f \in Events, RowStep(f) \/ LateAppend(f)
        PROVE  outbox'[e] = "published"
    BY <1>1
       DEF TypeOK, RowStep, Insert, CommitInsert, RollbackInsert, LateAppend, rows
  <1>2. ASSUME NEW p \in Publishers, LoopStep(p) PROVE outbox'[e] = "published"
    BY <1>2
       DEF TypeOK, LoopStep, NextPendingOutbox, NothingPending, Produce,
           ProduceRefused, MarkOutboxPublished, Wake, rows
  <1>3. ASSUME NEW p \in Publishers, LoopFails(p) PROVE outbox'[e] = "published"
    BY <1>3 DEF TypeOK, LoopFails, SelectFails, ProduceFails, MarkFails, Stop, Marked, rows
  <1>4. ASSUME NEW p \in Publishers, Restart(p) PROVE outbox'[e] = "published"
    BY <1>4 DEF Restart, rows
  <1>5. CASE UNCHANGED vars
    BY <1>5 DEF vars, rows
  <1> QED
    BY <1>1, <1>2, <1>3, <1>4, <1>5 DEF Next

\* MarkOutboxPublished's WHERE clause makes published final.
THEOREM MarksAreFinal == Spec => PublishedStaysPublished
  <1>1. TypeOK /\ [Next]_vars =>
          [\A e \in Events : outbox[e] = "published" => outbox'[e] = "published"]_vars
    BY PublishedStep
  <1> QED
    BY <1>1, TypeCorrect, PTL DEF Spec, PublishedStaysPublished
================================================================================
