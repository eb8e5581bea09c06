---------------------------- MODULE Pipeline_proofs ----------------------------
(***************************************************************************)
(* Proofs about Pipeline: the types of the composition under migrations,     *)
(* which accepted events nothing will ever deliver, that the whole pipeline   *)
(* with one worker implements Delivery, and what any group of workers        *)
(* commits.  The invariants of the parts are not at hand here: a migration    *)
(* that is rolled back drops rows that publishers and workers are at work on. *)
(***************************************************************************)
EXTENDS Pipeline, TLAPS

\* The publishers' part of the inductive invariant: a row is marked, or about to
\* be, only when its record is on the topic, with or without a table for it.
PublisherInv ==
    /\ \A e \in Events : outbox[e] = "published" => Outbox!InTopic(e)
    /\ \A p \in Publishers : pc[p] = "mark" => Outbox!InTopic(row[p])

\* The events that anything outside the tables still knows.
Known(e) ==
    \/ ledger[e] # "absent" \/ outbox[e] # "absent"
    \/ Outbox!InTopic(e) \/ late[e] > 0
    \/ \E p \in Publishers : pc[p] \in {"produce", "mark"} /\ row[p] = e
    \/ \E w \in Workers : wpc[w] # "idle" /\ job[w] = e

\* They have all had a committed ledger row.
KnownInv == \A e \in Events : Known(e) => e \in accepted

\* The tables: no outbox row outlives its table, and an accepted event without one
\* was taken over by migration 2.
TablesInv ==
    /\ ~OutboxExists => \A e \in Events : outbox[e] = "absent"
    /\ \A e \in Events : ledger[e] = "accepted" => outbox[e] # "absent" \/ e \in migrated

\* A worker in the middle of a fetch reads within the topic.
Working(w) == phase[w] \in {"handle", "handling", "commit"}

LoopInv ==
    /\ committed[1] <= Len(topic)
    /\ \A w \in Workers :
        /\ position[w][1] <= Len(topic)
        /\ phase[w] \in {"poll", "down"} => todo[w] = {}
        /\ 1 \in todo[w] => start[w][1] <= position[w][1]
        /\ Working(w) => cursor[w] <= position[w][1]
        /\ phase[w] = "handling" => cursor[w] < position[w][1]

\* What a worker marks as processed it has sent.
SentInv ==
    \A w \in Workers : wpc[w] = "mark_processed" => calls[job[w]] > 0

\* The inductive invariant.
IInv == TypeOK /\ PublisherInv /\ KnownInv /\ TablesInv /\ LoopInv /\ SentInv

\* What a lone worker is about to send is not processed yet.
UnsettledInv ==
    \A w \in Workers : wpc[w] = "deliver" => status[job[w]] # "processed"

--------------------------------------------------------------------------------
(* The publisher and the rows of the outbox *)

\* There is an event for an idle frame to hold.
LEMMA NoRowIsEvent == Outbox!NoRow \in Events /\ Consumer!Completion!NoJob \in Events
  BY PipelineAssumption DEF Outbox!NoRow, Consumer!Completion!NoJob

\* A record more at the end of the topic.
LEMMA AppendTopic ==
    ASSUME topic \in Seq(Events), NEW e \in Events, topic' = Append(topic, e)
    PROVE  /\ topic' \in Seq(Events) /\ Len(topic') = Len(topic) + 1
           /\ \A f \in Events : Outbox!InTopic(f)' <=> Outbox!InTopic(f) \/ f = e
  <1>1. /\ topic' \in Seq(Events) /\ Len(topic') = Len(topic) + 1 /\ Len(topic) \in Nat
        /\ DOMAIN topic = 1 .. Len(topic) /\ DOMAIN topic' = 1 .. Len(topic) + 1
        /\ \A i \in 1 .. Len(topic) : topic'[i] = topic[i]
        /\ topic'[Len(topic) + 1] = e
    OBVIOUS
  <1>2. ASSUME NEW f \in Events
        PROVE  (\E i \in DOMAIN topic' : topic'[i] = f)
                 <=> (\E i \in DOMAIN topic : topic[i] = f) \/ f = e
    <2>1. (\E i \in DOMAIN topic : topic[i] = f) => \E i \in DOMAIN topic' : topic'[i] = f
      BY <1>1
    <2>2. f = e => \E i \in DOMAIN topic' : topic'[i] = f
      BY <1>1
    <2>3. ASSUME NEW i \in DOMAIN topic', topic'[i] = f
          PROVE  (\E j \in DOMAIN topic : topic[j] = f) \/ f = e
      BY <1>1, <2>3
    <2> QED
      BY <2>1, <2>2, <2>3
  <1> QED
    BY <1>1, <1>2 DEF Outbox!InTopic

\* What the publishers' calls may do to the rows, the topic and their own place: a
\* row is marked once its record is there, and only rows at hand are sent.
PublisherMoves(p) ==
    /\ Outbox!TypeOK'
    /\ UNCHANGED <<rowId, lastId>>
    /\ \A e \in Events : outbox'[e] # outbox[e] =>
          outbox[e] = "pending" /\ outbox'[e] = "published" /\ Outbox!InTopic(e)
    /\ \/ UNCHANGED topic
       \/ pc[p] = "produce" /\ topic' = Append(topic, row[p])
    /\ \A e \in Events : late'[e] > 0 => late[e] > 0 \/ (pc[p] = "produce" /\ row[p] = e)
    /\ \A q \in Publishers \ {p} : pc'[q] = pc[q] /\ row'[q] = row[q]
    /\ pc'[p] = "produce" => outbox[row'[p]] = "pending"
    /\ pc'[p] = "mark" =>
          row'[p] = row[p] /\ pc[p] = "produce" /\ topic' = Append(topic, row[p])

\* A publisher that leaves its row.
LEMMA ContinueMoves ==
    ASSUME Outbox!TypeOK, NEW p \in Publishers, NEW step \in {"poll", "sleep", "stopped"},
           NEW m \in Outbox!Messages, Outbox!Continue(p, step, m)
    PROVE  /\ pc' \in [Publishers -> {"poll", "produce", "mark", "sleep", "stopped"}]
           /\ row' \in [Publishers -> Events]
           /\ log' \in [Publishers -> Outbox!Messages]
           /\ pc'[p] = step
           /\ \A q \in Publishers \ {p} : pc'[q] = pc[q] /\ row'[q] = row[q]
  BY NoRowIsEvent DEF Outbox!TypeOK, Outbox!Continue

\* The statements and calls of the loop.
LEMMA LoopMoves ==
    ASSUME Outbox!TypeOK, PublisherInv, NEW p \in Publishers, Outbox!LoopStep(p)
    PROVE  PublisherMoves(p)
  <1>1. CASE Outbox!NextPendingOutbox(p)
    <2>1. PICK e \in Events :
            /\ outbox[e] = "pending" /\ row' = [row EXCEPT ![p] = e]
            /\ pc' = [pc EXCEPT ![p] = "produce"]
            /\ UNCHANGED <<outbox, rowId, lastId, topic, late, log, faults>>
      BY <1>1 DEF Outbox!NextPendingOutbox, Outbox!Pending, Outbox!rows, Outbox!kafka
    <2> QED
      BY <2>1 DEF Outbox!TypeOK, PublisherMoves
  <1>2. CASE Outbox!NothingPending(p)
    <2>1. /\ Outbox!Continue(p, "sleep", log[p])
          /\ UNCHANGED <<outbox, rowId, lastId, topic, late, faults>>
          /\ log[p] \in Outbox!Messages
      BY <1>2 DEF Outbox!NothingPending, Outbox!rows, Outbox!kafka, Outbox!TypeOK
    <2> QED
      BY <2>1, ContinueMoves DEF Outbox!TypeOK, PublisherMoves
  <1>3. CASE Outbox!Produce(p)
    <2>1. /\ pc[p] = "produce" /\ topic' = Append(topic, row[p])
          /\ pc' = [pc EXCEPT ![p] = "mark"]
          /\ UNCHANGED <<outbox, rowId, lastId, late, row, log, faults>>
      BY <1>3 DEF Outbox!Produce, Outbox!rows
    <2>2. topic' \in Seq(Events)
      BY <2>1, AppendTopic DEF Outbox!TypeOK
    <2> QED
      BY <2>1, <2>2 DEF Outbox!TypeOK, PublisherMoves
  <1>4. CASE Outbox!ProduceRefused(p)
    BY <1>4 DEF Outbox!ProduceRefused
  <1>5. CASE Outbox!MarkOutboxPublished(p)
    <2>1. row[p] \in Events /\ Outbox!InTopic(row[p])
      BY <1>5 DEF Outbox!MarkOutboxPublished, PublisherInv, Outbox!TypeOK
    <2>2. /\ UNCHANGED <<rowId, lastId, topic, late, faults>>
          /\ \/ UNCHANGED outbox
             \/ /\ outbox[row[p]] = "pending"
                /\ outbox' = [outbox EXCEPT ![row[p]] = "published"]
      BY <1>5 DEF Outbox!MarkOutboxPublished, Outbox!kafka
    <2>3. PICK step \in {"poll", "sleep"}, m \in Outbox!Messages :
            Outbox!Continue(p, step, m)
      BY <1>5 DEF Outbox!MarkOutboxPublished, Outbox!Messages
    <2>4. /\ outbox' \in [Events -> {"absent", "pending", "published"}]
          /\ \A e \in Events : outbox'[e] # outbox[e] =>
                outbox[e] = "pending" /\ outbox'[e] = "published" /\ Outbox!InTopic(e)
      BY <2>1, <2>2 DEF Outbox!TypeOK
    <2>5. step \in {"poll", "sleep", "stopped"} /\ step \notin {"produce", "mark"}
      OBVIOUS
    <2> QED
      BY <2>2, <2>3, <2>4, <2>5, ContinueMoves DEF Outbox!TypeOK, PublisherMoves
  <1>6. CASE Outbox!Wake(p)
    BY <1>6 DEF Outbox!Wake, Outbox!rows, Outbox!kafka, Outbox!TypeOK, PublisherMoves
  <1> QED
    BY <1>1, <1>2, <1>3, <1>4, <1>5, <1>6 DEF Outbox!LoopStep

\* A request that is given up may still arrive.
LEMMA AbandonLate ==
    ASSUME Outbox!TypeOK, NEW p \in Publishers, Outbox!Abandon(row[p])
    PROVE  /\ late' \in [Events -> Nat]
           /\ \A e \in Events : late'[e] > 0 => late[e] > 0 \/ row[p] = e
  BY DEF Outbox!TypeOK, Outbox!Abandon

\* A mark whose answer is lost.
LEMMA UncertainMark ==
    ASSUME Outbox!TypeOK, PublisherInv, NEW p \in Publishers, pc[p] = "mark",
           outbox' \in {outbox, Outbox!Marked(row[p])}
    PROVE  /\ outbox' \in [Events -> {"absent", "pending", "published"}]
           /\ \A e \in Events : outbox'[e] # outbox[e] =>
                 outbox[e] = "pending" /\ outbox'[e] = "published" /\ Outbox!InTopic(e)
  BY DEF Outbox!TypeOK, PublisherInv, Outbox!Marked

\* The failures of its calls, and its death.
LEMMA FaultMoves ==
    ASSUME Outbox!TypeOK, PublisherInv, NEW p \in Publishers, Outbox!LoopFails(p)
    PROVE  PublisherMoves(p)
  <1>1. "outbox_publish_failed" \in Outbox!Messages /\ "none" \in Outbox!Messages
    BY DEF Outbox!Messages
  <1>2. faults' \in Nat /\ row[p] \in Events
    BY DEF Outbox!TypeOK, Outbox!LoopFails, Outbox!SelectFails, Outbox!ProduceFails,
           Outbox!MarkFails, Outbox!Stop, Outbox!Fault
  <1>3. CASE Outbox!SelectFails(p)
    <2>1. /\ Outbox!Continue(p, "sleep", "outbox_publish_failed")
          /\ UNCHANGED <<outbox, rowId, lastId, topic, late>>
      BY <1>3 DEF Outbox!SelectFails, Outbox!rows, Outbox!kafka
    <2> QED
      BY <1>1, <1>2, <2>1, ContinueMoves DEF Outbox!TypeOK, PublisherMoves
  <1>4. CASE Outbox!ProduceFails(p)
    <2>1. /\ pc[p] = "produce" /\ Outbox!Abandon(row[p])
          /\ Outbox!Continue(p, "sleep", "outbox_publish_failed")
          /\ UNCHANGED <<outbox, rowId, lastId, topic>>
      BY <1>4 DEF Outbox!ProduceFails, Outbox!rows
    <2> QED
      BY <1>1, <1>2, <2>1, ContinueMoves, AbandonLate DEF Outbox!TypeOK, PublisherMoves
  <1>5. CASE Outbox!MarkFails(p)
    <2>1. /\ pc[p] = "mark" /\ outbox' \in {outbox, Outbox!Marked(row[p])}
          /\ Outbox!Continue(p, "sleep", "outbox_publish_failed")
          /\ UNCHANGED <<rowId, lastId, topic, late>>
      BY <1>5 DEF Outbox!MarkFails, Outbox!kafka
    <2> QED
      BY <1>1, <1>2, <2>1, ContinueMoves, UncertainMark
         DEF Outbox!TypeOK, PublisherMoves
  <1>6. CASE Outbox!Stop(p)
    <2>1. /\ Outbox!Continue(p, "stopped", "none")
          /\ UNCHANGED <<rowId, lastId, topic>>
      BY <1>6 DEF Outbox!Stop
    <2>2. /\ late' \in [Events -> Nat]
          /\ \A e \in Events :
                late'[e] > 0 => late[e] > 0 \/ (pc[p] = "produce" /\ row[p] = e)
      BY <1>6, AbandonLate DEF Outbox!Stop, Outbox!TypeOK
    <2>3. /\ outbox' \in [Events -> {"absent", "pending", "published"}]
          /\ \A e \in Events : outbox'[e] # outbox[e] =>
                outbox[e] = "pending" /\ outbox'[e] = "published" /\ Outbox!InTopic(e)
      BY <1>6, UncertainMark DEF Outbox!Stop, Outbox!TypeOK
    <2> QED
      BY <1>1, <1>2, <2>1, <2>2, <2>3, ContinueMoves DEF Outbox!TypeOK, PublisherMoves
  <1> QED
    BY <1>3, <1>4, <1>5, <1>6 DEF Outbox!LoopFails

--------------------------------------------------------------------------------
(* The steps of a record at the worker *)

\* How a step moves the calls and the processed rows: it does neither, sends the
\* job of w, or sets its row to "processed".
SendsOrSettles(w) ==
    \/ /\ UNCHANGED calls
       /\ \A e \in Events : status'[e] = "processed" <=> status[e] = "processed"
    \/ /\ wpc[w] = "deliver"
       /\ calls' = [calls EXCEPT ![job[w]] = @ + 1]
       /\ UNCHANGED status
    \/ /\ wpc[w] = "mark_processed"
       /\ UNCHANGED calls
       /\ \A e \in Events :
             status'[e] = "processed" <=> status[e] = "processed" \/ e = job[w]

\* What a step of a record does: it goes on with the same job, sends before it
\* marks, and claims no processed row.
RowMoves(w) ==
    /\ Consumer!Completion!TypeOK'
    /\ \A v \in Workers \ {w} : wpc'[v] = wpc[v] /\ job'[v] = job[v]
    /\ wpc'[w] # "idle" => wpc[w] # "idle" /\ job'[w] = job[w]
    /\ wpc'[w] = "mark_processed" => calls'[job[w]] > 0
    /\ wpc'[w] = "deliver" => status'[job[w]] # "processed"
    /\ SendsOrSettles(w)

\* A statement's UPDATE: types, and the rows that are processed after it.
LEMMA UpdateMoves ==
    ASSUME Consumer!Completion!TypeOK, NEW e \in Events, NEW n \in Nat,
           NEW from \in {"absent", "processing", "failed"},
           NEW to \in {"processing", "processed", "failed"},
           Consumer!Completion!Update(e, from, to, n)
    PROVE  /\ status' \in [Events -> {"absent", "processing", "processed", "failed"}]
           /\ attempts' \in [Events -> Nat]
           /\ status[e] = from => status'[e] = to
           /\ \A f \in Events : status'[f] = "processed" <=>
                 status[f] = "processed" \/ (f = e /\ status[e] = from /\ to = "processed")
  BY DEF Consumer!Completion!TypeOK, Consumer!Completion!Update, Consumer!Completion!table

\* The tables after a statement that may have taken effect.
TableMoves(w) ==
    /\ status' \in [Events -> {"absent", "processing", "processed", "failed"}]
    /\ attempts' \in [Events -> Nat]
    /\ \/ \A e \in Events : status'[e] = "processed" <=> status[e] = "processed"
       \/ /\ wpc[w] = "mark_processed"
          /\ \A e \in Events :
                status'[e] = "processed" <=> status[e] = "processed" \/ e = job[w]

\* A statement that takes effect, whoever learns of it.
LEMMA EffectMoves ==
    ASSUME Consumer!Completion!TypeOK, NEW w \in Workers,
           UNCHANGED completionsTable \/ Consumer!Completion!Effect(w)
    PROVE  TableMoves(w) /\ (wpc[w] = "deliver" => UNCHANGED status)
  <1>1. job[w] \in Events
    BY DEF Consumer!Completion!TypeOK
  <1>2. CASE UNCHANGED completionsTable
    BY <1>2 DEF completionsTable, TableMoves, Consumer!Completion!TypeOK
  <1>3. CASE Consumer!Completion!Effect(w)
    <2>1. CASE wpc[w] = "insert"
      BY <1>1, <1>3, <2>1, UpdateMoves
         DEF Consumer!Completion!Effect, Consumer!Completion!InsertRow, TableMoves
    <2>2. CASE wpc[w] = "retry"
      BY <1>1, <1>3, <2>2, UpdateMoves
         DEF Consumer!Completion!Effect, Consumer!Completion!BumpProcessing, TableMoves
    <2>3. CASE wpc[w] = "reclaim"
      BY <1>1, <1>3, <2>3, UpdateMoves
         DEF Consumer!Completion!Effect, Consumer!Completion!ReclaimFailed, TableMoves
    <2>4. CASE wpc[w] = "mark_processed"
      BY <1>1, <1>3, <2>4, UpdateMoves
         DEF Consumer!Completion!Effect, Consumer!Completion!SetProcessed, TableMoves
    <2>5. CASE wpc[w] = "mark_failed"
      BY <1>1, <1>3, <2>5, UpdateMoves
         DEF Consumer!Completion!Effect, Consumer!Completion!SetFailed, TableMoves
    <2>6. CASE wpc[w] \notin {"insert", "retry", "reclaim", "mark_processed", "mark_failed"}
      BY <1>3, <2>6
         DEF Consumer!Completion!Effect, Consumer!Completion!table, TableMoves,
             Consumer!Completion!TypeOK
    <2> QED
      BY <2>1, <2>2, <2>3, <2>4, <2>5, <2>6
  <1> QED
    BY <1>2, <1>3

\* A worker's frame, as the types have it.
FrameTyped ==
    /\ wpc \in [Workers ->
          Consumer!Completion!StatementSteps \cup {"idle", "deliver", "returned"}]
    /\ job \in [Workers -> Events]
    /\ outcome \in [Workers -> Consumer!Completion!Classes \cup {"none"}]
    /\ verdict \in [Workers -> BOOLEAN]

\* Going to another step, or returning.
LEMMA StepFrame ==
    ASSUME Consumer!Completion!TypeOK, NEW w \in Workers,
           NEW step \in Consumer!Completion!StatementSteps \cup {"deliver", "returned"},
           \/ Consumer!Completion!Goto(w, step)
           \/ step = "returned" /\ \E v \in BOOLEAN : Consumer!Completion!Return(w, v)
    PROVE  /\ FrameTyped' /\ UNCHANGED job /\ wpc'[w] = step
           /\ \A v \in Workers \ {w} : wpc'[v] = wpc[v]
  BY DEF Consumer!Completion!TypeOK, FrameTyped, Consumer!Completion!Goto,
         Consumer!Completion!Return

\* Leaving.
LEMMA LeaveFrame ==
    ASSUME Consumer!Completion!TypeOK, NEW w \in Workers, Consumer!Completion!Leave(w)
    PROVE  /\ FrameTyped' /\ wpc'[w] = "idle"
           /\ \A v \in Workers \ {w} : wpc'[v] = wpc[v] /\ job'[v] = job[v]
  BY NoRowIsEvent
     DEF Consumer!Completion!TypeOK, FrameTyped, Consumer!Completion!Leave

\* What a step that is neither a POST nor a death owes.
LEMMA QuietMoves ==
    ASSUME Consumer!Completion!TypeOK, NEW w \in Workers, TableMoves(w),
           NEW step \in Consumer!Completion!StatementSteps \cup {"deliver", "returned"},
           step # "mark_processed", wpc[w] # "idle",
           step = "deliver" => status'[job[w]] # "processed",
           \/ Consumer!Completion!Goto(w, step)
           \/ step = "returned" /\ \E v \in BOOLEAN : Consumer!Completion!Return(w, v),
           UNCHANGED <<calls, answered>>, wfaults' \in Nat
    PROVE  RowMoves(w)
  <1>1. /\ FrameTyped' /\ UNCHANGED job /\ wpc'[w] = step
        /\ \A v \in Workers \ {w} : wpc'[v] = wpc[v]
    BY StepFrame
  <1>2. Consumer!Completion!TypeOK'
    BY <1>1 DEF TableMoves, FrameTyped, Consumer!Completion!TypeOK
  <1>3. SendsOrSettles(w)
    BY DEF TableMoves, SendsOrSettles
  <1> QED
    BY <1>1, <1>2, <1>3 DEF RowMoves

\* The steps of ClaimConsumerCompletion.
LEMMA ClaimMoves ==
    ASSUME Consumer!Completion!TypeOK, NEW w \in Workers,
           \/ Consumer!Completion!ClaimInsert(w) \/ Consumer!Completion!ClaimSelect(w)
           \/ Consumer!Completion!ClaimRetry(w) \/ Consumer!Completion!ClaimReclaim(w)
    PROVE  RowMoves(w)
  <1> DEFINE Steps == Consumer!Completion!StatementSteps
  <1>1. /\ job[w] \in Events /\ wfaults \in Nat
        /\ status[job[w]] \in {"absent", "processing", "processed", "failed"}
        /\ {"insert", "select", "retry", "reclaim"} \subseteq Steps
    BY DEF Consumer!Completion!TypeOK, Consumer!Completion!StatementSteps
  <1>2. CASE Consumer!Completion!ClaimInsert(w)
    <2>1. /\ wpc[w] = "insert" /\ UNCHANGED <<calls, answered, wfaults>>
          /\ Consumer!Completion!Update(job[w], "absent", "processing", 1)
      BY <1>2 DEF Consumer!Completion!ClaimInsert, Consumer!Completion!InsertRow,
                  Consumer!Completion!history
    <2>2. TableMoves(w) /\ (status[job[w]] = "absent" => status'[job[w]] = "processing")
      BY <1>1, <2>1, UpdateMoves DEF TableMoves
    <2>3. \/ status[job[w]] = "absent" /\ Consumer!Completion!Goto(w, "deliver")
          \/ Consumer!Completion!Goto(w, "select")
      BY <1>2 DEF Consumer!Completion!ClaimInsert
    <2> QED
      BY <1>1, <2>1, <2>2, <2>3, QuietMoves
  <1>3. CASE Consumer!Completion!ClaimSelect(w)
    <2>1. /\ wpc[w] = "select" /\ UNCHANGED <<calls, answered, wfaults>>
          /\ UNCHANGED <<status, attempts>>
      BY <1>3 DEF Consumer!Completion!ClaimSelect, Consumer!Completion!history,
                  Consumer!Completion!table
    <2>2. TableMoves(w)
      BY <2>1 DEF TableMoves, Consumer!Completion!TypeOK
    <2>3. \/ \E v \in BOOLEAN : Consumer!Completion!Return(w, v)
          \/ \E step \in {"retry", "reclaim"} : Consumer!Completion!Goto(w, step)
      BY <1>1, <1>3 DEF Consumer!Completion!ClaimSelect
    <2> QED
      BY <1>1, <2>1, <2>2, <2>3, QuietMoves
  <1>4. CASE Consumer!Completion!ClaimRetry(w)
    <2>1. /\ wpc[w] = "retry" /\ UNCHANGED <<calls, answered, wfaults>>
          /\ Consumer!Completion!Update(job[w], "processing", "processing", 1)
      BY <1>4 DEF Consumer!Completion!ClaimRetry, Consumer!Completion!BumpProcessing,
                  Consumer!Completion!history
    <2>2. TableMoves(w) /\ (status[job[w]] = "processing" => status'[job[w]] = "processing")
      BY <1>1, <2>1, UpdateMoves DEF TableMoves
    <2>3. \/ status[job[w]] = "processing" /\ Consumer!Completion!Goto(w, "deliver")
          \/ Consumer!Completion!Return(w, FALSE)
      BY <1>4 DEF Consumer!Completion!ClaimRetry
    <2> QED
      BY <1>1, <2>1, <2>2, <2>3, QuietMoves
  <1>5. CASE Consumer!Completion!ClaimReclaim(w)
    <2>1. /\ wpc[w] = "reclaim" /\ UNCHANGED <<calls, answered, wfaults>>
          /\ Consumer!Completion!Update(job[w], "failed", "processing", 1)
      BY <1>5 DEF Consumer!Completion!ClaimReclaim, Consumer!Completion!ReclaimFailed,
                  Consumer!Completion!history
    <2>2. TableMoves(w) /\ (status[job[w]] = "failed" => status'[job[w]] = "processing")
      BY <1>1, <2>1, UpdateMoves DEF TableMoves
    <2>3. \/ status[job[w]] = "failed" /\ Consumer!Completion!Goto(w, "deliver")
          \/ Consumer!Completion!Return(w, FALSE)
      BY <1>5 DEF Consumer!Completion!ClaimReclaim
    <2> QED
      BY <1>1, <2>1, <2>2, <2>3, QuietMoves
  <1> QED
    BY <1>2, <1>3, <1>4, <1>5

\* The POST.
LEMMA DeliverMoves ==
    ASSUME Consumer!Completion!TypeOK, NEW w \in Workers, NEW r,
           Consumer!Completion!Deliver(w, r)
    PROVE  RowMoves(w)
  <1> DEFINE step == IF Consumer!Completion!DeliverJob(r) = "ok" THEN "mark_processed"
                     ELSE "mark_failed"
  <1>1. Consumer!Completion!DeliverJob(r) \in Consumer!Completion!Classes
    BY DEF Consumer!Completion!DeliverJob, Consumer!Completion!classifyHTTPStatus,
           Consumer!Completion!Classes
  <1>2. Consumer!Completion!Meaning(r) \in Consumer!Completion!Meanings
    BY DEF Consumer!Completion!Meaning, Consumer!Completion!Meanings
  <1>3. step \in Consumer!Completion!StatementSteps \ {"deliver"}
    BY DEF Consumer!Completion!StatementSteps
  <1>4. /\ wpc[w] = "deliver" /\ job[w] \in Events
        /\ calls' = [calls EXCEPT ![job[w]] = @ + 1]
        /\ wpc' = [wpc EXCEPT ![w] = step]
        /\ answered' =
              [answered EXCEPT ![job[w]] = @ \cup {Consumer!Completion!Meaning(r)}]
        /\ outcome' = [outcome EXCEPT ![w] = Consumer!Completion!DeliverJob(r)]
        /\ UNCHANGED <<status, attempts, job, verdict, wfaults>>
    BY DEF Consumer!Completion!Deliver, Consumer!Completion!table,
           Consumer!Completion!TypeOK
  <1> HIDE DEF step
  <1>5. calls' \in [Events -> Nat] /\ calls'[job[w]] > 0
    BY <1>4 DEF Consumer!Completion!TypeOK
  <1>6. answered' \in [Events -> SUBSET Consumer!Completion!Meanings]
    BY <1>2, <1>4 DEF Consumer!Completion!TypeOK
  <1>7. Consumer!Completion!TypeOK'
    BY <1>1, <1>3, <1>4, <1>5, <1>6 DEF Consumer!Completion!TypeOK
  <1>8. /\ wpc'[w] = step
        /\ \A v \in Workers \ {w} : wpc'[v] = wpc[v] /\ job'[v] = job[v]
    BY <1>4 DEF Consumer!Completion!TypeOK
  <1> QED
    BY <1>3, <1>4, <1>5, <1>7, <1>8 DEF RowMoves, SendsOrSettles

\* The marks, and a statement whose answer is an error.
LEMMA MarkMoves ==
    ASSUME Consumer!Completion!TypeOK, NEW w \in Workers,
           \/ Consumer!Completion!MarkProcessed(w) \/ Consumer!Completion!MarkFailed(w)
           \/ Consumer!Completion!StatementFails(w)
    PROVE  RowMoves(w)
  <1>1. job[w] \in Events /\ wfaults \in Nat
    BY DEF Consumer!Completion!TypeOK
  <1>2. CASE Consumer!Completion!MarkProcessed(w)
    <2>1. /\ wpc[w] = "mark_processed" /\ UNCHANGED <<calls, answered, wfaults>>
          /\ Consumer!Completion!Update(job[w], "processing", "processed", 0)
          /\ \E v \in BOOLEAN : Consumer!Completion!Return(w, v)
      BY <1>2 DEF Consumer!Completion!MarkProcessed, Consumer!Completion!SetProcessed,
                  Consumer!Completion!history
    <2>2. TableMoves(w)
      BY <1>1, <2>1, UpdateMoves DEF TableMoves
    <2> QED
      BY <1>1, <2>1, <2>2, QuietMoves
  <1>3. CASE Consumer!Completion!MarkFailed(w)
    <2>1. /\ wpc[w] = "mark_failed" /\ UNCHANGED <<calls, answered, wfaults>>
          /\ Consumer!Completion!Update(job[w], "processing", "failed", 0)
          /\ \E v \in BOOLEAN : Consumer!Completion!Return(w, v)
      BY <1>3 DEF Consumer!Completion!MarkFailed, Consumer!Completion!SetFailed,
                  Consumer!Completion!history
    <2>2. TableMoves(w)
      BY <1>1, <2>1, UpdateMoves DEF TableMoves
    <2> QED
      BY <1>1, <2>1, <2>2, QuietMoves
  <1>4. CASE Consumer!Completion!StatementFails(w)
    <2>1. /\ wpc[w] # "idle" /\ UNCHANGED <<calls, answered>> /\ wfaults' \in Nat
      BY <1>1, <1>4
         DEF Consumer!Completion!StatementFails, Consumer!Completion!StatementSteps,
             Consumer!Completion!history, Consumer!Completion!Fault
    <2>2. Consumer!Completion!Return(w, FALSE)
      BY <1>4 DEF Consumer!Completion!StatementFails
    <2>3. TableMoves(w)
      BY <1>4, EffectMoves
         DEF Consumer!Completion!StatementFails, Consumer!Completion!table,
             completionsTable
    <2> QED
      BY <2>1, <2>2, <2>3, QuietMoves
  <1> QED
    BY <1>2, <1>3, <1>4

\* The end of a record, and a death in the middle of one: what was sent may arrive.
LEMMA LeaveMoves ==
    ASSUME Consumer!Completion!TypeOK, NEW w \in Workers,
           \/ Consumer!Completion!TakeVerdict(w)
           \/ Consumer!Completion!Die(w) /\ UNCHANGED wfaults
    PROVE  RowMoves(w) /\ wpc'[w] = "idle"
  <1>1. Consumer!Completion!Leave(w) /\ UNCHANGED <<answered, wfaults>>
    BY DEF Consumer!Completion!TakeVerdict, Consumer!Completion!Die,
           Consumer!Completion!history
  <1>2. /\ FrameTyped' /\ wpc'[w] = "idle"
        /\ \A v \in Workers \ {w} : wpc'[v] = wpc[v] /\ job'[v] = job[v]
    BY <1>1, LeaveFrame
  <1>3. TableMoves(w) /\ (wpc[w] = "deliver" => UNCHANGED status)
    BY EffectMoves DEF Consumer!Completion!TakeVerdict, Consumer!Completion!Die,
                       Consumer!Completion!table, completionsTable
  <1>4. \/ UNCHANGED calls
        \/ wpc[w] = "deliver" /\ calls' = [calls EXCEPT ![job[w]] = @ + 1]
    BY DEF Consumer!Completion!TakeVerdict, Consumer!Completion!Die,
           Consumer!Completion!history
  <1>5. calls' \in [Events -> Nat]
    BY <1>4 DEF Consumer!Completion!TypeOK
  <1>6. SendsOrSettles(w)
    BY <1>3, <1>4 DEF SendsOrSettles, TableMoves
  <1>7. Consumer!Completion!TypeOK'
    BY <1>1, <1>2, <1>3, <1>5 DEF Consumer!Completion!TypeOK, FrameTyped, TableMoves
  <1> QED
    BY <1>2, <1>6, <1>7 DEF RowMoves

--------------------------------------------------------------------------------
(* The worker's loop *)

\* The topic has one partition, number 1.
LEMMA OnePartition ==
    /\ Consumer!Partitions = {1} /\ Consumer!NoPart = 1
    /\ <<topic>>[1] = topic /\ <<topic>>'[1] = topic'
    /\ Consumer!Zero = [p \in {1} |-> 0]
  <1>1. Consumer!Partitions = {1}
    BY DEF Consumer!Partitions
  <1> QED
    BY <1>1 DEF Consumer!NoPart, Consumer!Zero

\* The loop's part of the types.
LoopTyped ==
    /\ owner \in [{1} -> Workers \cup {Nobody}]
    /\ committed \in [{1} -> Nat]
    /\ position \in [Workers -> [{1} -> Nat]]
    /\ start \in [Workers -> [{1} -> Nat]]
    /\ todo \in [Workers -> SUBSET {1}]
    /\ part \in [Workers -> {1}]
    /\ cursor \in [Workers -> Nat]
    /\ phase \in [Workers -> {"poll", "batch", "handle", "handling", "commit", "down"}]
    /\ handled \in [{1} -> SUBSET Nat]
    /\ failed \in [{1} -> SUBSET Nat]
    /\ restarts \in Nat

\* The worker's types, by part.
LEMMA ConsumerTypes ==
    topic \in Seq(Events) =>
        (Consumer!TypeOK <=> Consumer!Completion!TypeOK /\ LoopTyped)
  <1> SUFFICES ASSUME topic \in Seq(Events)
               PROVE  Consumer!TypeOK <=> Consumer!Completion!TypeOK /\ LoopTyped
    OBVIOUS
  <1>1. <<topic>> \in [{1} -> Seq(Events \cup {Malformed})]
    <2>1. topic \in Seq(Events \cup {Malformed})
      OBVIOUS
    <2> QED
      BY <2>1
  <1> QED
    BY <1>1, OnePartition DEF Consumer!TypeOK, LoopTyped

\* What keeps the other workers' places.
PlaceKept(v) ==
    /\ position'[v] = position[v] /\ start'[v] = start[v] /\ todo'[v] = todo[v]
    /\ cursor'[v] = cursor[v] /\ phase'[v] = phase[v]

\* The place of one worker.
PlaceInv(w) ==
    /\ position[w][1] <= Len(topic)
    /\ phase[w] \in {"poll", "down"} => todo[w] = {}
    /\ 1 \in todo[w] => start[w][1] <= position[w][1]
    /\ Working(w) => cursor[w] <= position[w][1]
    /\ phase[w] = "handling" => cursor[w] < position[w][1]

\* A step of w that leaves the others where they are.
LEMMA PlaceStep ==
    ASSUME LoopInv, NEW w \in Workers, UNCHANGED topic, PlaceInv(w)',
           committed'[1] <= Len(topic), \A v \in Workers \ {w} : PlaceKept(v)
    PROVE  LoopInv'
  BY DEF LoopInv, PlaceInv, PlaceKept, Working

\* The loop's steps between and around records.
LEMMA PollMoves ==
    ASSUME LoopTyped, LoopInv, topic \in Seq(Events), UNCHANGED topic, NEW w \in Workers,
           Consumer!PollFetches(w)
    PROVE  LoopTyped' /\ LoopInv'
  <1>1. PICK upto \in [{1} -> Consumer!Ends] :
          /\ upto[1] \in position[w][1] .. Len(topic)
          /\ position' = [position EXCEPT ![w] = upto]
          /\ todo' = [todo EXCEPT ![w] = {p \in {1} : upto[p] # position[w][p]}]
    BY OnePartition DEF Consumer!PollFetches
  <1>2. /\ start' = [start EXCEPT ![w] = position[w]]
        /\ phase' = [phase EXCEPT ![w] = "batch"]
        /\ UNCHANGED <<owner, committed, part, cursor, handled, failed, restarts>>
    BY DEF Consumer!PollFetches, Consumer!Goto, Consumer!historyVars
  <1>3. position[w][1] \in Nat /\ upto[1] \in Nat /\ upto[1] <= Len(topic)
    BY <1>1 DEF LoopTyped
  <1>4. upto \in [{1} -> Nat]
    BY <1>1, <1>3
  <1>5. LoopTyped'
    BY <1>1, <1>2, <1>4 DEF LoopTyped
  <1>6. /\ position'[w] = upto /\ start'[w] = position[w] /\ phase'[w] = "batch"
        /\ \A v \in Workers \ {w} : PlaceKept(v)
    BY <1>1, <1>2 DEF LoopTyped, PlaceKept
  <1>7. PlaceInv(w)'
    BY <1>1, <1>3, <1>6 DEF PlaceInv, Working
  <1> QED
    BY <1>2, <1>5, <1>6, <1>7, PlaceStep DEF LoopInv

\* Going from one partition or record to the next, or starting again.
LEMMA MoveOn ==
    ASSUME LoopTyped, LoopInv, UNCHANGED topic, NEW w \in Workers,
           \/ Consumer!EachPartition(w) \/ Consumer!AllowRebalance(w)
           \/ Consumer!BatchHandled(w) \/ Consumer!CommitRecords(w)
           \/ Consumer!CommitFails(w) \/ Consumer!Restart(w)
    PROVE  LoopTyped' /\ LoopInv'
  <1>1. /\ PlaceInv(w) /\ committed[1] <= Len(topic) /\ part[w] = 1
    BY DEF LoopInv, PlaceInv, LoopTyped
  <1>2. CASE Consumer!EachPartition(w)
    <2>1. /\ phase[w] = "batch" /\ 1 \in todo[w]
          /\ todo' = [todo EXCEPT ![w] = {}] /\ part' = [part EXCEPT ![w] = 1]
          /\ cursor' = [cursor EXCEPT ![w] = start[w][1]]
          /\ phase' = [phase EXCEPT ![w] = "handle"]
          /\ UNCHANGED <<owner, committed, position, start, handled, failed, restarts>>
      BY <1>2 DEF Consumer!EachPartition, Consumer!Goto, Consumer!groupVars,
                  Consumer!historyVars, LoopTyped
    <2>2. LoopTyped' /\ PlaceInv(w)' /\ \A v \in Workers \ {w} : PlaceKept(v)
      BY <1>1, <2>1 DEF LoopTyped, PlaceInv, PlaceKept, Working
    <2> QED
      BY <1>1, <2>1, <2>2, PlaceStep
  <1>3. CASE Consumer!AllowRebalance(w)
    <2>1. /\ todo[w] = {} /\ start' = [start EXCEPT ![w] = [p \in {1} |-> 0]]
          /\ phase' = [phase EXCEPT ![w] = "poll"]
          /\ UNCHANGED <<owner, committed, position, todo, part, cursor, handled,
                         failed, restarts>>
      BY <1>3, OnePartition
         DEF Consumer!AllowRebalance, Consumer!Goto, Consumer!groupVars,
             Consumer!historyVars
    <2>2. LoopTyped' /\ PlaceInv(w)' /\ \A v \in Workers \ {w} : PlaceKept(v)
      BY <1>1, <2>1 DEF LoopTyped, PlaceInv, PlaceKept, Working
    <2> QED
      BY <1>1, <2>1, <2>2, PlaceStep
  <1>4. CASE Consumer!BatchHandled(w)
    <2>1. /\ phase[w] = "handle" /\ phase' = [phase EXCEPT ![w] = "commit"]
          /\ UNCHANGED <<owner, committed, position, start, todo, part, cursor, handled,
                         failed, restarts>>
      BY <1>4 DEF Consumer!BatchHandled, Consumer!Goto, Consumer!groupVars,
                  Consumer!batchVars, Consumer!historyVars
    <2>2. LoopTyped' /\ PlaceInv(w)' /\ \A v \in Workers \ {w} : PlaceKept(v)
      BY <1>1, <2>1 DEF LoopTyped, PlaceInv, PlaceKept, Working
    <2> QED
      BY <1>1, <2>1, <2>2, PlaceStep
  <1>5. CASE Consumer!CommitRecords(w) \/ Consumer!CommitFails(w)
    <2>1. /\ phase[w] = "commit" /\ phase' = [phase EXCEPT ![w] = "batch"]
          /\ part' = [part EXCEPT ![w] = 1] /\ cursor' = [cursor EXCEPT ![w] = 0]
          /\ UNCHANGED <<owner, position, start, todo, handled, failed, restarts>>
      BY <1>5, OnePartition
         DEF Consumer!CommitRecords, Consumer!CommitFails, Consumer!NextPartition,
             Consumer!Goto, Consumer!groupVars, Consumer!historyVars
    <2>2. UNCHANGED committed \/ committed' = [committed EXCEPT ![1] = cursor[w]]
      BY <1>1, <1>5
         DEF Consumer!CommitRecords, Consumer!CommitFails, Consumer!groupVars
    <2>3. /\ committed' \in [{1} -> Nat] /\ committed'[1] <= Len(topic)
      <3>1. cursor[w] \in Nat /\ cursor[w] <= position[w][1] /\ position[w][1] <= Len(topic)
            /\ position[w][1] \in Nat
        BY <1>1, <2>1 DEF PlaceInv, Working, LoopTyped
      <3> QED
        BY <1>1, <2>2, <3>1 DEF LoopTyped
    <2>4. LoopTyped' /\ PlaceInv(w)' /\ \A v \in Workers \ {w} : PlaceKept(v)
      BY <1>1, <2>1, <2>3 DEF LoopTyped, PlaceInv, PlaceKept, Working
    <2> QED
      BY <2>3, <2>4, PlaceStep
  <1>6. CASE Consumer!Restart(w)
    <2>1. /\ phase[w] = "down" /\ phase' = [phase EXCEPT ![w] = "poll"]
          /\ UNCHANGED <<owner, committed, position, start, todo, part, cursor, handled,
                         failed, restarts>>
      BY <1>6 DEF Consumer!Restart, Consumer!Goto, Consumer!groupVars,
                  Consumer!batchVars, Consumer!historyVars
    <2>2. LoopTyped' /\ PlaceInv(w)' /\ \A v \in Workers \ {w} : PlaceKept(v)
      BY <1>1, <2>1 DEF LoopTyped, PlaceInv, PlaceKept, Working
    <2> QED
      BY <1>1, <2>1, <2>2, PlaceStep
  <1> QED
    BY <1>2, <1>3, <1>4, <1>5, <1>6

\* A fetch that came with an error is dropped.
LEMMA FetchFailsMoves ==
    ASSUME LoopTyped, LoopInv, UNCHANGED topic, NEW w \in Workers, Consumer!FetchFails(w)
    PROVE  LoopTyped' /\ LoopInv'
  <1>1. PlaceInv(w) /\ committed[1] <= Len(topic) /\ start[w][1] \in Nat
    BY DEF LoopInv, PlaceInv, LoopTyped
  <1>2. /\ phase[w] = "batch" /\ todo' = [todo EXCEPT ![w] = {}]
        /\ failed' = [failed EXCEPT ![1] = @ \cup {start[w][1]}]
        /\ UNCHANGED <<owner, committed, position, start, part, cursor, phase, handled,
                       restarts>>
    BY DEF Consumer!FetchFails, Consumer!groupVars, LoopTyped
  <1>3. LoopTyped' /\ PlaceInv(w)' /\ \A v \in Workers \ {w} : PlaceKept(v)
    BY <1>1, <1>2 DEF LoopTyped, PlaceInv, PlaceKept, Working
  <1> QED
    BY <1>1, <1>2, <1>3, PlaceStep

\* A record of the topic is handed to handleRecord.
LEMMA HandleMoves ==
    ASSUME LoopTyped, LoopInv, topic \in Seq(Events), UNCHANGED topic, NEW w \in Workers,
           Consumer!HandleRecord(w)
    PROVE  /\ LoopTyped' /\ LoopInv'
           /\ \E e \in Events : Outbox!InTopic(e) /\ Consumer!Completion!Start(w, e)
  <1>1. /\ PlaceInv(w) /\ committed[1] <= Len(topic) /\ part[w] = 1 /\ cursor[w] \in Nat
        /\ position[w][1] \in Nat /\ position[w][1] <= Len(topic) /\ Len(topic) \in Nat
    BY DEF LoopInv, PlaceInv, LoopTyped
  <1>2. /\ phase[w] = "handle" /\ phase' = [phase EXCEPT ![w] = "handling"]
        /\ cursor[w] < position[w][1]
        /\ Consumer!Completion!Start(w, topic[cursor[w] + 1])
        /\ UNCHANGED <<owner, committed, position, start, todo, part, cursor, handled,
                       failed, restarts>>
    BY <1>1, OnePartition
       DEF Consumer!HandleRecord, Consumer!Goto, Consumer!groupVars,
           Consumer!batchVars, Consumer!historyVars, Consumer!RecordAt
  <1>3. cursor[w] + 1 \in DOMAIN topic /\ topic[cursor[w] + 1] \in Events
    BY <1>1, <1>2
  <1>4. \E e \in Events : Outbox!InTopic(e) /\ Consumer!Completion!Start(w, e)
    BY <1>2, <1>3 DEF Outbox!InTopic
  <1>5. LoopTyped' /\ PlaceInv(w)' /\ \A v \in Workers \ {w} : PlaceKept(v)
    BY <1>1, <1>2 DEF LoopTyped, PlaceInv, PlaceKept, Working
  <1> QED
    BY <1>1, <1>2, <1>4, <1>5, PlaceStep

\* The outcome of a record: on to the next one, or the end of the batch.
LEMMA OutcomeMoves ==
    ASSUME LoopTyped, LoopInv, UNCHANGED topic, NEW w \in Workers,
           Consumer!RejectMalformed(w) \/ Consumer!RecordHandled(w)
    PROVE  LoopTyped' /\ LoopInv'
  <1>1. /\ PlaceInv(w) /\ committed[1] <= Len(topic) /\ part[w] = 1 /\ cursor[w] \in Nat
        /\ position[w][1] \in Nat
    BY DEF LoopInv, PlaceInv, LoopTyped
  <1>2. /\ phase[w] \in {"handle", "handling"}
        /\ UNCHANGED <<owner, committed, position, start, todo, part, restarts>>
        /\ phase[w] = "handling" \/ cursor[w] < position[w][1]
    BY <1>1
       DEF Consumer!RejectMalformed, Consumer!RecordHandled, Consumer!groupVars
  <1>3. cursor[w] < position[w][1]
    BY <1>1, <1>2 DEF PlaceInv
  <1>4. \/ /\ phase' = [phase EXCEPT ![w] = "handle"]
           /\ cursor' = [cursor EXCEPT ![w] = @ + 1]
           /\ handled' = [handled EXCEPT ![1] = @ \cup {cursor[w]}]
           /\ failed' = [failed EXCEPT ![1] = @ \ {cursor[w]}]
        \/ /\ phase' = [phase EXCEPT ![w] = "commit"]
           /\ failed' = [failed EXCEPT ![1] = @ \cup {cursor[w]}]
           /\ UNCHANGED <<cursor, handled>>
    BY <1>1
       DEF Consumer!RejectMalformed, Consumer!RecordHandled, Consumer!Succeed,
           Consumer!BreakOff, Consumer!Goto
  <1>5. handled' \in [{1} -> SUBSET Nat] /\ failed' \in [{1} -> SUBSET Nat]
    <2>1. /\ handled[1] \cup {cursor[w]} \in SUBSET Nat
          /\ failed[1] \cup {cursor[w]} \in SUBSET Nat
          /\ failed[1] \ {cursor[w]} \in SUBSET Nat
      BY <1>1 DEF LoopTyped
    <2> QED
      BY <1>4, <2>1 DEF LoopTyped
  <1>6. /\ phase' \in [Workers -> {"poll", "batch", "handle", "handling", "commit", "down"}]
        /\ cursor' \in [Workers -> Nat]
    <2>1. \/ phase' = [phase EXCEPT ![w] = "handle"]
          \/ phase' = [phase EXCEPT ![w] = "commit"]
      BY <1>4
    <2>2. UNCHANGED cursor \/ cursor' = [cursor EXCEPT ![w] = @ + 1]
      BY <1>4
    <2>3. phase' \in [Workers -> {"poll", "batch", "handle", "handling", "commit", "down"}]
      BY <2>1 DEF LoopTyped
    <2>4. cursor' \in [Workers -> Nat]
      BY <2>2 DEF LoopTyped
    <2> QED
      BY <2>3, <2>4
  <1>7. LoopTyped'
    BY <1>2, <1>5, <1>6 DEF LoopTyped
  <1>8. PlaceInv(w)' /\ \A v \in Workers \ {w} : PlaceKept(v)
    BY <1>1, <1>2, <1>3, <1>4 DEF LoopTyped, PlaceInv, PlaceKept, Working
  <1> QED
    BY <1>1, <1>2, <1>7, <1>8, PlaceStep

\* A member dies, loses the partition or gets it.
LEMMA GroupMoves ==
    ASSUME LoopTyped, LoopInv, UNCHANGED topic, NEW w \in Workers,
           Consumer!Die(w) \/ Consumer!Revoke(1) \/ Consumer!Assign(1, w)
    PROVE  LoopTyped' /\ LoopInv'
  <1>1. PlaceInv(w) /\ committed[1] <= Len(topic) /\ committed[1] \in Nat
    BY DEF LoopInv, PlaceInv, LoopTyped
  <1>2. CASE Consumer!Die(w)
    <2>1. /\ owner' = [p \in {1} |-> IF owner[p] = w THEN Nobody ELSE owner[p]]
          /\ start' = [start EXCEPT ![w] = [p \in {1} |-> 0]]
          /\ todo' = [todo EXCEPT ![w] = {}]
          /\ part' = [part EXCEPT ![w] = 1]
          /\ cursor' = [cursor EXCEPT ![w] = 0]
          /\ phase' = [phase EXCEPT ![w] = "down"]
          /\ restarts' = restarts + 1
          /\ UNCHANGED <<committed, position, handled, failed>>
      BY <1>2, OnePartition
         DEF Consumer!Die, Consumer!RestartBudget, Consumer!Goto, Consumer!historyVars
    <2>2. LoopTyped'
      BY <2>1 DEF LoopTyped
    <2>3. PlaceInv(w)' /\ \A v \in Workers \ {w} : PlaceKept(v)
      BY <1>1, <2>1 DEF LoopTyped, PlaceInv, PlaceKept, Working
    <2> QED
      BY <1>1, <2>1, <2>2, <2>3, PlaceStep
  <1>3. CASE Consumer!Revoke(1)
    <2>1. /\ owner' = [owner EXCEPT ![1] = Nobody] /\ restarts' = restarts + 1
          /\ UNCHANGED <<committed, position, start, todo, part, cursor, phase, handled,
                         failed>>
      BY <1>3 DEF Consumer!Revoke, Consumer!RestartBudget, Consumer!batchVars,
                  Consumer!historyVars
    <2> QED
      BY <2>1 DEF LoopTyped, LoopInv, Working
  <1>4. CASE Consumer!Assign(1, w)
    <2>1. /\ phase[w] = "poll" /\ owner' = [owner EXCEPT ![1] = w]
          /\ position' = [position EXCEPT ![w][1] = committed[1]]
          /\ UNCHANGED <<committed, start, todo, part, cursor, phase, handled, failed,
                         restarts>>
      BY <1>4 DEF Consumer!Assign, Consumer!batchVars, Consumer!historyVars
    <2>2. /\ LoopTyped' /\ position'[w][1] = committed[1]
          /\ \A v \in Workers \ {w} : PlaceKept(v)
      BY <1>1, <2>1 DEF LoopTyped, PlaceKept
    <2>3. PlaceInv(w)'
      BY <1>1, <2>1, <2>2 DEF PlaceInv, Working
    <2> QED
      BY <1>1, <2>1, <2>2, <2>3, PlaceStep
  <1> QED
    BY <1>2, <1>3, <1>4

--------------------------------------------------------------------------------
(* The worker's steps under any schema *)

\* Everything but the worker's own state.
WorkerOnly ==
    UNCHANGED <<ledger, schema, rollbacks, accepted, migrated, outbox, rowId, lastId,
                topic, late, pc, row, log, faults>>

RowsStay ==
    /\ UNCHANGED <<status, attempts, wpc, job, outcome, verdict, calls, answered>>
    /\ wfaults' \in Nat

\* A record in the topic that w begins with.
Begins(w) ==
    \E e \in Events : Outbox!InTopic(e) /\ Consumer!Completion!Start(w, e)

\* What a worker's step does to the rows.
RowEffect(w) == RowMoves(w) \/ Begins(w) \/ RowsStay

\* The rows' types after either.
LEMMA RowEffectTypes ==
    ASSUME Consumer!Completion!TypeOK, NEW w \in Workers, RowEffect(w)
    PROVE  Consumer!Completion!TypeOK'
  <1>1. CASE Begins(w)
    BY <1>1 DEF Begins, Consumer!Completion!TypeOK, Consumer!Completion!Start,
                Consumer!Completion!StatementSteps, Consumer!Completion!table,
                Consumer!Completion!history
  <1>2. CASE RowsStay
    BY <1>2 DEF RowsStay, Consumer!Completion!TypeOK
  <1> QED
    BY <1>1, <1>2 DEF RowEffect, RowMoves

\* The steps of the loop.
LEMMA LoopStepMoves ==
    ASSUME Consumer!Completion!TypeOK, LoopTyped, LoopInv, topic \in Seq(Events),
           UNCHANGED topic, NEW w \in Workers, Consumer!LoopStep(w)
    PROVE  /\ LoopTyped' /\ LoopInv' /\ RowEffect(w)
           /\ UNCHANGED completionsTable
  <1>1. CASE Consumer!HandleRecord(w)
    BY <1>1, HandleMoves
       DEF Begins, RowEffect, Consumer!Completion!Start, Consumer!Completion!table,
           completionsTable
  <1>2. CASE Consumer!RecordHandled(w)
    BY <1>2, OutcomeMoves, LeaveMoves
       DEF RowEffect, Consumer!RecordHandled, Consumer!Completion!TakeVerdict,
           Consumer!Completion!table, completionsTable
  <1>3. CASE UNCHANGED Consumer!completionVars
    <2>1. RowsStay /\ UNCHANGED completionsTable
      BY <1>3 DEF RowsStay, Consumer!completionVars, completionsTable,
                  Consumer!Completion!TypeOK
    <2>2. CASE Consumer!PollFetches(w)
      BY <2>1, <2>2, PollMoves DEF RowEffect
    <2>3. CASE Consumer!RejectMalformed(w)
      BY <2>1, <2>3, OutcomeMoves DEF RowEffect
    <2>4. CASE Consumer!EachPartition(w) \/ Consumer!AllowRebalance(w)
                 \/ Consumer!BatchHandled(w) \/ Consumer!CommitRecords(w)
      BY <2>1, <2>4, MoveOn DEF RowEffect
    <2> QED
      BY <1>1, <1>2, <2>2, <2>3, <2>4 DEF Consumer!LoopStep
  <1>4. \/ Consumer!HandleRecord(w) \/ Consumer!RecordHandled(w)
        \/ UNCHANGED Consumer!completionVars
    BY DEF Consumer!LoopStep, Consumer!PollFetches, Consumer!EachPartition,
           Consumer!AllowRebalance, Consumer!RejectMalformed, Consumer!BatchHandled,
           Consumer!CommitRecords
  <1> QED
    BY <1>1, <1>2, <1>3, <1>4

\* The statements and the POST of a record, which a missing table leaves out.
LEMMA StoreStepMoves ==
    ASSUME Consumer!Completion!TypeOK, LoopTyped, LoopInv, UNCHANGED topic,
           NEW w \in Workers, Consumer!StoreStep(w)
    PROVE  /\ LoopTyped' /\ LoopInv' /\ RowMoves(w)
           /\ wpc[w] \notin Consumer!Completion!StatementSteps => UNCHANGED completionsTable
  <1>1. Consumer!Completion!HandleStep(w) \/ Consumer!Completion!StatementFails(w)
    BY DEF Consumer!StoreStep
  <1>2. LoopTyped' /\ LoopInv'
    BY DEF Consumer!StoreStep, LoopTyped, LoopInv, Working, Consumer!groupVars,
           Consumer!batchVars, Consumer!historyVars
  <1>3. RowMoves(w)
    BY <1>1, ClaimMoves, DeliverMoves, MarkMoves DEF Consumer!Completion!HandleStep
  <1>4. ASSUME wpc[w] \notin Consumer!Completion!StatementSteps
        PROVE  UNCHANGED completionsTable
    <2>1. \E r \in Responses : Consumer!Completion!Deliver(w, r)
      BY <1>1, <1>4
         DEF Consumer!Completion!HandleStep, Consumer!Completion!ClaimInsert,
             Consumer!Completion!ClaimSelect, Consumer!Completion!ClaimRetry,
             Consumer!Completion!ClaimReclaim, Consumer!Completion!MarkProcessed,
             Consumer!Completion!MarkFailed, Consumer!Completion!StatementFails,
             Consumer!Completion!StatementSteps
    <2> QED
      BY <2>1 DEF Consumer!Completion!Deliver, Consumer!Completion!table, completionsTable
  <1> QED
    BY <1>2, <1>3, <1>4

\* A statement on a table that is not there fails.
LEMMA MissingMoves ==
    ASSUME Consumer!Completion!TypeOK, LoopTyped, LoopInv, UNCHANGED topic,
           NEW w \in Workers, CompletionsMissing(w)
    PROVE  LoopTyped' /\ LoopInv' /\ RowMoves(w) /\ UNCHANGED completionsTable
  <1>1. LoopTyped' /\ LoopInv' /\ UNCHANGED completionsTable
    BY DEF CompletionsMissing, LoopTyped, LoopInv, Working
  <1>2. /\ wpc[w] # "idle" /\ UNCHANGED <<calls, answered, wfaults>> /\ wfaults \in Nat
        /\ UNCHANGED <<status, attempts>>
    BY DEF CompletionsMissing, completionsTable, Consumer!Completion!StatementSteps,
           Consumer!Completion!TypeOK
  <1>3. TableMoves(w)
    BY <1>2 DEF TableMoves, Consumer!Completion!TypeOK
  <1>4. Consumer!Completion!Return(w, FALSE)
    BY DEF CompletionsMissing
  <1>5. RowMoves(w)
    BY <1>2, <1>3, <1>4, QuietMoves
  <1> QED
    BY <1>1, <1>5

\* A step of a worker, by what it does to the loop and to the rows.
WorkerMoves(w) ==
    /\ LoopTyped' /\ LoopInv' /\ RowEffect(w)
    /\ CompletionsExist \/ UNCHANGED completionsTable

\* Losing and getting the partition, dying and starting again.
LEMMA FaultStepMoves ==
    ASSUME Consumer!Completion!TypeOK, LoopTyped, LoopInv, UNCHANGED topic,
           NEW w \in Workers,
           \/ Consumer!FetchFails(w) \/ Consumer!CommitFails(w)
           \/ Consumer!Die(w) \/ Consumer!Revoke(1)
           \/ Consumer!Assign(1, w) \/ Consumer!Restart(w)
    PROVE  LoopTyped' /\ LoopInv' /\ RowEffect(w)
  <1>1. CASE Consumer!Die(w)
    <2>1. Consumer!Completion!Die(w) /\ UNCHANGED wfaults
      BY <1>1 DEF Consumer!Die
    <2> QED
      BY <1>1, <2>1, GroupMoves, LeaveMoves DEF RowEffect
  <1>2. CASE Consumer!FetchFails(w) \/ Consumer!CommitFails(w)
    <2>1. RowsStay
      BY <1>2 DEF Consumer!FetchFails, Consumer!CommitFails, Consumer!Completion!Fault,
                  RowsStay, Consumer!Completion!TypeOK
    <2> QED
      BY <1>2, <2>1, FetchFailsMoves, MoveOn DEF RowEffect
  <1>3. CASE Consumer!Revoke(1) \/ Consumer!Assign(1, w) \/ Consumer!Restart(w)
    <2>1. UNCHANGED Consumer!completionVars
      BY <1>3 DEF Consumer!Revoke, Consumer!Assign, Consumer!Restart
    <2>2. RowsStay
      BY <2>1 DEF RowsStay, Consumer!completionVars, Consumer!Completion!TypeOK
    <2> QED
      BY <1>3, <2>2, GroupMoves, MoveOn DEF RowEffect
  <1> QED
    BY <1>1, <1>2, <1>3

\* Every step of a worker.
LEMMA AllWorkerMoves ==
    ASSUME TypeOK, LoopInv, NEW w \in Workers,
           WorkerStep(w) \/ RestartWorker(w) \/ WorkerFault(w) \/ Assign(w)
    PROVE  WorkerOnly /\ WorkerMoves(w)
  <1>1. WorkerOnly /\ UNCHANGED topic
    BY DEF WorkerStep, RestartWorker, WorkerFault, Assign, WorkerOnly, operatorVars,
           outboxTable, publisherVars
  <1>2. /\ topic \in Seq(Events) /\ Consumer!Completion!TypeOK /\ LoopTyped
    BY ConsumerTypes DEF TypeOK, Outbox!TypeOK
  <1>3. CASE WorkerStep(w)
    <2>1. CASE CompletionsMissing(w)
      BY <1>1, <1>2, <2>1, MissingMoves DEF WorkerMoves, RowEffect
    <2>2. CASE Consumer!LoopStep(w)
      BY <1>1, <1>2, <2>2, LoopStepMoves DEF WorkerMoves
    <2>3. CASE /\ Consumer!StoreStep(w)
               /\ CompletionsExist \/ wpc[w] \notin Consumer!Completion!StatementSteps
      BY <1>1, <1>2, <2>3, StoreStepMoves DEF WorkerMoves, RowEffect
    <2> QED
      BY <1>3, <2>1, <2>2, <2>3 DEF WorkerStep
  <1>4. CASE RestartWorker(w) \/ Assign(w)
    <2>1. UNCHANGED completionsTable
      BY <1>4 DEF RestartWorker, Assign, Consumer!Restart, Consumer!Assign,
                  Consumer!completionVars, completionsTable
    <2> QED
      BY <1>1, <1>2, <1>4, <2>1, FaultStepMoves DEF RestartWorker, Assign, WorkerMoves
  <1>5. CASE WorkerFault(w)
    BY <1>1, <1>2, <1>5, FaultStepMoves DEF WorkerFault, WorkerMoves
  <1> QED
    BY <1>1, <1>3, <1>4, <1>5

\* They keep the inductive invariant.
LEMMA WorkersIInv ==
    ASSUME IInv, NEW w \in Workers, WorkerOnly, WorkerMoves(w)
    PROVE  IInv'
  <1>1. Consumer!Completion!TypeOK'
    BY RowEffectTypes, ConsumerTypes
       DEF WorkerMoves, IInv, TypeOK, Outbox!TypeOK
  <1>2. TypeOK'
    <2>1. Outbox!TypeOK' /\ topic' \in Seq(Events)
      BY DEF IInv, TypeOK, WorkerOnly, Outbox!TypeOK
    <2>2. Consumer!TypeOK'
      <3>1. (topic \in Seq(Events) =>
              (Consumer!TypeOK <=> Consumer!Completion!TypeOK /\ LoopTyped))'
        BY ConsumerTypes, PTL
      <3> QED
        BY <1>1, <2>1, <3>1 DEF WorkerMoves
    <2>3. ~CompletionsExist' => \A e \in Events : status'[e] = "absent"
      BY DEF IInv, TypeOK, WorkerMoves, WorkerOnly, CompletionsExist, completionsTable
    <2> QED
      BY <2>1, <2>2, <2>3
         DEF IInv, TypeOK, WorkerOnly, LedgerExists, OutboxExists, CompletionsExist
  <1>3. PublisherInv' /\ TablesInv'
    BY DEF IInv, PublisherInv, TablesInv, WorkerOnly, Outbox!InTopic, OutboxExists
  <1>4. KnownInv'
    <2>1. ASSUME NEW e \in Events, Known(e)' PROVE Known(e)
      <3>1. ASSUME NEW v \in Workers, wpc'[v] # "idle", job'[v] = e
            PROVE  Known(e)
        <4>1. CASE wpc[v] # "idle" /\ job[v] = e
          BY <4>1 DEF Known
        <4>2. CASE v = w /\ Begins(w)
          BY <3>1, <4>2
             DEF Begins, Known, Consumer!Completion!Start, Consumer!Completion!TypeOK,
                 IInv, TypeOK, Consumer!TypeOK
        <4>3. CASE v # w /\ Begins(w)
          BY <3>1, <4>1, <4>3
             DEF Begins, Consumer!Completion!Start, Consumer!Completion!TypeOK,
                 IInv, TypeOK, Consumer!TypeOK
        <4>4. CASE RowMoves(w) \/ RowsStay
          BY <3>1, <4>1, <4>4 DEF RowMoves, RowsStay
        <4> QED
          BY <4>1, <4>2, <4>3, <4>4 DEF WorkerMoves, RowEffect
      <3> QED
        BY <2>1, <3>1 DEF Known, WorkerOnly, Outbox!InTopic
    <2> QED
      BY <2>1 DEF IInv, KnownInv, WorkerOnly
  <1>5. SentInv'
    <2>1. /\ calls \in [Events -> Nat] /\ job \in [Workers -> Events]
          /\ wpc \in [Workers ->
                Consumer!Completion!StatementSteps \cup {"idle", "deliver", "returned"}]
      BY DEF IInv, TypeOK, Consumer!TypeOK, Consumer!Completion!TypeOK
    <2>2. \A e \in Events : calls[e] > 0 => calls'[e] > 0
      BY <2>1 DEF WorkerMoves, RowEffect, RowMoves, SendsOrSettles, Begins, RowsStay,
                  Consumer!Completion!Start, Consumer!Completion!history
    <2>3. ASSUME NEW v \in Workers, wpc'[v] = "mark_processed"
          PROVE  calls'[job'[v]] > 0
      <3>1. CASE RowMoves(w)
        BY <2>1, <2>2, <2>3, <3>1 DEF RowMoves, IInv, SentInv
      <3>2. CASE Begins(w) \/ RowsStay
        BY <2>1, <2>2, <2>3, <3>2
           DEF Begins, RowsStay, Consumer!Completion!Start, IInv, SentInv
      <3> QED
        BY <3>1, <3>2 DEF WorkerMoves, RowEffect
    <2> QED
      BY <2>3 DEF SentInv
  <1> QED
    BY <1>2, <1>3, <1>4, <1>5 DEF IInv, WorkerMoves

--------------------------------------------------------------------------------
(* The publishers' and AcceptEvent's steps *)

\* The worker does not see the topic grow until it polls.
LEMMA TopicGrows ==
    ASSUME IInv, UNCHANGED consumerVars,
           UNCHANGED topic \/ \E e \in Events : topic' = Append(topic, e)
    PROVE  /\ topic' \in Seq(Events) /\ Consumer!TypeOK' /\ LoopInv' /\ SentInv'
           /\ \A e \in Events : Outbox!InTopic(e) => Outbox!InTopic(e)'
  <1>1. /\ topic \in Seq(Events) /\ Consumer!Completion!TypeOK /\ LoopTyped
    BY ConsumerTypes DEF IInv, TypeOK, Outbox!TypeOK
  <1>2. /\ topic' \in Seq(Events) /\ Len(topic) \in Nat /\ Len(topic') \in Nat
        /\ Len(topic) <= Len(topic')
        /\ \A e \in Events : Outbox!InTopic(e) => Outbox!InTopic(e)'
    BY <1>1, AppendTopic DEF Outbox!InTopic
  <1>3. Consumer!Completion!TypeOK' /\ LoopTyped'
    BY <1>1 DEF consumerVars, completionsTable, workerVars, LoopTyped,
                Consumer!Completion!TypeOK
  <1>4. Consumer!TypeOK'
    <2>1. (topic \in Seq(Events) =>
            (Consumer!TypeOK <=> Consumer!Completion!TypeOK /\ LoopTyped))'
      BY ConsumerTypes, PTL
    <2> QED
      BY <1>2, <1>3, <2>1
  <1>5. LoopInv'
    <2>1. committed[1] \in Nat /\ \A w \in Workers : position[w][1] \in Nat
      BY <1>1 DEF LoopTyped
    <2> QED
      BY <1>2, <2>1 DEF IInv, LoopInv, Working, consumerVars, workerVars
  <1>6. SentInv'
    BY DEF IInv, SentInv, consumerVars, workerVars
  <1> QED
    BY <1>2, <1>4, <1>5, <1>6

\* Every step of a publisher.
LEMMA AllPublisherMoves ==
    ASSUME IInv, NEW p \in Publishers,
           PublisherStep(p) \/ RestartPublisher(p) \/ PublisherFault(p)
    PROVE  PublisherMoves(p) /\ UNCHANGED <<operatorVars, consumerVars>>
  <1>1. Outbox!TypeOK /\ PublisherInv
    BY DEF IInv, TypeOK
  <1>2. UNCHANGED <<operatorVars, consumerVars>>
    BY DEF PublisherStep, RestartPublisher, PublisherFault
  <1>3. CASE Outbox!LoopStep(p) \/ Outbox!LoopFails(p)
    BY <1>1, <1>2, <1>3, LoopMoves, FaultMoves
  <1>4. CASE OutboxMissing(p)
    <2>1. /\ Outbox!Continue(p, "sleep", "outbox_publish_failed")
          /\ "outbox_publish_failed" \in Outbox!Messages
          /\ UNCHANGED <<outbox, rowId, lastId, topic, late, faults>>
      BY <1>4 DEF OutboxMissing, outboxTable, Outbox!Messages
    <2> QED
      BY <1>1, <1>2, <2>1, ContinueMoves DEF Outbox!TypeOK, PublisherMoves
  <1>5. CASE Outbox!Restart(p)
    BY <1>1, <1>2, <1>5 DEF Outbox!Restart, Outbox!rows, Outbox!kafka, Outbox!TypeOK,
                            PublisherMoves
  <1> QED
    BY <1>3, <1>4, <1>5 DEF PublisherStep, RestartPublisher, PublisherFault

\* They keep the inductive invariant.
LEMMA PublishersIInv ==
    ASSUME IInv, NEW p \in Publishers, PublisherMoves(p),
           UNCHANGED <<operatorVars, consumerVars>>
    PROVE  IInv'
  <1>1. /\ Outbox!TypeOK /\ row[p] \in Events
        /\ UNCHANGED <<ledger, schema, rollbacks, accepted, migrated>>
        /\ UNCHANGED <<wpc, job>> /\ UNCHANGED status
    BY DEF IInv, TypeOK, Outbox!TypeOK, operatorVars, consumerVars, workerVars,
           completionsTable
  <1>2. /\ topic' \in Seq(Events) /\ Consumer!TypeOK' /\ LoopInv' /\ SentInv'
        /\ \A e \in Events : Outbox!InTopic(e) => Outbox!InTopic(e)'
    BY <1>1, TopicGrows DEF PublisherMoves
  <1>3. TypeOK'
    BY <1>1, <1>2 DEF IInv, TypeOK, PublisherMoves, LedgerExists, OutboxExists,
                      CompletionsExist
  <1>4. ASSUME topic' = Append(topic, row[p]), row'[p] = row[p]
        PROVE  Outbox!InTopic(row[p])'
    <2>1. \A f \in Events : Outbox!InTopic(f)' <=> Outbox!InTopic(f) \/ f = row[p]
      BY <1>1, <1>4, AppendTopic DEF Outbox!TypeOK
    <2> QED
      BY <1>1, <1>4, <2>1 DEF Outbox!InTopic
  <1>5. PublisherInv'
    <2>1. ASSUME NEW e \in Events, outbox'[e] = "published"
          PROVE  Outbox!InTopic(e)'
      BY <1>2, <2>1 DEF IInv, PublisherInv, PublisherMoves
    <2>2. ASSUME NEW q \in Publishers, pc'[q] = "mark"
          PROVE  Outbox!InTopic(row[q])'
      <3>1. CASE q = p
        BY <1>4, <2>2, <3>1 DEF PublisherMoves
      <3>2. CASE q # p
        <4>1. pc[q] = "mark" /\ row'[q] = row[q]
          BY <2>2, <3>2 DEF PublisherMoves
        <4>2. row[q] \in Events /\ Outbox!InTopic(row[q])
          BY <1>1, <4>1 DEF IInv, PublisherInv, Outbox!TypeOK
        <4>3. \E i \in DOMAIN topic' : topic'[i] = row[q]
          BY <1>2, <4>2 DEF Outbox!InTopic
        <4> QED
          BY <4>1, <4>3 DEF Outbox!InTopic
      <3> QED
        BY <3>1, <3>2
    <2> QED
      BY <2>1, <2>2 DEF PublisherInv
  <1>6. TablesInv'
    BY <1>1 DEF IInv, TablesInv, PublisherMoves, OutboxExists, Outbox!TypeOK
  <1>7. KnownInv'
    <2>1. ASSUME NEW e \in Events, Known(e)' PROVE Known(e)
      <3>1. Outbox!InTopic(e)' => Known(e)
        <4>1. topic' = Append(topic, row[p]) =>
                (Outbox!InTopic(e)' => Outbox!InTopic(e) \/ e = row[p])
          BY <1>1, AppendTopic DEF Outbox!TypeOK
        <4>2. UNCHANGED topic => (Outbox!InTopic(e)' => Outbox!InTopic(e))
          BY DEF Outbox!InTopic
        <4> QED
          BY <4>1, <4>2 DEF PublisherMoves, Known
      <3>2. late'[e] > 0 => Known(e)
        BY DEF PublisherMoves, Known
      <3>3. outbox'[e] # "absent" => Known(e)
        BY DEF PublisherMoves, Known
      <3>4. ASSUME NEW q \in Publishers, pc'[q] \in {"produce", "mark"}, row'[q] = e
            PROVE  Known(e)
        BY <3>4 DEF PublisherMoves, Known
      <3> QED
        BY <1>1, <2>1, <3>1, <3>2, <3>3, <3>4 DEF Known
    <2> QED
      BY <1>1, <2>1 DEF IInv, KnownInv
  <1> QED
    BY <1>2, <1>3, <1>5, <1>6, <1>7 DEF IInv

\* A produce request that was given up arrives.
LEMMA LateAppendIInv ==
    ASSUME IInv, NEW e \in Events, LateAppend(e)
    PROVE  IInv'
  <1>1. /\ Outbox!TypeOK /\ late[e] > 0 /\ topic' = Append(topic, e)
        /\ late' = [late EXCEPT ![e] = @ - 1]
        /\ UNCHANGED <<outbox, rowId, lastId, pc, row, log, faults>>
        /\ UNCHANGED <<ledger, schema, rollbacks, accepted, migrated>>
        /\ UNCHANGED <<wpc, job>> /\ UNCHANGED status
        /\ UNCHANGED consumerVars
    BY DEF IInv, TypeOK, LateAppend, Outbox!LateAppend, Outbox!rows, operatorVars,
           consumerVars, workerVars, completionsTable
  <1>2. /\ topic' \in Seq(Events) /\ Consumer!TypeOK' /\ LoopInv' /\ SentInv'
        /\ \A f \in Events : Outbox!InTopic(f) => Outbox!InTopic(f)'
    BY <1>1, TopicGrows
  <1>3. Outbox!TypeOK'
    BY <1>1, <1>2 DEF Outbox!TypeOK
  <1>4. TypeOK'
    BY <1>1, <1>2, <1>3 DEF IInv, TypeOK, LedgerExists, OutboxExists, CompletionsExist
  <1>5. PublisherInv' /\ TablesInv'
    <2>1. ASSUME NEW q \in Publishers, pc[q] = "mark"
          PROVE  \E i \in DOMAIN topic' : topic'[i] = row[q]
      BY <1>1, <1>2, <2>1 DEF IInv, PublisherInv, Outbox!TypeOK, Outbox!InTopic
    <2> QED
      BY <1>1, <1>2, <2>1
         DEF IInv, PublisherInv, TablesInv, OutboxExists, Outbox!InTopic
  <1>6. KnownInv'
    <2>1. ASSUME NEW f \in Events, Known(f)' PROVE Known(f)
      <3>1. Outbox!InTopic(f)' => Outbox!InTopic(f) \/ f = e
        BY <1>1, AppendTopic DEF Outbox!TypeOK
      <3>2. late'[f] > 0 => late[f] > 0
        BY <1>1 DEF Outbox!TypeOK
      <3> QED
        BY <1>1, <2>1, <3>1, <3>2 DEF Known
    <2> QED
      BY <1>1, <2>1 DEF IInv, KnownInv
  <1> QED
    BY <1>2, <1>4, <1>5, <1>6 DEF IInv

\* AcceptEvent's rows.
LEMMA AcceptIInv ==
    ASSUME IInv, NEW e \in Events, Insert(e) \/ CommitInsert(e) \/ RollbackInsert(e)
    PROVE  IInv'
  <1>1. /\ Outbox!TypeOK /\ UNCHANGED <<schema, rollbacks, migrated>>
        /\ UNCHANGED <<topic, late, pc, row, log>>
        /\ UNCHANGED <<wpc, job>> /\ UNCHANGED status
        /\ UNCHANGED consumerVars
    BY DEF IInv, TypeOK, Insert, CommitInsert, RollbackInsert, Outbox!Insert,
           Outbox!CommitInsert, Outbox!RollbackInsert, Outbox!kafka,
           Outbox!Fault, operatorVars, consumerVars, workerVars, completionsTable
  <1>2. Consumer!TypeOK' /\ LoopInv' /\ SentInv'
    BY <1>1, TopicGrows
  <1>3. OutboxExists
    BY DEF IInv, TypeOK, Insert, CommitInsert, RollbackInsert,
           Outbox!CommitInsert, Outbox!RollbackInsert
  <1>4. CASE Insert(e) \/ RollbackInsert(e)
    <2>1. /\ UNCHANGED <<outbox, ledger, accepted>> /\ rowId' \in [Events -> Nat]
          /\ lastId' \in Nat /\ faults' \in Nat
      <3>1. CASE Insert(e)
        BY <1>1, <3>1 DEF Insert, Outbox!Insert, Outbox!TypeOK, operatorVars
      <3>2. CASE RollbackInsert(e)
        BY <1>1, <3>2 DEF RollbackInsert, Outbox!RollbackInsert, Outbox!Fault,
                          Outbox!TypeOK, operatorVars
      <3> QED
        BY <1>4, <3>1, <3>2
    <2>2. Outbox!TypeOK'
      BY <1>1, <2>1 DEF Outbox!TypeOK
    <2>3. TypeOK'
      BY <1>1, <1>2, <1>3, <2>1, <2>2
         DEF IInv, TypeOK, LedgerExists, OutboxExists, CompletionsExist
    <2>4. PublisherInv' /\ TablesInv' /\ KnownInv'
      BY <1>1, <2>1 DEF IInv, PublisherInv, TablesInv, OutboxExists, Outbox!InTopic,
                        KnownInv, Known
    <2> QED
      BY <1>2, <2>3, <2>4 DEF IInv
  <1>5. CASE CommitInsert(e)
    <2>1. /\ outbox' = [outbox EXCEPT ![e] = "pending"]
          /\ ledger' = [ledger EXCEPT ![e] = "accepted"]
          /\ accepted' = accepted \cup {e} /\ UNCHANGED <<rowId, lastId, faults>>
          /\ outbox[e] = "absent"
      BY <1>5 DEF CommitInsert, Outbox!CommitInsert
    <2>2. Outbox!TypeOK'
      BY <1>1, <2>1 DEF Outbox!TypeOK
    <2>3. TypeOK'
      BY <1>1, <1>2, <1>3, <2>1, <2>2
         DEF IInv, TypeOK, LedgerExists, OutboxExists, CompletionsExist
    <2>4. PublisherInv'
      BY <1>1, <2>1 DEF IInv, PublisherInv, Outbox!InTopic, Outbox!TypeOK
    <2>5. TablesInv'
      BY <1>1, <1>3, <2>1 DEF IInv, TypeOK, TablesInv, OutboxExists, Outbox!TypeOK
    <2>6. KnownInv'
      BY <1>1, <2>1 DEF IInv, TypeOK, KnownInv, Known, Outbox!TypeOK, Outbox!InTopic
    <2> QED
      BY <1>2, <2>3, <2>4, <2>5, <2>6 DEF IInv
  <1> QED
    BY <1>4, <1>5

--------------------------------------------------------------------------------
(* The operator's steps *)

\* What a migration leaves alone: the topic and the processes.
LEMMA ProcessesStay ==
    ASSUME IInv, UNCHANGED <<topic, publisherVars, workerVars>>
    PROVE  /\ UNCHANGED <<late, pc, row, log, faults, wpc, job, calls>>
           /\ LoopInv' /\ SentInv'
           /\ \A e \in Events : Outbox!InTopic(e)' <=> Outbox!InTopic(e)
           /\ \A p \in Publishers : pc[p] = "mark" => Outbox!InTopic(row[p])'
  <1>1. /\ UNCHANGED <<late, pc, row, log, faults, wpc, job, calls>>
        /\ UNCHANGED <<committed, position, start, todo, cursor, phase, topic>>
    BY DEF publisherVars, workerVars
  <1>2. LoopInv' /\ SentInv'
    BY <1>1 DEF IInv, LoopInv, Working, SentInv
  <1> QED
    BY <1>1, <1>2 DEF IInv, PublisherInv, Outbox!InTopic

\* goose up.
LEMMA UpIInv ==
    ASSUME IInv, UpLedger \/ UpAccepted \/ UpCompletions
    PROVE  IInv'
  <1>1. /\ UNCHANGED <<rollbacks, accepted, outbox, rowId, lastId, topic, status>>
        /\ UNCHANGED <<publisherVars, workerVars>> /\ UNCHANGED consumerVars
    BY DEF UpLedger, UpAccepted, UpCompletions, outboxTable, consumerVars,
           completionsTable
  <1>2. /\ UNCHANGED <<late, pc, row, log, faults, wpc, job, calls>>
        /\ LoopInv' /\ SentInv'
        /\ \A e \in Events : Outbox!InTopic(e)' <=> Outbox!InTopic(e)
        /\ \A p \in Publishers : pc[p] = "mark" => Outbox!InTopic(row[p])'
    BY <1>1, ProcessesStay
  <1>3. Outbox!TypeOK' /\ Consumer!TypeOK'
    BY <1>1, <1>2, TopicGrows DEF IInv, TypeOK, Outbox!TypeOK
  <1>4. PublisherInv'
    BY <1>1, <1>2 DEF IInv, PublisherInv
  <1>5. CASE UpLedger \/ UpCompletions
    <2>1. /\ UNCHANGED <<ledger, migrated>> /\ schema' = schema + 1
          /\ schema \in {0, 2}
      BY <1>5 DEF UpLedger, UpCompletions
    <2>2. TypeOK'
      BY <1>1, <1>3, <2>1
         DEF IInv, TypeOK, LedgerExists, OutboxExists, CompletionsExist
    <2>3. TablesInv' /\ KnownInv'
      BY <1>1, <1>2, <2>1 DEF IInv, TablesInv, OutboxExists, KnownInv, Known
    <2> QED
      BY <1>2, <1>4, <2>2, <2>3 DEF IInv
  <1>6. CASE UpAccepted
    <2>1. /\ schema = 1 /\ schema' = 2
          /\ ledger' = [e \in Events |->
                IF ledger[e] = "processed" THEN "accepted" ELSE ledger[e]]
          /\ migrated' = migrated \cup {e \in Events : ledger[e] = "processed"}
      BY <1>6 DEF UpAccepted, Rename
    <2>2. /\ ~OutboxExists /\ OutboxExists'
          /\ \A e \in Events : outbox[e] = "absent" /\ ledger[e] # "accepted"
          /\ \A e \in Events : ledger[e] # "absent" => e \in accepted
      BY <2>1 DEF IInv, TypeOK, TablesInv, KnownInv, Known, OutboxExists
    <2>3. TypeOK'
      BY <1>1, <1>3, <2>1, <2>2
         DEF IInv, TypeOK, LedgerExists, OutboxExists, CompletionsExist
    <2>4. TablesInv'
      BY <1>1, <2>1, <2>2 DEF IInv, TablesInv
    <2>5. KnownInv'
      BY <1>1, <1>2, <2>1 DEF IInv, KnownInv, Known
    <2> QED
      BY <1>2, <1>4, <2>3, <2>4, <2>5 DEF IInv
  <1> QED
    BY <1>5, <1>6

\* goose down drops a table with its rows, but not what is under way.
LEMMA DownIInv ==
    ASSUME IInv, DownCompletions \/ DownAccepted \/ DownLedger
    PROVE  IInv'
  <1>1. /\ UNCHANGED <<accepted, migrated, topic>>
        /\ UNCHANGED <<publisherVars, workerVars>> /\ rollbacks' = rollbacks + 1
    BY DEF DownCompletions, DownAccepted, DownLedger, RollBack, consumerVars
  <1>2. /\ UNCHANGED <<late, pc, row, log, faults, wpc, job, calls>>
        /\ LoopInv' /\ SentInv'
        /\ \A e \in Events : Outbox!InTopic(e)' <=> Outbox!InTopic(e)
        /\ \A p \in Publishers : pc[p] = "mark" => Outbox!InTopic(row[p])'
    BY <1>1, ProcessesStay
  <1>3. CASE DownCompletions
    <2>1. /\ schema = 3 /\ schema' = 2 /\ UNCHANGED <<ledger, outbox, rowId, lastId>>
          /\ status' = [e \in Events |-> "absent"]
          /\ attempts' = [e \in Events |-> 0]
      BY <1>3 DEF DownCompletions, RollBack, outboxTable
    <2>2. Outbox!TypeOK' /\ topic \in Seq(Events) /\ topic' \in Seq(Events)
      BY <1>1, <1>2, <2>1 DEF IInv, TypeOK, Outbox!TypeOK
    <2>3. Consumer!TypeOK'
      <3>1. Consumer!Completion!TypeOK /\ LoopTyped
        BY <2>2, ConsumerTypes DEF IInv, TypeOK
      <3>2. Consumer!Completion!TypeOK' /\ LoopTyped'
        BY <1>1, <2>1, <3>1 DEF workerVars, LoopTyped, Consumer!Completion!TypeOK
      <3>3. (topic \in Seq(Events) =>
              (Consumer!TypeOK <=> Consumer!Completion!TypeOK /\ LoopTyped))'
        BY ConsumerTypes, PTL
      <3> QED
        BY <2>2, <3>2, <3>3
    <2>4. TypeOK'
      BY <1>1, <2>1, <2>2, <2>3
         DEF IInv, TypeOK, LedgerExists, OutboxExists, CompletionsExist
    <2>5. PublisherInv' /\ TablesInv' /\ KnownInv'
      BY <1>1, <1>2, <2>1
         DEF IInv, PublisherInv, TablesInv, OutboxExists, KnownInv, Known
    <2> QED
      BY <1>2, <2>4, <2>5 DEF IInv
  <1>4. CASE DownAccepted \/ DownLedger
    <2>1. UNCHANGED consumerVars /\ UNCHANGED status
      BY <1>4 DEF DownAccepted, DownLedger, consumerVars, completionsTable
    <2>2. Consumer!TypeOK'
      BY <1>1, <2>1, TopicGrows
    <2>3. CASE DownAccepted
      <3>1. /\ schema = 2 /\ schema' = 1
            /\ outbox' = [e \in Events |-> "absent"]
            /\ rowId' = [e \in Events |-> 0] /\ lastId' = 0
            /\ ledger' = [e \in Events |->
                  IF ledger[e] = "accepted" THEN "processed" ELSE ledger[e]]
        BY <2>3 DEF DownAccepted, RollBack, Rename
      <3>2. Outbox!TypeOK'
        BY <1>1, <1>2, <3>1 DEF IInv, TypeOK, Outbox!TypeOK
      <3>3. TypeOK'
        BY <1>1, <2>1, <2>2, <3>1, <3>2
           DEF IInv, TypeOK, LedgerExists, OutboxExists, CompletionsExist
      <3>4. PublisherInv' /\ TablesInv' /\ KnownInv'
        BY <1>1, <1>2, <3>1 DEF IInv, TypeOK, PublisherInv, TablesInv, KnownInv, Known
      <3> QED
        BY <1>2, <3>3, <3>4 DEF IInv
    <2>4. CASE DownLedger
      <3>1. /\ schema = 1 /\ schema' = 0 /\ UNCHANGED <<outbox, rowId, lastId>>
            /\ ledger' = [e \in Events |-> "absent"]
        BY <2>4 DEF DownLedger, RollBack, outboxTable
      <3>2. Outbox!TypeOK'
        BY <1>1, <1>2, <3>1 DEF IInv, TypeOK, Outbox!TypeOK
      <3>3. TypeOK'
        BY <1>1, <2>1, <2>2, <3>1, <3>2
           DEF IInv, TypeOK, LedgerExists, OutboxExists, CompletionsExist
      <3>4. PublisherInv' /\ TablesInv' /\ KnownInv'
        BY <1>1, <1>2, <3>1
           DEF IInv, PublisherInv, TablesInv, OutboxExists, KnownInv, Known
      <3> QED
        BY <1>2, <3>3, <3>4 DEF IInv
    <2> QED
      BY <1>4, <2>3, <2>4
  <1> QED
    BY <1>3, <1>4

--------------------------------------------------------------------------------
(* The theorems *)

\* The initial states.
LEMMA InitIInv ==
    ASSUME Init
    PROVE  IInv
  <1>1. /\ Outbox!Init /\ Consumer!Init /\ schema = 1 /\ rollbacks = 0
        /\ ledger \in [Events -> {"absent", "processed"}]
        /\ accepted = {e \in Events : ledger[e] # "absent"} /\ migrated = {}
    BY DEF Init
  <1>2. Outbox!TypeOK
    BY <1>1, NoRowIsEvent DEF Outbox!Init, Outbox!TypeOK, Outbox!Messages
  <1>3. Consumer!Completion!TypeOK
    BY <1>1, NoRowIsEvent
       DEF Consumer!Init, Consumer!Completion!Init, Consumer!Completion!TypeOK
  <1>4. LoopTyped /\ topic = <<>>
    BY <1>1, OnePartition DEF Outbox!Init, Consumer!Init, LoopTyped
  <1>5. TypeOK
    <2>1. Consumer!TypeOK
      BY <1>3, <1>4, ConsumerTypes
    <2> QED
      BY <1>1, <1>2, <2>1
         DEF TypeOK, Outbox!Init, Consumer!Init, Consumer!Completion!Init,
             LedgerExists, OutboxExists, CompletionsExist
  <1>6. PublisherInv /\ TablesInv
    BY <1>1 DEF PublisherInv, TablesInv, Outbox!Init, OutboxExists
  <1>7. KnownInv
    BY <1>1 DEF KnownInv, Known, Outbox!Init, Outbox!InTopic, Consumer!Init,
                Consumer!Completion!Init
  <1>8. LoopInv
    <2>1. Len(topic) = 0 /\ committed[1] = 0
          /\ \A w \in Workers : /\ position[w][1] = 0 /\ todo[w] = {}
                                /\ phase[w] = "poll"
      BY <1>1, <1>4, OnePartition DEF Consumer!Init
    <2> QED
      BY <2>1 DEF LoopInv, Working
  <1>9. SentInv
    BY <1>1 DEF SentInv, Consumer!Init, Consumer!Completion!Init
  <1> QED
    BY <1>5, <1>6, <1>7, <1>8, <1>9 DEF IInv

\* Every step.
LEMMA NextIInv ==
    ASSUME IInv, [Next]_vars
    PROVE  IInv'
  <1>1. ASSUME NEW e \in Events,
               Insert(e) \/ CommitInsert(e) \/ RollbackInsert(e) \/ LateAppend(e)
        PROVE  IInv'
    BY <1>1, AcceptIInv, LateAppendIInv
  <1>2. ASSUME NEW p \in Publishers,
               PublisherStep(p) \/ RestartPublisher(p) \/ PublisherFault(p)
        PROVE  IInv'
    BY <1>2, AllPublisherMoves, PublishersIInv
  <1>3. ASSUME NEW w \in Workers,
               WorkerStep(w) \/ RestartWorker(w) \/ WorkerFault(w) \/ Assign(w)
        PROVE  IInv'
    <2>1. WorkerOnly /\ WorkerMoves(w)
      BY <1>3, AllWorkerMoves DEF IInv
    <2> QED
      BY <2>1, WorkersIInv
  <1>4. CASE UNCHANGED vars
    <2>1. /\ UNCHANGED <<ledger, schema, rollbacks, accepted, migrated>>
          /\ UNCHANGED <<outbox, rowId, lastId, topic, status>>
          /\ UNCHANGED <<publisherVars, workerVars>> /\ UNCHANGED consumerVars
      BY <1>4 DEF vars, operatorVars, outboxTable, consumerVars, completionsTable
    <2>2. /\ UNCHANGED <<late, pc, row, log, faults, wpc, job, calls>>
          /\ LoopInv' /\ SentInv'
          /\ \A e \in Events : Outbox!InTopic(e)' <=> Outbox!InTopic(e)
          /\ \A p \in Publishers : pc[p] = "mark" => Outbox!InTopic(row[p])'
      BY <2>1, ProcessesStay
    <2>3. Outbox!TypeOK' /\ Consumer!TypeOK'
      BY <2>1, <2>2, TopicGrows DEF IInv, TypeOK, Outbox!TypeOK
    <2>4. TypeOK'
      BY <2>1, <2>3 DEF IInv, TypeOK, LedgerExists, OutboxExists, CompletionsExist
    <2> QED
      BY <2>1, <2>2, <2>4
         DEF IInv, PublisherInv, TablesInv, OutboxExists, KnownInv, Known
  <1> QED
    BY <1>1, <1>2, <1>3, <1>4, UpIInv, DownIInv DEF Next

\* The inductive invariant holds in every state the pipeline reaches.
THEOREM Inductive == Spec => []IInv
  <1>1. Init => IInv
    BY InitIInv
  <1>2. IInv /\ [Next]_vars => IInv'
    BY NextIInv
  <1> QED
    BY <1>1, <1>2, PTL DEF Spec

\* The rows, offsets and frames keep their types through every migration, and
\* the tables hold only what the schema allows: no row without its table, no
\* outbox row whose event is not accepted.
THEOREM TypeCorrect == Spec => []TypeOK
  <1>1. IInv => TypeOK
    BY DEF IInv
  <1> QED
    BY <1>1, Inductive, PTL

\* An accepted event that is neither pending in the outbox nor on the topic was
\* taken over by migration 2: no crash, late commit, lost mark or second
\* publisher ever strands one.
THEOREM OnlyMigrationStrands == Spec => []StrandedOnlyByMigration
  <1>1. IInv => StrandedOnlyByMigration
    BY DEF IInv, TypeOK, Outbox!TypeOK, PublisherInv, TablesInv,
           StrandedOnlyByMigration
  <1> QED
    BY <1>1, Inductive, PTL

--------------------------------------------------------------------------------
(* Any number of workers: nothing is sent or settled out of turn *)

\* A job that was sent is one of an accepted event, and what is marked as processed
\* was sent.
SentWasAccepted ==
    \A e \in Events :
        /\ calls[e] > 0 => e \in accepted
        /\ status[e] = "processed" => calls[e] > 0

\* How a step of a worker moves calls and processed rows.
LEMMA WorkerSends ==
    ASSUME IInv, NEW w \in Workers, WorkerOnly, RowEffect(w)
    PROVE  SendsOrSettles(w)
  BY DEF RowEffect, RowMoves, Begins, RowsStay, SendsOrSettles,
         Consumer!Completion!Start, Consumer!Completion!table,
         Consumer!Completion!history

\* Every step.
LEMMA NextSends ==
    ASSUME IInv, SentWasAccepted, [Next]_vars
    PROVE  SentWasAccepted'
  <1>1. /\ calls \in [Events -> Nat] /\ job \in [Workers -> Events]
    BY DEF IInv, TypeOK, Consumer!TypeOK, Consumer!Completion!TypeOK
  <1>2. ASSUME NEW w \in Workers,
               WorkerStep(w) \/ RestartWorker(w) \/ WorkerFault(w) \/ Assign(w)
        PROVE  SentWasAccepted'
    <2>1. SendsOrSettles(w) /\ UNCHANGED accepted /\ job[w] \in Events
      BY <1>1, <1>2, AllWorkerMoves, WorkerSends DEF IInv, WorkerMoves, WorkerOnly
    <2>2. CASE /\ UNCHANGED calls
               /\ \A e \in Events : status'[e] = "processed" <=> status[e] = "processed"
      BY <2>1, <2>2 DEF SentWasAccepted
    <2>3. CASE /\ wpc[w] = "deliver"
               /\ calls' = [calls EXCEPT ![job[w]] = @ + 1]
               /\ UNCHANGED status
      <3>1. job[w] \in accepted
        BY <2>1, <2>3 DEF IInv, KnownInv, Known
      <3> QED
        BY <1>1, <2>1, <2>3, <3>1 DEF SentWasAccepted
    <2>4. CASE /\ wpc[w] = "mark_processed"
               /\ UNCHANGED calls
               /\ \A e \in Events :
                     status'[e] = "processed" <=> status[e] = "processed" \/ e = job[w]
      <3>1. calls[job[w]] > 0
        BY <2>4 DEF IInv, SentInv
      <3> QED
        BY <2>1, <2>4, <3>1 DEF SentWasAccepted
    <2> QED
      BY <2>1, <2>2, <2>3, <2>4 DEF SendsOrSettles
  <1>3. ASSUME UNCHANGED <<calls, status>>, accepted \subseteq accepted'
        PROVE  SentWasAccepted'
    BY <1>3 DEF SentWasAccepted
  <1>4. CASE DownCompletions
    BY <1>4 DEF DownCompletions, workerVars, SentWasAccepted
  <1>5. CASE \/ \E e \in Events :
                    Insert(e) \/ CommitInsert(e) \/ RollbackInsert(e) \/ LateAppend(e)
             \/ \E p \in Publishers :
                    PublisherStep(p) \/ RestartPublisher(p) \/ PublisherFault(p)
             \/ UpLedger \/ UpAccepted \/ UpCompletions \/ DownAccepted \/ DownLedger
             \/ UNCHANGED vars
    <2>1. UNCHANGED consumerVars /\ accepted \subseteq accepted'
      BY <1>5 DEF Insert, CommitInsert, RollbackInsert, LateAppend, PublisherStep,
                  RestartPublisher, PublisherFault, UpLedger, UpAccepted,
                  UpCompletions, DownAccepted, DownLedger, vars, operatorVars
    <2> QED
      BY <1>3, <2>1 DEF consumerVars, workerVars, completionsTable
  <1> QED
    BY <1>2, <1>4, <1>5 DEF Next

\* Whatever the group and the migrations do, a job goes downstream only for an
\* event with a committed ledger row, and is marked as processed only once sent.
THEOREM OnlyAcceptedIsSent == Spec => []SentWasAccepted
  <1>1. Init => SentWasAccepted
    BY DEF Init, SentWasAccepted, Consumer!Init, Consumer!Completion!Init
  <1>2. IInv /\ SentWasAccepted /\ [Next]_vars => SentWasAccepted'
    BY NextSends
  <1> QED
    BY <1>1, <1>2, Inductive, PTL DEF Spec

--------------------------------------------------------------------------------
(* One worker: the pipeline implements Delivery *)

\* The one worker of the deployment.
Alone == \E w \in Workers : Workers = {w}

\* A lone worker sends no job whose row is processed.
LEMMA UnsettledInductive ==
    ASSUME Alone, IInv, UnsettledInv, [Next]_vars
    PROVE  UnsettledInv'
  <1>1. ASSUME NEW w \in Workers,
               WorkerStep(w) \/ RestartWorker(w) \/ WorkerFault(w) \/ Assign(w)
        PROVE  UnsettledInv'
    <2>1. RowEffect(w)
      BY <1>1, AllWorkerMoves DEF IInv, WorkerMoves
    <2>2. wpc'[w] = "deliver" => status'[job'[w]] # "processed"
      BY <2>1 DEF RowEffect, RowMoves, Begins, RowsStay, Consumer!Completion!Start,
                  UnsettledInv, IInv, TypeOK, Consumer!TypeOK, Consumer!Completion!TypeOK
    <2> QED
      BY <2>2 DEF Alone, UnsettledInv
  <1>2. CASE UNCHANGED <<wpc, job, status>>
    BY <1>2 DEF UnsettledInv
  <1>3. CASE DownCompletions
    BY <1>3 DEF DownCompletions, workerVars, UnsettledInv, IInv, TypeOK, Consumer!TypeOK,
                Consumer!Completion!TypeOK
  <1>4. ASSUME UNCHANGED consumerVars PROVE UNCHANGED <<wpc, job, status>>
    BY <1>4 DEF consumerVars, workerVars, completionsTable
  <1>5. CASE \/ \E e \in Events :
                    Insert(e) \/ CommitInsert(e) \/ RollbackInsert(e) \/ LateAppend(e)
             \/ \E p \in Publishers :
                    PublisherStep(p) \/ RestartPublisher(p) \/ PublisherFault(p)
             \/ UpLedger \/ UpAccepted \/ UpCompletions \/ DownAccepted \/ DownLedger
             \/ UNCHANGED vars
    <2>1. UNCHANGED consumerVars
      BY <1>5 DEF Insert, CommitInsert, RollbackInsert, LateAppend, PublisherStep,
                  RestartPublisher, PublisherFault, UpLedger, UpAccepted,
                  UpCompletions, DownAccepted, DownLedger, vars
    <2> QED
      BY <1>2, <1>4, <2>1
  <1> QED
    BY <1>1, <1>3, <1>5 DEF Next

\* The events that Delivery takes for settled.
Settled == {e \in Events : status[e] = "processed"}

\* Delivery's steps, in the pipeline's variables.
Stutters == UNCHANGED <<accepted, Settled, calls, rollbacks>>

LEMMA DeliverySteps ==
    /\ Stutters => [D!Next]_(D!vars)
    /\ \A e \in Events : D!Accept(e) \/ D!Send(e) \/ D!Settle(e) => [D!Next]_(D!vars)
    /\ D!Forget => [D!Next]_(D!vars)
  BY DEF Stutters, Settled, D!Next, D!vars

\* A worker's step stutters, sends or settles.
LEMMA WorkerImplements ==
    ASSUME IInv, UnsettledInv, NEW w \in Workers, WorkerOnly, RowEffect(w)
    PROVE  Stutters \/ \E e \in Events : D!Send(e) \/ D!Settle(e)
  <1>1. /\ UNCHANGED <<accepted, rollbacks>> /\ job[w] \in Events
        /\ calls \in [Events -> Nat]
    BY DEF WorkerOnly, IInv, TypeOK, Consumer!TypeOK, Consumer!Completion!TypeOK
  <1>2. CASE Begins(w) \/ RowsStay
    <2>1. UNCHANGED <<calls, status>>
      BY <1>2 DEF Begins, RowsStay, Consumer!Completion!Start, Consumer!Completion!table,
                  Consumer!Completion!history
    <2> QED
      BY <1>1, <2>1 DEF Stutters, Settled
  <1>3. CASE /\ UNCHANGED calls
             /\ \A e \in Events : status'[e] = "processed" <=> status[e] = "processed"
    <2>1. Settled' = Settled
      BY <1>3 DEF Settled
    <2> QED
      BY <1>1, <1>3, <2>1 DEF Stutters
  <1>4. CASE /\ wpc[w] = "deliver"
             /\ calls' = [calls EXCEPT ![job[w]] = @ + 1]
             /\ UNCHANGED status
    <2>1. job[w] \in accepted /\ status[job[w]] # "processed"
      BY <1>1, <1>4 DEF IInv, KnownInv, Known, UnsettledInv
    <2>2. PICK j \in Events : j = job[w]
      BY <1>1
    <2>3. D!Send(j)
      BY <1>1, <1>4, <2>1, <2>2 DEF D!Send
    <2> QED
      BY <2>3
  <1>5. CASE /\ wpc[w] = "mark_processed" /\ UNCHANGED calls
             /\ \A e \in Events :
                   status'[e] = "processed" <=> status[e] = "processed" \/ e = job[w]
    <2>1. calls[job[w]] > 0
      BY <1>5 DEF IInv, SentInv
    <2>2. PICK j \in Events : j = job[w]
      BY <1>1
    <2>3. {e \in Events : status'[e] = "processed"} =
            {e \in Events : status[e] = "processed"} \cup {j}
      BY <1>1, <1>5, <2>2
    <2>4. D!Settle(j)
      BY <1>1, <1>5, <2>1, <2>2, <2>3 DEF D!Settle
    <2> QED
      BY <2>4
  <1> QED
    BY <1>2, <1>3, <1>4, <1>5 DEF RowEffect, RowMoves, SendsOrSettles

\* A migration rolled back forgets what was settled.
LEMMA DownImplements ==
    ASSUME IInv, DownCompletions \/ DownAccepted \/ DownLedger
    PROVE  D!Forget
  <1>1. /\ UNCHANGED <<accepted, calls>> /\ rollbacks' = rollbacks + 1
        /\ \A e \in Events : status'[e] = "absent"
    <2>1. CASE DownCompletions
      BY <2>1 DEF DownCompletions, RollBack, workerVars
    <2>2. CASE DownAccepted \/ DownLedger
      BY <2>2 DEF DownAccepted, DownLedger, RollBack, consumerVars, completionsTable,
                  workerVars, IInv, TypeOK, CompletionsExist
    <2> QED
      BY <2>1, <2>2
  <1> QED
    BY <1>1 DEF D!Forget

\* Every step of the pipeline is one of Delivery or none.
LEMMA StepImplements ==
    ASSUME IInv, UnsettledInv, [Next]_vars
    PROVE  [D!Next]_(D!vars)
  <1>1. ASSUME NEW w \in Workers,
               WorkerStep(w) \/ RestartWorker(w) \/ WorkerFault(w) \/ Assign(w)
        PROVE  Stutters \/ \E e \in Events : D!Send(e) \/ D!Settle(e)
    BY <1>1, AllWorkerMoves, WorkerImplements DEF IInv, WorkerMoves
  <1>2. CASE DownCompletions \/ DownAccepted \/ DownLedger
    BY <1>2, DownImplements, DeliverySteps
  <1>3. ASSUME NEW e \in Events, CommitInsert(e)
        PROVE  D!Accept(e) \/ Stutters
    BY <1>3 DEF CommitInsert, consumerVars, workerVars, completionsTable, D!Accept,
                Stutters, Settled
  <1>4. CASE \/ \E e \in Events : Insert(e) \/ RollbackInsert(e) \/ LateAppend(e)
             \/ \E p \in Publishers :
                    PublisherStep(p) \/ RestartPublisher(p) \/ PublisherFault(p)
             \/ UpLedger \/ UpAccepted \/ UpCompletions \/ UNCHANGED vars
    <2>1. UNCHANGED consumerVars /\ UNCHANGED <<accepted, rollbacks>>
      BY <1>4 DEF Insert, RollbackInsert, LateAppend, PublisherStep, RestartPublisher,
                  PublisherFault, UpLedger, UpAccepted, UpCompletions, operatorVars, vars,
                  consumerVars
    <2> QED
      BY <2>1, DeliverySteps
         DEF consumerVars, workerVars, completionsTable, Stutters, Settled
  <1> QED
    BY <1>1, <1>2, <1>3, <1>4, DeliverySteps DEF Next

\* With one worker the whole pipeline does what Delivery promises, through crashes
\* of every process, late and repeated records, lost partitions and migrations.
THEOREM PipelineDelivers ==
    ASSUME Alone
    PROVE  Spec => ImplementsDelivery
  <1>1. Init => UnsettledInv /\ D!Init
    <2>1. ASSUME Init
          PROVE  /\ accepted \subseteq Events /\ rollbacks = 0
                 /\ status = [e \in Events |-> "absent"]
                 /\ calls = [e \in Events |-> 0]
                 /\ wpc = [w \in Workers |-> "idle"]
      BY <2>1 DEF Init, Consumer!Init, Consumer!Completion!Init
    <2> QED
      BY <2>1 DEF UnsettledInv, D!Init
  <1>2. IInv /\ UnsettledInv /\ [Next]_vars => UnsettledInv'
    BY UnsettledInductive
  <1>3. IInv /\ UnsettledInv /\ [Next]_vars => [D!Next]_(D!vars)
    BY StepImplements
  <1> QED
    BY <1>1, <1>2, <1>3, Inductive, PTL DEF Spec, ImplementsDelivery, D!Spec

--------------------------------------------------------------------------------
(* The worker's commits, on a growing topic and under any schema *)

\* The service has answered for good.
Final(e) == answered[e] \cap Consumer!Completion!FinalMeanings # {}

\* What survives the loss of a row: its status, a mark and a verdict have an answer
\* behind them.
FrameBacked(w) ==
    /\ wpc[w] = "mark_processed" => "delivered" \in answered[job[w]]
    /\ wpc[w] = "mark_failed" /\ outcome[w] = "permanent" => Final(job[w])
    /\ wpc[w] = "returned" /\ verdict[w] => Final(job[w])

BackedInv ==
    /\ \A e \in Events : status[e] = "processed" => "delivered" \in answered[e]
    /\ \A w \in Workers : FrameBacked(w)

\* A record that was handled is there, and its job has a final answer.
HandledInv ==
    \A o \in handled[1] : o + 1 \in DOMAIN topic /\ Final(topic[o + 1])

\* A worker's batch: what lies just behind the cursor was handled, and the record in
\* hand is the one at the cursor.
BatchInv(w) ==
    /\ Working(w) =>
          /\ 1 \notin todo[w]
          /\ start[w][1] <= cursor[w]
          /\ cursor[w] > start[w][1] => cursor[w] - 1 \in handled[1]
    /\ phase[w] = "handling" => job[w] = topic[cursor[w] + 1]

\* While a worker owns the partition, nobody else has moved the committed offset.
OwnerInv(w) ==
    owner[1] = w =>
        /\ committed[1] <= position[w][1]
        /\ 1 \in todo[w] \/ Working(w) => committed[1] <= start[w][1]

CommitInv ==
    /\ BackedInv /\ HandledInv
    /\ committed[1] > 0 => committed[1] - 1 \in handled[1]
    /\ \A w \in Workers : BatchInv(w) /\ OwnerInv(w)

\* What DeliverJob calls done has been delivered, and nothing documented asks for
\* another attempt at what it calls permanent.
LEMMA ResponseMeans ==
    ASSUME NEW r \in Responses
    PROVE  /\ Consumer!Completion!DeliverJob(r) = "ok" =>
                 Consumer!Completion!Meaning(r) = "delivered"
           /\ Consumer!Completion!DeliverJob(r) \in {"ok", "permanent"} =>
                 Consumer!Completion!Meaning(r) \in Consumer!Completion!FinalMeanings
  <1>1. r \in 0 .. 999
    BY PipelineAssumption
       DEF Consumer!Completion!AnyResponse, Consumer!Completion!NoResponse,
           Consumer!Completion!StatusCodes
  <1>2. CASE r >= 200 /\ r < 300
    <2>1. Consumer!Completion!Meaning(r) = "delivered"
      BY <1>1, <1>2 DEF Consumer!Completion!Meaning, Consumer!Completion!Delivered
    <2> QED
      BY <2>1 DEF Consumer!Completion!FinalMeanings, Consumer!Completion!Meanings
  <1>3. CASE ~ (r >= 200 /\ r < 300)
    <2>1. Consumer!Completion!DeliverJob(r) # "ok"
      BY <1>1, <1>3
         DEF Consumer!Completion!DeliverJob, Consumer!Completion!NoResponse,
             Consumer!Completion!classifyHTTPStatus
    <2>2. ASSUME Consumer!Completion!DeliverJob(r) = "permanent"
          PROVE  r \notin Consumer!Completion!Unavailable
      BY <1>1, <2>2
         DEF Consumer!Completion!DeliverJob, Consumer!Completion!NoResponse,
             Consumer!Completion!classifyHTTPStatus, Consumer!Completion!Unavailable
    <2>3. ASSUME r \notin Consumer!Completion!Unavailable
          PROVE  Consumer!Completion!Meaning(r) \in Consumer!Completion!FinalMeanings
      BY <2>3
         DEF Consumer!Completion!Meaning, Consumer!Completion!FinalMeanings,
             Consumer!Completion!Meanings
    <2> QED
      BY <2>1, <2>2, <2>3
  <1> QED
    BY <1>2, <1>3

\* A delivered job has a final answer.
LEMMA DeliveredIsFinal == "delivered" \in Consumer!Completion!FinalMeanings
  BY DEF Consumer!Completion!FinalMeanings, Consumer!Completion!Meanings

\* What the steps of a record leave of the answers and of the other workers.
AnswersKept(w) ==
    /\ \A e \in Events : answered[e] \subseteq answered'[e]
    /\ \A v \in Workers \ {w} : outcome'[v] = outcome[v] /\ verdict'[v] = verdict[v]
    /\ FrameBacked(w)'

\* Going on, and returning.
LEMMA GoingOnBacked ==
    ASSUME Consumer!Completion!TypeOK, NEW w \in Workers, UNCHANGED answered,
           \/ \E step \in {"select", "retry", "reclaim", "deliver"} :
                 Consumer!Completion!Goto(w, step)
           \/ Consumer!Completion!Return(w, FALSE)
           \/ Consumer!Completion!Return(w, TRUE) /\ Final(job[w])
    PROVE  AnswersKept(w)
  <1>1. CASE \E step \in {"select", "retry", "reclaim", "deliver"} :
               Consumer!Completion!Goto(w, step)
    BY <1>1 DEF Consumer!Completion!Goto, Consumer!Completion!TypeOK, AnswersKept,
                FrameBacked
  <1>2. CASE Consumer!Completion!Return(w, FALSE)
    BY <1>2 DEF Consumer!Completion!Return, Consumer!Completion!TypeOK, AnswersKept,
                FrameBacked
  <1>3. CASE Consumer!Completion!Return(w, TRUE) /\ Final(job[w])
    BY <1>3 DEF Consumer!Completion!Return, Consumer!Completion!TypeOK, AnswersKept,
                FrameBacked, Final
  <1> QED
    BY <1>1, <1>2, <1>3

\* A worker that has left has nothing to show.
LEMMA LeavingBacked ==
    ASSUME Consumer!Completion!TypeOK, NEW w \in Workers, UNCHANGED answered,
           Consumer!Completion!Leave(w)
    PROVE  AnswersKept(w)
  BY DEF Consumer!Completion!Leave, Consumer!Completion!TypeOK, AnswersKept, FrameBacked

\* The statements and the POST.
LEMMA HandleBacked ==
    ASSUME Consumer!Completion!TypeOK, BackedInv, NEW w \in Workers,
           Consumer!Completion!HandleStep(w)
    PROVE  AnswersKept(w) /\ UNCHANGED job
  <1>1. /\ job[w] \in Events /\ FrameBacked(w) /\ answered \in [Events -> SUBSET
              Consumer!Completion!Meanings]
        /\ status[job[w]] \in {"absent", "processing", "processed", "failed"}
        /\ status[job[w]] = "processed" => Final(job[w])
        /\ wpc[w] = "mark_processed" => Final(job[w])
        /\ wpc[w] = "mark_failed" /\ outcome[w] = "permanent" => Final(job[w])
    BY DeliveredIsFinal DEF Consumer!Completion!TypeOK, BackedInv, FrameBacked, Final
  <1>2. CASE Consumer!Completion!ClaimInsert(w)
    <2>1. /\ \E step \in {"select", "retry", "reclaim", "deliver"} :
                Consumer!Completion!Goto(w, step)
          /\ UNCHANGED answered
      BY <1>2 DEF Consumer!Completion!ClaimInsert, Consumer!Completion!history
    <2> QED
      BY <2>1, GoingOnBacked DEF Consumer!Completion!Goto
  <1>3. CASE Consumer!Completion!ClaimSelect(w)
    <2>1. UNCHANGED answered
      BY <1>3 DEF Consumer!Completion!ClaimSelect, Consumer!Completion!history
    <2>2. \/ Consumer!Completion!Return(w, TRUE) /\ status[job[w]] = "processed"
          \/ Consumer!Completion!Return(w, FALSE)
          \/ Consumer!Completion!Goto(w, "retry")
          \/ Consumer!Completion!Goto(w, "reclaim")
      BY <1>1, <1>3 DEF Consumer!Completion!ClaimSelect
    <2> QED
      BY <1>1, <2>1, <2>2, GoingOnBacked
         DEF Consumer!Completion!Goto, Consumer!Completion!Return
  <1>4. CASE Consumer!Completion!ClaimRetry(w) \/ Consumer!Completion!ClaimReclaim(w)
    <2>1. /\ UNCHANGED answered
          /\ \/ Consumer!Completion!Goto(w, "deliver")
             \/ Consumer!Completion!Return(w, FALSE)
      BY <1>4 DEF Consumer!Completion!ClaimRetry, Consumer!Completion!ClaimReclaim,
                  Consumer!Completion!history
    <2> QED
      BY <2>1, GoingOnBacked DEF Consumer!Completion!Goto, Consumer!Completion!Return
  <1>5. ASSUME NEW r \in Responses, Consumer!Completion!Deliver(w, r)
        PROVE  AnswersKept(w) /\ UNCHANGED job
    <2> DEFINE class == Consumer!Completion!DeliverJob(r)
               meaning == Consumer!Completion!Meaning(r)
    <2>1. /\ class = "ok" => meaning = "delivered"
          /\ class = "permanent" => meaning \in Consumer!Completion!FinalMeanings
      BY ResponseMeans
    <2>2. /\ answered' = [answered EXCEPT ![job[w]] = @ \cup {meaning}]
          /\ outcome' = [outcome EXCEPT ![w] = class]
          /\ wpc' = [wpc EXCEPT ![w] = IF class = "ok" THEN "mark_processed"
                                       ELSE "mark_failed"]
          /\ UNCHANGED <<job, verdict>>
      BY <1>5 DEF Consumer!Completion!Deliver
    <2> HIDE DEF class, meaning
    <2>3. \A e \in Events : answered[e] \subseteq answered'[e]
      BY <1>1, <2>2
    <2>4. meaning \in answered'[job[w]] /\ outcome'[w] = class
          /\ wpc'[w] = IF class = "ok" THEN "mark_processed" ELSE "mark_failed"
      BY <1>1, <2>2 DEF Consumer!Completion!TypeOK
    <2>5. FrameBacked(w)'
      BY <2>1, <2>2, <2>4 DEF FrameBacked, Final
    <2> QED
      BY <2>2, <2>3, <2>5 DEF AnswersKept, Consumer!Completion!TypeOK
  <1>6. CASE Consumer!Completion!MarkProcessed(w) \/ Consumer!Completion!MarkFailed(w)
    <2>1. PICK v \in BOOLEAN : Consumer!Completion!Return(w, v) /\ (v => Final(job[w]))
      BY <1>1, <1>6 DEF Consumer!Completion!MarkProcessed, Consumer!Completion!MarkFailed
    <2>2. UNCHANGED answered
      BY <1>6 DEF Consumer!Completion!MarkProcessed, Consumer!Completion!MarkFailed,
                  Consumer!Completion!history
    <2>3. \/ Consumer!Completion!Return(w, FALSE)
          \/ Consumer!Completion!Return(w, TRUE) /\ Final(job[w])
      BY <2>1
    <2> QED
      BY <2>2, <2>3, GoingOnBacked DEF Consumer!Completion!Return
  <1> QED
    BY <1>2, <1>3, <1>4, <1>5, <1>6 DEF Consumer!Completion!HandleStep

\* The rows and frames of all workers.
LEMMA BackedStep ==
    ASSUME IInv, BackedInv, NEW w \in Workers, RowMoves(w), AnswersKept(w)
    PROVE  BackedInv'
  <1>1. job \in [Workers -> Events] /\ answered \in [Events -> SUBSET
              Consumer!Completion!Meanings]
    BY DEF IInv, TypeOK, Consumer!TypeOK, Consumer!Completion!TypeOK
  <1>2. \A e \in Events : status'[e] = "processed" =>
          status[e] = "processed" \/ (wpc[w] = "mark_processed" /\ e = job[w])
    BY DEF RowMoves, SendsOrSettles
  <1>3. \A e \in Events : status'[e] = "processed" => "delivered" \in answered'[e]
    BY <1>2 DEF BackedInv, FrameBacked, AnswersKept
  <1>4. ASSUME NEW v \in Workers PROVE FrameBacked(v)'
    <2>1. CASE v = w
      BY <2>1 DEF AnswersKept
    <2>2. CASE v # w
      <3>1. /\ wpc'[v] = wpc[v] /\ job'[v] = job[v] /\ outcome'[v] = outcome[v]
            /\ verdict'[v] = verdict[v] /\ answered[job[v]] \subseteq answered'[job[v]]
        BY <1>1, <2>2 DEF RowMoves, AnswersKept
      <3> QED
        BY <3>1 DEF BackedInv, FrameBacked, Final
    <2> QED
      BY <2>1, <2>2
  <1> QED
    BY <1>3, <1>4 DEF BackedInv

\* A record that begins has nothing to show yet; other steps leave rows and frames.
LEMMA BackedStays ==
    ASSUME IInv, BackedInv, NEW w \in Workers,
           RowsStay \/ \E e \in Events : Consumer!Completion!Start(w, e)
    PROVE  BackedInv' /\ UNCHANGED answered
  <1>1. CASE RowsStay
    BY <1>1 DEF RowsStay, BackedInv, FrameBacked, Final
  <1>2. CASE \E e \in Events : Consumer!Completion!Start(w, e)
    <2>1. /\ UNCHANGED <<status, answered, outcome, verdict>> /\ wpc'[w] = "insert"
          /\ \A v \in Workers \ {w} : wpc'[v] = wpc[v] /\ job'[v] = job[v]
      BY <1>2 DEF Consumer!Completion!Start, Consumer!Completion!table,
                  Consumer!Completion!history, IInv, TypeOK, Consumer!TypeOK,
                  Consumer!Completion!TypeOK
    <2> QED
      BY <2>1 DEF BackedInv, FrameBacked, Final
  <1> QED
    BY <1>1, <1>2

\* What a worker has at hand.
LEMMA AtHand ==
    ASSUME IInv, CommitInv, NEW w \in Workers
    PROVE  /\ Consumer!Completion!TypeOK /\ LoopTyped /\ topic \in Seq(Events)
           /\ BatchInv(w) /\ OwnerInv(w) /\ PlaceInv(w) /\ BackedInv /\ HandledInv
           /\ part[w] = 1 /\ cursor[w] \in Nat /\ start[w][1] \in Nat
           /\ position[w][1] \in Nat /\ committed[1] \in Nat
  <1>1. Consumer!Completion!TypeOK /\ LoopTyped /\ topic \in Seq(Events)
    BY ConsumerTypes DEF IInv, TypeOK, Outbox!TypeOK
  <1> QED
    BY <1>1 DEF CommitInv, IInv, LoopInv, PlaceInv, LoopTyped

\* The committed offset is backed, and never moves back.
CommitsKept == CommitInv' /\ committed[1] <= committed'[1]

\* A step of w that keeps its own part keeps all.
LEMMA CommitStep ==
    ASSUME IInv, CommitInv, NEW w \in Workers, UNCHANGED topic, BackedInv', HandledInv',
           handled[1] \subseteq handled'[1], committed[1] <= committed'[1],
           committed'[1] > 0 => committed'[1] - 1 \in handled'[1],
           BatchInv(w)', OwnerInv(w)',
           \A v \in Workers \ {w} : PlaceKept(v) /\ job'[v] = job[v],
           committed'[1] = committed[1] \/ owner[1] = w,
           owner'[1] \in {owner[1], w, Nobody}
    PROVE  CommitsKept
  <1>1. ASSUME NEW v \in Workers PROVE BatchInv(v)' /\ OwnerInv(v)'
    <2>1. CASE v = w
      BY <2>1
    <2>2. CASE v # w
      <3>1. /\ position'[v] = position[v] /\ start'[v] = start[v] /\ todo'[v] = todo[v]
            /\ cursor'[v] = cursor[v] /\ phase'[v] = phase[v] /\ job'[v] = job[v]
        BY <2>2 DEF PlaceKept
      <3>2. BatchInv(v)'
        BY <3>1 DEF CommitInv, BatchInv, Working
      <3>3. owner'[1] = v => owner[1] = v /\ committed'[1] = committed[1]
        BY <2>2, PipelineAssumption
      <3>4. OwnerInv(v)'
        BY <3>1, <3>3 DEF CommitInv, OwnerInv, Working
      <3> QED
        BY <3>2, <3>4
    <2> QED
      BY <2>1, <2>2
  <1> QED
    BY <1>1 DEF CommitsKept, CommitInv

\* Answers stay, and with them what was handled.
LEMMA HandledStays ==
    ASSUME IInv, CommitInv, UNCHANGED <<topic, handled>>,
           \A e \in Events : answered[e] \subseteq answered'[e]
    PROVE  HandledInv'
  <1>1. ASSUME NEW o \in handled[1]
        PROVE  /\ o + 1 \in DOMAIN topic /\ topic[o + 1] \in Events
               /\ Final(topic[o + 1])
    BY AtHand DEF CommitInv, HandledInv, IInv, TypeOK, Outbox!TypeOK
  <1> QED
    BY <1>1 DEF HandledInv, Final

\* A step of w on the way through a batch.
LEMMA BatchStep ==
    ASSUME IInv, CommitInv, NEW w \in Workers,
           UNCHANGED <<topic, owner, committed, position, handled>>, BackedInv',
           \A e \in Events : answered[e] \subseteq answered'[e], BatchInv(w)',
           \A v \in Workers \ {w} : PlaceKept(v) /\ job'[v] = job[v],
           1 \in todo'[w] \/ Working(w)' =>
               (1 \in todo[w] \/ Working(w)) /\ start'[w][1] = start[w][1]
    PROVE  CommitsKept
  <1>1. HandledInv'
    BY HandledStays
  <1>2. OwnerInv(w)'
    BY DEF CommitInv, OwnerInv
  <1>3. committed[1] <= committed'[1]
    BY AtHand
  <1>4. committed'[1] > 0 => committed'[1] - 1 \in handled'[1]
    BY DEF CommitInv
  <1> QED
    BY <1>1, <1>2, <1>3, <1>4, CommitStep

\* Frames and rows that stay are still backed.
LEMMA RecordsRest ==
    ASSUME IInv, CommitInv, NEW w \in Workers, UNCHANGED Consumer!completionVars
    PROVE  BackedInv' /\ UNCHANGED <<answered, job>>
  <1>1. UNCHANGED <<status, wpc, outcome, verdict, answered, job>>
    BY DEF Consumer!completionVars
  <1> QED
    BY <1>1 DEF CommitInv, BackedInv, FrameBacked, Final

\* A fetch.
LEMMA PollCommits ==
    ASSUME IInv, CommitInv, UNCHANGED topic, NEW w \in Workers, Consumer!PollFetches(w)
    PROVE  CommitsKept
  <1>1. /\ LoopTyped /\ OwnerInv(w) /\ BackedInv' /\ UNCHANGED <<answered, job>>
        /\ position[w][1] \in Nat /\ committed[1] \in Nat
    BY AtHand, RecordsRest DEF Consumer!PollFetches
  <1>2. PICK upto \in [{1} -> Consumer!Ends] :
          /\ upto[1] \in position[w][1] .. Len(topic)
          /\ owner[1] # w => upto[1] = position[w][1]
          /\ position' = [position EXCEPT ![w] = upto]
          /\ todo' = [todo EXCEPT ![w] = {p \in {1} : upto[p] # position[w][p]}]
    BY OnePartition DEF Consumer!PollFetches
  <1>3. /\ start' = [start EXCEPT ![w] = position[w]]
        /\ phase' = [phase EXCEPT ![w] = "batch"]
        /\ UNCHANGED <<owner, committed, cursor, handled>>
    BY DEF Consumer!PollFetches, Consumer!Goto, Consumer!historyVars
  <1>4. /\ position'[w] = upto /\ start'[w] = position[w] /\ phase'[w] = "batch"
        /\ \A v \in Workers \ {w} : PlaceKept(v) /\ job'[v] = job[v]
    BY <1>1, <1>2, <1>3 DEF LoopTyped, PlaceKept
  <1>5. upto[1] \in Nat /\ position[w][1] <= upto[1]
    BY <1>1, <1>2, AtHand
  <1>6. BatchInv(w)' /\ OwnerInv(w)'
    BY <1>1, <1>3, <1>4, <1>5 DEF BatchInv, OwnerInv, Working
  <1>7. HandledInv' /\ committed[1] <= committed'[1]
    BY <1>1, <1>3, HandledStays
  <1>8. committed'[1] > 0 => committed'[1] - 1 \in handled'[1]
    BY <1>3 DEF CommitInv
  <1> QED
    BY <1>1, <1>3, <1>4, <1>6, <1>7, <1>8, CommitStep

\* From one partition or record to the next, and the start after a death.
LEMMA MoveOnCommits ==
    ASSUME IInv, CommitInv, UNCHANGED topic, NEW w \in Workers,
           \/ Consumer!EachPartition(w) \/ Consumer!AllowRebalance(w)
           \/ Consumer!BatchHandled(w) \/ Consumer!Restart(w)
    PROVE  CommitsKept
  <1>1. /\ LoopTyped /\ BatchInv(w) /\ PlaceInv(w) /\ BackedInv'
        /\ UNCHANGED <<answered, job>> /\ start[w][1] \in Nat
    BY AtHand, RecordsRest
       DEF Consumer!EachPartition, Consumer!AllowRebalance, Consumer!BatchHandled,
           Consumer!Restart
  <1>2. UNCHANGED <<owner, committed, position, handled>>
    BY DEF Consumer!EachPartition, Consumer!AllowRebalance, Consumer!BatchHandled,
           Consumer!Restart, Consumer!groupVars, Consumer!historyVars
  <1>3. CASE Consumer!EachPartition(w)
    <2>1. /\ 1 \in todo[w] /\ todo' = [todo EXCEPT ![w] = {}]
          /\ cursor' = [cursor EXCEPT ![w] = start[w][1]]
          /\ phase' = [phase EXCEPT ![w] = "handle"] /\ UNCHANGED start
      BY <1>1, <1>3 DEF Consumer!EachPartition, Consumer!Goto, LoopTyped
    <2>2. /\ todo'[w] = {} /\ cursor'[w] = start[w][1] /\ phase'[w] = "handle"
          /\ \A v \in Workers \ {w} : PlaceKept(v) /\ job'[v] = job[v]
      BY <1>1, <1>2, <2>1 DEF LoopTyped, PlaceKept
    <2>3. BatchInv(w)'
      BY <1>1, <2>1, <2>2 DEF BatchInv, Working
    <2> QED
      BY <1>1, <1>2, <2>1, <2>2, <2>3, BatchStep
  <1>4. CASE Consumer!AllowRebalance(w)
    <2>1. /\ todo[w] = {} /\ start' = [start EXCEPT ![w] = Consumer!Zero]
          /\ phase' = [phase EXCEPT ![w] = "poll"] /\ UNCHANGED <<todo, cursor>>
      BY <1>4 DEF Consumer!AllowRebalance, Consumer!Goto
    <2>2. /\ phase'[w] = "poll" /\ todo'[w] = {}
          /\ \A v \in Workers \ {w} : PlaceKept(v) /\ job'[v] = job[v]
      BY <1>1, <1>2, <2>1 DEF LoopTyped, PlaceKept
    <2>3. BatchInv(w)' /\ ~ Working(w)'
      BY <2>2 DEF BatchInv, Working
    <2> QED
      BY <1>1, <1>2, <2>2, <2>3, BatchStep
  <1>5. CASE Consumer!BatchHandled(w)
    <2>1. /\ phase[w] = "handle" /\ phase' = [phase EXCEPT ![w] = "commit"]
          /\ UNCHANGED <<start, todo, cursor>>
      BY <1>5 DEF Consumer!BatchHandled, Consumer!Goto, Consumer!batchVars
    <2>2. /\ phase'[w] = "commit" /\ Working(w)
          /\ \A v \in Workers \ {w} : PlaceKept(v) /\ job'[v] = job[v]
      BY <1>1, <1>2, <2>1 DEF LoopTyped, PlaceKept, Working
    <2>3. BatchInv(w)'
      BY <1>1, <1>2, <2>1, <2>2 DEF BatchInv, Working
    <2> QED
      BY <1>1, <1>2, <2>1, <2>2, <2>3, BatchStep
  <1>6. CASE Consumer!Restart(w)
    <2>1. /\ phase[w] = "down" /\ phase' = [phase EXCEPT ![w] = "poll"]
          /\ UNCHANGED <<start, todo, cursor>>
      BY <1>6 DEF Consumer!Restart, Consumer!Goto, Consumer!batchVars
    <2>2. /\ phase'[w] = "poll" /\ todo'[w] = {}
          /\ \A v \in Workers \ {w} : PlaceKept(v) /\ job'[v] = job[v]
      BY <1>1, <1>2, <2>1 DEF LoopTyped, PlaceKept, PlaceInv
    <2>3. BatchInv(w)' /\ ~ Working(w)'
      BY <2>2 DEF BatchInv, Working
    <2> QED
      BY <1>1, <1>2, <2>2, <2>3, BatchStep
  <1> QED
    BY <1>3, <1>4, <1>5, <1>6

\* A dropped fetch commits nothing.
LEMMA FetchFailsCommits ==
    ASSUME IInv, CommitInv, UNCHANGED topic, NEW w \in Workers, Consumer!FetchFails(w)
    PROVE  CommitsKept
  <1>1. LoopTyped /\ BatchInv(w) /\ BackedInv
    BY AtHand
  <1>2. /\ phase[w] = "batch" /\ 1 \in todo[w] /\ todo' = [todo EXCEPT ![w] = {}]
        /\ UNCHANGED <<status, wpc, outcome, verdict, answered, job>>
        /\ UNCHANGED <<owner, committed, position, start, cursor, phase, handled>>
    <2>1. /\ phase[w] = "batch"
          /\ UNCHANGED <<status, wpc, outcome, verdict, answered, job>>
          /\ UNCHANGED <<owner, committed, position, start, cursor, phase, handled>>
      BY DEF Consumer!FetchFails, Consumer!groupVars
    <2>2. PICK p \in todo[w] : todo' = [todo EXCEPT ![w] = @ \ {p}]
      BY DEF Consumer!FetchFails
    <2>3. todo[w] \subseteq {1}
      BY <1>1 DEF LoopTyped
    <2>4. p = 1 /\ todo[w] \ {p} = {}
      BY <2>2, <2>3
    <2> QED
      BY <2>1, <2>2, <2>4
  <1>3. BackedInv'
    BY <1>1, <1>2 DEF BackedInv, FrameBacked, Final
  <1>4. /\ todo'[w] = {} /\ ~ Working(w)'
        /\ \A v \in Workers \ {w} : PlaceKept(v) /\ job'[v] = job[v]
    BY <1>1, <1>2 DEF LoopTyped, PlaceKept, Working
  <1>5. BatchInv(w)'
    BY <1>2, <1>4 DEF BatchInv
  <1> QED
    BY <1>2, <1>3, <1>4, <1>5, BatchStep

\* A record begins.
LEMMA HandleCommits ==
    ASSUME IInv, CommitInv, UNCHANGED topic, NEW w \in Workers, Consumer!HandleRecord(w)
    PROVE  CommitsKept
  <1>1. /\ LoopTyped /\ BatchInv(w) /\ PlaceInv(w) /\ Consumer!Completion!TypeOK
        /\ part[w] = 1 /\ cursor[w] \in Nat /\ BackedInv /\ topic \in Seq(Events)
    BY AtHand
  <1>2. /\ phase[w] = "handle" /\ phase' = [phase EXCEPT ![w] = "handling"]
        /\ cursor[w] < position[w][1]
        /\ Consumer!Completion!Start(w, topic[cursor[w] + 1])
        /\ UNCHANGED <<owner, committed, position, handled, start, todo, cursor>>
    BY <1>1, OnePartition
       DEF Consumer!HandleRecord, Consumer!Goto, Consumer!groupVars,
           Consumer!batchVars, Consumer!historyVars, Consumer!RecordAt
  <1>3. topic[cursor[w] + 1] \in Events
    BY <1>1, <1>2, AtHand DEF PlaceInv
  <1>4. BackedInv' /\ UNCHANGED answered
    BY <1>1, <1>2, <1>3, BackedStays
  <1>5. /\ job'[w] = topic[cursor[w] + 1] /\ phase'[w] = "handling" /\ Working(w)
        /\ \A v \in Workers \ {w} : PlaceKept(v) /\ job'[v] = job[v]
    BY <1>1, <1>2
       DEF Consumer!Completion!Start, Consumer!Completion!TypeOK, LoopTyped, PlaceKept,
           Working
  <1>6. BatchInv(w)'
    BY <1>1, <1>2, <1>5 DEF BatchInv, Working
  <1> QED
    BY <1>2, <1>4, <1>5, <1>6, BatchStep

\* The outcome of a record: what is handled has a final answer.
LEMMA OutcomeCommits ==
    ASSUME IInv, CommitInv, UNCHANGED topic, NEW w \in Workers,
           Consumer!RejectMalformed(w) \/ Consumer!RecordHandled(w)
    PROVE  CommitsKept
  <1>1. /\ LoopTyped /\ BatchInv(w) /\ OwnerInv(w) /\ PlaceInv(w) /\ HandledInv
        /\ Consumer!Completion!TypeOK /\ part[w] = 1 /\ cursor[w] \in Nat
        /\ start[w][1] \in Nat /\ position[w][1] \in Nat /\ committed[1] \in Nat
        /\ topic \in Seq(Events) /\ BackedInv
    BY AtHand
  <1>2. /\ phase[w] \in {"handle", "handling"} /\ UNCHANGED answered
        /\ UNCHANGED <<owner, committed, position, start, todo>>
    BY <1>1
       DEF Consumer!RejectMalformed, Consumer!RecordHandled, Consumer!groupVars,
           Consumer!completionVars, Consumer!Completion!TakeVerdict,
           Consumer!Completion!history
  <1>3. BackedInv' /\ \A v \in Workers \ {w} : job'[v] = job[v]
    <2>1. CASE Consumer!RejectMalformed(w)
      BY <2>1, RecordsRest DEF Consumer!RejectMalformed
    <2>2. CASE Consumer!RecordHandled(w)
      <3>1. Consumer!Completion!TakeVerdict(w) /\ Consumer!Completion!Leave(w)
        BY <2>2 DEF Consumer!RecordHandled, Consumer!Completion!TakeVerdict
      <3>2. RowMoves(w) /\ AnswersKept(w)
        BY <1>1, <1>2, <3>1, LeaveMoves, LeavingBacked
      <3> QED
        BY <1>1, <3>2, BackedStep DEF RowMoves
    <2> QED
      BY <2>1, <2>2
  <1>4. CASE /\ phase' = [phase EXCEPT ![w] = "handle"]
             /\ cursor' = [cursor EXCEPT ![w] = @ + 1]
             /\ handled' = [handled EXCEPT ![1] = @ \cup {cursor[w]}]
             /\ phase[w] = "handling" /\ Final(job[w])
    <2>1. /\ phase'[w] = "handle" /\ cursor'[w] = cursor[w] + 1 /\ Working(w)
          /\ handled'[1] = handled[1] \cup {cursor[w]}
          /\ \A v \in Workers \ {w} : PlaceKept(v)
      BY <1>1, <1>2, <1>4 DEF LoopTyped, PlaceKept, Working
    <2>2. cursor[w] + 1 \in DOMAIN topic /\ Final(topic[cursor[w] + 1])
      BY <1>1, <1>4 DEF PlaceInv, BatchInv
    <2>3. HandledInv'
      BY <1>1, <1>2, <2>1, <2>2 DEF HandledInv, Final
    <2>4. BatchInv(w)'
      BY <1>1, <1>2, <2>1 DEF BatchInv, Working
    <2>5. OwnerInv(w)'
      BY <1>1, <1>2, <2>1 DEF OwnerInv, Working
    <2>6. /\ committed[1] <= committed'[1]
          /\ committed'[1] > 0 => committed'[1] - 1 \in handled'[1]
      BY <1>1, <1>2, <2>1 DEF CommitInv
    <2> QED
      BY <1>2, <1>3, <2>1, <2>3, <2>4, <2>5, <2>6, CommitStep
  <1>5. CASE phase' = [phase EXCEPT ![w] = "commit"] /\ UNCHANGED <<cursor, handled>>
    <2>1. /\ phase'[w] = "commit" /\ Working(w)
          /\ \A v \in Workers \ {w} : PlaceKept(v) /\ job'[v] = job[v]
      BY <1>1, <1>2, <1>3, <1>5 DEF LoopTyped, PlaceKept, Working
    <2>2. BatchInv(w)'
      BY <1>1, <1>2, <1>5, <2>1 DEF BatchInv, Working
    <2> QED
      BY <1>2, <1>3, <1>5, <2>1, <2>2, BatchStep
  <1>6. Consumer!RecordHandled(w) /\ verdict[w] =>
            phase[w] = "handling" /\ Final(job[w])
    BY <1>1 DEF Consumer!RecordHandled, Consumer!Completion!TakeVerdict, BackedInv,
                FrameBacked
  <1>7. \/ /\ phase' = [phase EXCEPT ![w] = "handle"]
           /\ cursor' = [cursor EXCEPT ![w] = @ + 1]
           /\ handled' = [handled EXCEPT ![1] = @ \cup {cursor[w]}]
           /\ Consumer!RecordHandled(w) /\ verdict[w]
        \/ phase' = [phase EXCEPT ![w] = "commit"] /\ UNCHANGED <<cursor, handled>>
    BY <1>1
       DEF Consumer!RejectMalformed, Consumer!RecordHandled, Consumer!Succeed,
           Consumer!BreakOff, Consumer!Goto
  <1> QED
    BY <1>4, <1>5, <1>6, <1>7

\* The statements of a record, with or without their table.
LEMMA StoreCommits ==
    ASSUME IInv, CommitInv, UNCHANGED topic, NEW w \in Workers,
           Consumer!StoreStep(w) \/ CompletionsMissing(w)
    PROVE  CommitsKept
  <1>1. /\ LoopTyped /\ BatchInv(w) /\ Consumer!Completion!TypeOK /\ BackedInv /\ LoopInv
    BY AtHand DEF IInv
  <1>2. UNCHANGED <<owner, committed, position, handled, start, todo, cursor, phase>>
    BY DEF Consumer!StoreStep, CompletionsMissing, Consumer!groupVars,
           Consumer!batchVars, Consumer!historyVars
  <1>3. RowMoves(w)
    BY <1>1, StoreStepMoves, MissingMoves
  <1>4. AnswersKept(w) /\ UNCHANGED job
    <2>1. CASE Consumer!Completion!HandleStep(w)
      BY <1>1, <2>1, HandleBacked
    <2>2. CASE Consumer!Completion!StatementFails(w) \/ CompletionsMissing(w)
      <3>1. Consumer!Completion!Return(w, FALSE) /\ UNCHANGED answered
        BY <2>2 DEF Consumer!Completion!StatementFails, CompletionsMissing,
                    Consumer!Completion!history
      <3> QED
        BY <1>1, <3>1, GoingOnBacked DEF Consumer!Completion!Return
    <2> QED
      BY <2>1, <2>2 DEF Consumer!StoreStep
  <1>5. BackedInv' /\ \A e \in Events : answered[e] \subseteq answered'[e]
    BY <1>1, <1>3, <1>4, BackedStep DEF AnswersKept
  <1>6. BatchInv(w)'
    BY <1>1, <1>2, <1>4 DEF BatchInv, Working
  <1>7. \A v \in Workers \ {w} : PlaceKept(v) /\ job'[v] = job[v]
    BY <1>2, <1>4 DEF PlaceKept
  <1>8. 1 \in todo'[w] \/ Working(w)' =>
            (1 \in todo[w] \/ Working(w)) /\ start'[w][1] = start[w][1]
    BY <1>2 DEF Working
  <1> QED
    BY <1>2, <1>5, <1>6, <1>7, <1>8, BatchStep

\* The commit, or its loss.
LEMMA RecordsCommit ==
    ASSUME IInv, CommitInv, UNCHANGED topic, NEW w \in Workers,
           Consumer!CommitRecords(w) \/ Consumer!CommitFails(w)
    PROVE  CommitsKept
  <1>1. /\ LoopTyped /\ BatchInv(w) /\ OwnerInv(w) /\ PlaceInv(w)
        /\ part[w] = 1 /\ cursor[w] \in Nat
        /\ start[w][1] \in Nat /\ position[w][1] \in Nat /\ committed[1] \in Nat
    BY AtHand
  <1>2. /\ phase[w] = "commit" /\ phase' = [phase EXCEPT ![w] = "batch"]
        /\ cursor' = [cursor EXCEPT ![w] = 0]
        /\ UNCHANGED <<owner, position, handled, start, todo>>
        /\ UNCHANGED <<status, wpc, outcome, verdict, answered, job>>
        /\ \/ UNCHANGED committed
           \/ /\ cursor[w] > start[w][1] /\ owner[1] = w
              /\ committed' = [committed EXCEPT ![1] = cursor[w]]
    BY <1>1
       DEF Consumer!CommitRecords, Consumer!CommitFails, Consumer!NextPartition,
           Consumer!Goto, Consumer!groupVars, Consumer!historyVars,
           Consumer!completionVars
  <1>3. /\ phase'[w] = "batch" /\ Working(w) /\ 1 \notin todo'[w]
        /\ \A v \in Workers \ {w} : PlaceKept(v) /\ job'[v] = job[v]
    BY <1>1, <1>2 DEF LoopTyped, PlaceKept, Working, BatchInv
  <1>4. BackedInv' /\ HandledInv'
    BY <1>2, HandledStays DEF CommitInv, BackedInv, FrameBacked, Final
  <1>5. BatchInv(w)'
    BY <1>3 DEF BatchInv, Working
  <1>6. CASE UNCHANGED committed
    <2>1. /\ OwnerInv(w)' /\ committed[1] <= committed'[1]
          /\ committed'[1] > 0 => committed'[1] - 1 \in handled'[1]
      BY <1>1, <1>2, <1>3, <1>6 DEF OwnerInv, CommitInv, Working
    <2> QED
      BY <1>2, <1>3, <1>4, <1>5, <1>6, <2>1, CommitStep
  <1>7. CASE /\ cursor[w] > start[w][1] /\ owner[1] = w
             /\ committed' = [committed EXCEPT ![1] = cursor[w]]
    <2>1. committed'[1] = cursor[w]
      BY <1>1, <1>7 DEF LoopTyped
    <2>2. /\ OwnerInv(w)' /\ committed[1] <= committed'[1]
          /\ committed'[1] - 1 \in handled'[1]
      BY <1>1, <1>2, <1>3, <1>7, <2>1 DEF OwnerInv, BatchInv, PlaceInv, Working
    <2> QED
      BY <1>2, <1>3, <1>4, <1>5, <1>7, <2>2, CommitStep
  <1> QED
    BY <1>2, <1>6, <1>7

\* A member dies, loses the partition or gets it: the new one starts where the
\* group's offset is.
LEMMA GroupCommits ==
    ASSUME IInv, CommitInv, UNCHANGED topic, NEW w \in Workers,
           Consumer!Die(w) \/ Consumer!Revoke(1) \/ Consumer!Assign(1, w)
    PROVE  CommitsKept
  <1>1. /\ LoopTyped /\ BatchInv(w) /\ OwnerInv(w) /\ PlaceInv(w) /\ LoopInv
        /\ Consumer!Completion!TypeOK /\ BackedInv /\ committed[1] \in Nat
    BY AtHand DEF IInv
  <1>2. UNCHANGED <<committed, handled>> /\ committed[1] <= committed'[1]
    BY <1>1 DEF Consumer!Die, Consumer!Revoke, Consumer!Assign, Consumer!historyVars
  <1>3. committed'[1] > 0 => committed'[1] - 1 \in handled'[1]
    BY <1>2 DEF CommitInv
  <1>4. CASE Consumer!Die(w)
    <2>1. /\ owner' = [p \in {1} |-> IF owner[p] = w THEN Nobody ELSE owner[p]]
          /\ todo' = [todo EXCEPT ![w] = {}]
          /\ start' = [start EXCEPT ![w] = [p \in {1} |-> 0]]
          /\ cursor' = [cursor EXCEPT ![w] = 0]
          /\ phase' = [phase EXCEPT ![w] = "down"] /\ UNCHANGED position
          /\ Consumer!Completion!Die(w) /\ UNCHANGED wfaults
      BY <1>4, OnePartition DEF Consumer!Die, Consumer!Goto
    <2>2. RowMoves(w) /\ AnswersKept(w) /\ UNCHANGED answered
      BY <1>1, <2>1, LeaveMoves, LeavingBacked DEF Consumer!Completion!Die
    <2>3. BackedInv' /\ HandledInv' /\ \A v \in Workers \ {w} : job'[v] = job[v]
      BY <1>1, <1>2, <2>2, BackedStep, HandledStays DEF RowMoves
    <2>4. /\ owner'[1] \in {owner[1], Nobody} /\ owner'[1] # w /\ phase'[w] = "down"
          /\ \A v \in Workers \ {w} : PlaceKept(v)
      BY <1>1, <2>1, PipelineAssumption DEF LoopTyped, PlaceKept
    <2>5. BatchInv(w)' /\ OwnerInv(w)'
      BY <2>4 DEF BatchInv, OwnerInv, Working
    <2> QED
      BY <1>2, <1>3, <2>3, <2>4, <2>5, CommitStep
  <1>5. ASSUME Consumer!Revoke(1) \/ Consumer!Assign(1, w)
        PROVE  /\ BackedInv' /\ HandledInv' /\ UNCHANGED <<job, start, todo, cursor, phase>>
               /\ BatchInv(w)'
    <2>1. /\ UNCHANGED Consumer!completionVars
          /\ UNCHANGED <<start, todo, cursor, phase>>
      BY <1>5 DEF Consumer!Revoke, Consumer!Assign, Consumer!batchVars
    <2>2. BackedInv' /\ UNCHANGED <<answered, job>>
      BY <2>1, RecordsRest
    <2>3. HandledInv'
      BY <1>2, <2>2, HandledStays
    <2>4. BatchInv(w)'
      BY <1>1, <1>2, <2>1, <2>2 DEF BatchInv, Working
    <2> QED
      BY <2>1, <2>2, <2>3, <2>4
  <1>6. CASE Consumer!Revoke(1)
    <2>1. owner' = [owner EXCEPT ![1] = Nobody] /\ UNCHANGED position
      BY <1>6 DEF Consumer!Revoke
    <2>2. owner'[1] = Nobody /\ OwnerInv(w)'
      BY <1>1, <2>1, PipelineAssumption DEF LoopTyped, OwnerInv
    <2>3. \A v \in Workers \ {w} : PlaceKept(v) /\ job'[v] = job[v]
      BY <1>5, <1>6, <2>1 DEF PlaceKept
    <2> QED
      BY <1>2, <1>3, <1>5, <1>6, <2>2, <2>3, CommitStep
  <1>7. CASE Consumer!Assign(1, w)
    <2>1. /\ phase[w] = "poll" /\ owner' = [owner EXCEPT ![1] = w]
          /\ position' = [position EXCEPT ![w][1] = committed[1]]
      BY <1>7 DEF Consumer!Assign
    <2>2. /\ owner'[1] = w /\ position'[w][1] = committed[1] /\ todo[w] = {}
          /\ \A v \in Workers \ {w} : PlaceKept(v) /\ job'[v] = job[v]
      BY <1>1, <1>5, <1>7, <2>1 DEF LoopTyped, PlaceKept, PlaceInv
    <2>3. OwnerInv(w)'
      BY <1>1, <1>2, <1>5, <1>7, <2>1, <2>2 DEF OwnerInv, Working
    <2> QED
      BY <1>2, <1>3, <1>5, <1>7, <2>2, <2>3, CommitStep
  <1> QED
    BY <1>4, <1>6, <1>7

\* Every step of a worker.
LEMMA WorkersCommits ==
    ASSUME IInv, CommitInv, NEW w \in Workers,
           WorkerStep(w) \/ RestartWorker(w) \/ WorkerFault(w) \/ Assign(w)
    PROVE  CommitsKept
  <1>1. UNCHANGED topic
    BY DEF WorkerStep, RestartWorker, WorkerFault, Assign
  <1>2. CASE WorkerStep(w)
    <2>1. \/ Consumer!LoopStep(w)
          \/ Consumer!StoreStep(w) \/ CompletionsMissing(w)
      BY <1>2 DEF WorkerStep
    <2> QED
      BY <1>1, <2>1, PollCommits, MoveOnCommits, HandleCommits, OutcomeCommits,
         RecordsCommit, StoreCommits
         DEF Consumer!LoopStep
  <1>3. CASE RestartWorker(w)
    BY <1>1, <1>3, MoveOnCommits DEF RestartWorker
  <1>4. CASE WorkerFault(w)
    BY <1>1, <1>4, FetchFailsCommits, RecordsCommit, GroupCommits DEF WorkerFault
  <1>5. CASE Assign(w)
    BY <1>1, <1>5, GroupCommits DEF Assign
  <1> QED
    BY <1>2, <1>3, <1>4, <1>5

\* The topic only grows, and a dropped table takes no answer back.
LEMMA OthersCommits ==
    ASSUME IInv, CommitInv, UNCHANGED workerVars,
           UNCHANGED topic \/ \E e \in Events : topic' = Append(topic, e),
           \A e \in Events : status'[e] = "processed" => status[e] = "processed"
    PROVE  CommitsKept
  <1>1. /\ UNCHANGED <<wpc, job, outcome, verdict, answered, owner, committed>>
        /\ UNCHANGED <<position, start, todo, cursor, phase, handled>>
    BY DEF workerVars
  <1>2. /\ topic \in Seq(Events) /\ committed[1] \in Nat
        /\ \A w \in Workers :
              phase[w] = "handling" => cursor[w] + 1 \in DOMAIN topic
    <2>1. topic \in Seq(Events) /\ LoopTyped
      BY ConsumerTypes DEF IInv, TypeOK, Outbox!TypeOK
    <2>2. ASSUME NEW w \in Workers, phase[w] = "handling"
          PROVE  cursor[w] + 1 \in DOMAIN topic
      <3>1. /\ cursor[w] \in Nat /\ position[w][1] \in Nat
            /\ cursor[w] < position[w][1] /\ position[w][1] <= Len(topic)
        BY <2>1, <2>2 DEF LoopTyped, IInv, LoopInv
      <3> QED
        BY <2>1, <3>1
    <2> QED
      BY <2>1, <2>2 DEF LoopTyped
  <1>3. \A i \in DOMAIN topic : i \in DOMAIN topic' /\ topic'[i] = topic[i]
    <2>1. ASSUME NEW e \in Events, topic' = Append(topic, e)
          PROVE  \A i \in DOMAIN topic : i \in DOMAIN topic' /\ topic'[i] = topic[i]
      <3>1. topic \in Seq(Events)
        BY <1>2
      <3> QED
        BY <2>1, <3>1
    <2>2. CASE UNCHANGED topic
      BY <2>2
    <2> QED
      BY <2>1, <2>2
  <1>4. BackedInv'
    BY <1>1 DEF CommitInv, BackedInv, FrameBacked, Final
  <1>5. HandledInv'
    BY <1>1, <1>3 DEF CommitInv, HandledInv, Final
  <1>6. ASSUME NEW w \in Workers PROVE BatchInv(w)' /\ OwnerInv(w)'
    BY <1>1, <1>2, <1>3 DEF CommitInv, BatchInv, OwnerInv, Working
  <1>7. committed'[1] > 0 => committed'[1] - 1 \in handled'[1]
    BY <1>1 DEF CommitInv
  <1> QED
    BY <1>1, <1>2, <1>4, <1>5, <1>6, <1>7 DEF CommitsKept, CommitInv

\* The initial states.
LEMMA InitCommits ==
    ASSUME Init
    PROVE  CommitInv
  <1>1. Consumer!Init
    BY DEF Init
  <1>2. BackedInv
    BY <1>1 DEF Consumer!Init, Consumer!Completion!Init, BackedInv, FrameBacked
  <1>3. /\ handled[1] = {} /\ committed[1] = 0 /\ owner[1] = Nobody
        /\ \A w \in Workers : phase[w] = "poll"
    BY <1>1, OnePartition DEF Consumer!Init
  <1>4. \A w \in Workers : BatchInv(w) /\ OwnerInv(w)
    BY <1>3, PipelineAssumption DEF BatchInv, OwnerInv, Working
  <1> QED
    BY <1>2, <1>3, <1>4 DEF CommitInv, HandledInv

\* Every step.
LEMMA NextCommits ==
    ASSUME IInv, CommitInv, [Next]_vars
    PROVE  CommitsKept
  <1>1. ASSUME NEW w \in Workers,
               WorkerStep(w) \/ RestartWorker(w) \/ WorkerFault(w) \/ Assign(w)
        PROVE  CommitsKept
    BY <1>1, WorkersCommits
  <1>2. ASSUME UNCHANGED consumerVars,
               UNCHANGED topic \/ \E e \in Events : topic' = Append(topic, e)
        PROVE  CommitsKept
    BY <1>2, OthersCommits DEF consumerVars, completionsTable
  <1>3. CASE DownCompletions
    BY <1>3, OthersCommits DEF DownCompletions
  <1>4. ASSUME NEW p \in Publishers,
               PublisherStep(p) \/ RestartPublisher(p) \/ PublisherFault(p)
        PROVE  CommitsKept
    <2>1. PublisherMoves(p) /\ UNCHANGED consumerVars /\ row[p] \in Events
      BY <1>4, AllPublisherMoves DEF IInv, TypeOK, Outbox!TypeOK
    <2> QED
      BY <1>2, <2>1 DEF PublisherMoves
  <1>5. ASSUME NEW e \in Events,
               Insert(e) \/ CommitInsert(e) \/ RollbackInsert(e) \/ LateAppend(e)
        PROVE  CommitsKept
    <2>1. /\ UNCHANGED consumerVars
          /\ UNCHANGED topic \/ topic' = Append(topic, e)
      BY <1>5 DEF Insert, CommitInsert, RollbackInsert, LateAppend, Outbox!Insert,
                  Outbox!CommitInsert, Outbox!RollbackInsert, Outbox!LateAppend,
                  Outbox!kafka
    <2> QED
      BY <1>2, <2>1
  <1>6. CASE UpLedger \/ UpAccepted \/ UpCompletions \/ DownAccepted \/ DownLedger
                 \/ UNCHANGED vars
    <2>1. UNCHANGED consumerVars /\ UNCHANGED topic
      BY <1>6 DEF UpLedger, UpAccepted, UpCompletions, DownAccepted, DownLedger, vars
    <2> QED
      BY <1>2, <2>1
  <1> QED
    BY <1>1, <1>3, <1>4, <1>5, <1>6 DEF Next

\* It holds in every state the pipeline reaches.
LEMMA CommitsBacked == Spec => []CommitInv
  <1>1. Init => CommitInv
    BY InitCommits
  <1>2. IInv /\ CommitInv /\ [Next]_vars => CommitInv'
    BY NextCommits DEF CommitsKept
  <1> QED
    BY <1>1, <1>2, Inductive, PTL DEF Spec

\* A row that a migration has left in place says "processed" only of a job that the
\* downstream service answered with a 2xx, also when the row under a worker was
\* dropped and another worker's took its place.
THEOREM ProcessedWasAnswered == Spec => []Consumer!Completion!ProcessedWasDelivered
  <1>1. CommitInv => Consumer!Completion!ProcessedWasDelivered
    BY DEF CommitInv, BackedInv, Consumer!Completion!ProcessedWasDelivered
  <1> QED
    BY <1>1, CommitsBacked, PTL

\* Worker's commit discipline survives the composition: with a topic that grows,
\* any number of workers and a completions table that a migration may drop at any
\* moment, the record just below the committed offset was handled and its job has a
\* final answer.
THEOREM CommitsFollowOutcomes == Spec => []Consumer!CommitFollowsOutcome
  <1>1. ASSUME IInv, CommitInv, committed[1] > 0
        PROVE  /\ committed[1] - 1 \in handled[1]
               /\ Consumer!Settled(Consumer!RecordAt(1, committed[1] - 1))
    <2>1. topic \in Seq(Events) /\ committed[1] \in Nat
      BY <1>1, ConsumerTypes DEF IInv, TypeOK, Outbox!TypeOK, LoopTyped
    <2>2. /\ committed[1] - 1 \in handled[1] /\ (committed[1] - 1) + 1 = committed[1]
          /\ committed[1] \in DOMAIN topic /\ Final(topic[committed[1]])
      BY <1>1, <2>1 DEF CommitInv, HandledInv
    <2>3. topic[committed[1]] # Malformed
      BY <2>1, <2>2, PipelineAssumption
    <2>4. Consumer!RecordAt(1, committed[1] - 1) = topic[committed[1]]
      BY <2>2, OnePartition DEF Consumer!RecordAt
    <2> QED
      BY <2>2, <2>3, <2>4 DEF Consumer!Settled, Final
  <1>2. IInv /\ CommitInv => Consumer!CommitFollowsOutcome
    BY <1>1, OnePartition DEF Consumer!CommitFollowsOutcome
  <1> QED
    BY <1>2, CommitsBacked, Inductive, PTL

\* Nor does the offset move back, not even by the late commit of a worker that has
\* lost the partition to another one.
THEOREM CommitsOnlyGrow == Spec => Consumer!CommittedNeverRegresses
  <1>1. ASSUME IInv, CommitInv, [Next]_vars
        PROVE  [\A p \in Consumer!Partitions : committed'[p] >= committed[p]
                  ]_(Consumer!vars)
    <2>1. committed[1] <= committed'[1] /\ committed[1] \in Nat /\ committed'[1] \in Nat
      <3>1. IInv'
        BY <1>1, NextIInv
      <3>2. LoopTyped /\ committed[1] \in Nat
        BY <1>1, ConsumerTypes DEF IInv, TypeOK, Outbox!TypeOK, LoopTyped
      <3>3. committed'[1] \in Nat
        <4>1. Consumer!TypeOK'
          BY <3>1 DEF IInv, TypeOK
        <4> QED
          BY <4>1, OnePartition DEF Consumer!TypeOK
      <3> QED
        BY <1>1, <3>2, <3>3, NextCommits DEF CommitsKept
    <2> QED
      BY <2>1, OnePartition
  <1> QED
    BY <1>1, CommitsBacked, Inductive, PTL DEF Spec, Consumer!CommittedNeverRegresses

================================================================================
