----------------------- MODULE ConsumerCompletion_proofs -----------------------
(***************************************************************************)
(* Proofs about ConsumerCompletion, for any finite set of workers, any       *)
(* number of records and faults, and whatever the downstream service        *)
(* answers: the invariants that a single row's races could break.           *)
(***************************************************************************)
EXTENDS ConsumerCompletion, FiniteSetTheorems, TLAPS

\* There is an event for an idle worker's frame to hold.
LEMMA NoJobIsEvent == NoJob \in Events
  BY CompletionAssumption DEF NoJob

PCs == StatementSteps \cup {"idle", "deliver", "returned"}

FrameTyped ==
    /\ pc \in [Workers -> PCs]
    /\ job \in [Workers -> Events]
    /\ outcome \in [Workers -> Classes \cup {"none"}]
    /\ verdict \in [Workers -> BOOLEAN]

TableTyped ==
    /\ status \in [Events -> {"absent", "processing", "processed", "failed"}]
    /\ attempts \in [Events -> Nat]

\* The step is one of worker w: the other workers' frames stay as they are.
OthersKept(w) ==
    \A v \in Workers \ {w} :
        /\ pc'[v] = pc[v] /\ job'[v] = job[v]
        /\ outcome'[v] = outcome[v] /\ verdict'[v] = verdict[v]

\* Going to another statement changes pc only.
LEMMA GotoFrame ==
    ASSUME FrameTyped, NEW w \in Workers, NEW step \in PCs, Goto(w, step)
    PROVE  /\ FrameTyped' /\ OthersKept(w)
           /\ pc'[w] = step
           /\ UNCHANGED <<job, outcome, verdict>>
  BY DEF FrameTyped, Goto, OthersKept

\* So does returning, but for the verdict.
LEMMA ReturnFrame ==
    ASSUME FrameTyped, NEW w \in Workers, NEW v \in BOOLEAN, Return(w, v)
    PROVE  /\ FrameTyped' /\ OthersKept(w)
           /\ pc'[w] = "returned"
           /\ verdict'[w] = v
           /\ UNCHANGED <<job, outcome>>
  BY DEF FrameTyped, Return, OthersKept, PCs

\* A worker that leaves, or dies, has nothing under way.
LEMMA LeaveFrame ==
    ASSUME FrameTyped, NEW w \in Workers, Leave(w)
    PROVE  FrameTyped' /\ OthersKept(w) /\ pc'[w] = "idle"
  BY NoJobIsEvent DEF FrameTyped, Leave, OthersKept, PCs

\* What an UPDATE may do to the rows: "processed" is final and only set for a job
\* that has been answered with a 2xx, rows stay, and no count goes down.
RowsMove ==
    \A e \in Events :
        /\ attempts'[e] >= attempts[e]
        /\ status'[e] = "absent" => status[e] = "absent"
        /\ status[e] = "processed" =>
              status'[e] = "processed" /\ attempts'[e] = attempts[e]
        /\ status'[e] = "processed" =>
              status[e] = "processed" \/ "delivered" \in answered[e]

\* An UPDATE whose WHERE clause does not name "processed", and that sets it only
\* after a 2xx.
LEMMA UpdateMoves ==
    ASSUME TableTyped, NEW e \in Events, NEW n \in Nat,
           NEW from \in {"absent", "processing", "failed"},
           NEW to \in {"processing", "processed", "failed"},
           to = "processed" => "delivered" \in answered[e],
           Update(e, from, to, n)
    PROVE  /\ TableTyped' /\ RowsMove
           /\ status[e] = from => status'[e] = to /\ attempts'[e] = attempts[e] + n
  BY DEF TableTyped, Update, table, RowsMove

\* A statement that leaves the table alone.
LEMMA SameRowsMove ==
    ASSUME TableTyped, UNCHANGED table PROVE TableTyped' /\ RowsMove
  BY DEF TableTyped, table, RowsMove

\* What a worker's statement does, whoever learns of it.
LEMMA EffectMoves ==
    ASSUME IInv, NEW w \in Workers, Effect(w) PROVE TableTyped' /\ RowsMove
  <1>1. TableTyped /\ job[w] \in Events /\ pc[w] \in PCs
    BY DEF IInv, TypeOK, TableTyped, PCs
  <1>2. CASE pc[w] = "insert"
    BY <1>1, <1>2, UpdateMoves DEF Effect, InsertRow
  <1>3. CASE pc[w] = "retry"
    BY <1>1, <1>3, UpdateMoves DEF Effect, BumpProcessing
  <1>4. CASE pc[w] = "reclaim"
    BY <1>1, <1>4, UpdateMoves DEF Effect, ReclaimFailed
  <1>5. CASE pc[w] = "mark_processed"
    <2>1. "delivered" \in answered[job[w]]
      BY <1>5 DEF IInv, WorkIsBacked
    <2> QED
      BY <1>1, <1>5, <2>1, UpdateMoves DEF Effect, SetProcessed
  <1>6. CASE pc[w] = "mark_failed"
    BY <1>1, <1>6, UpdateMoves DEF Effect, SetFailed
  <1>7. CASE pc[w] \notin {"insert", "retry", "reclaim", "mark_processed", "mark_failed"}
    BY <1>1, <1>7, SameRowsMove DEF Effect
  <1> QED
    BY <1>2, <1>3, <1>4, <1>5, <1>6, <1>7

\* Claimants are workers, so there is a number of them.
LEMMA ClaimantsFinite ==
    ASSUME NEW e \in Events
    PROVE  IsFiniteSet(Claimants(e)) /\ Cardinality(Claimants(e)) \in Nat
  <1>1. Claimants(e) \in SUBSET Workers
    BY DEF Claimants
  <1> QED
    BY <1>1, CompletionAssumption, FS_Subset, FS_CardinalityType

\* A step after which w is at no POST: the request it may have sent was claimed.
LEMMA ClaimSpent ==
    ASSUME IInv, TypeOK', RowsMove, NEW w \in Workers, OthersKept(w),
           pc'[w] # "deliver",
           \A e \in Events :
               \/ calls'[e] = calls[e]
               \/ e = job[w] /\ pc[w] = "deliver" /\ calls'[e] = calls[e] + 1
    PROVE  CallsAreClaimed'
  <1> SUFFICES ASSUME NEW e \in Events
               PROVE  calls'[e] + Cardinality(Claimants(e)') <= attempts'[e]
    BY DEF CallsAreClaimed
  <1> DEFINE S == Claimants(e)
  <1>1. /\ IsFiniteSet(S) /\ Cardinality(S) \in Nat
        /\ calls[e] + Cardinality(S) <= attempts[e] /\ attempts[e] <= attempts'[e]
        /\ calls[e] \in Nat /\ attempts[e] \in Nat /\ attempts'[e] \in Nat
    BY ClaimantsFinite DEF IInv, TypeOK, CallsAreClaimed, RowsMove
  <1>2. S' = S \ {w}
    BY DEF Claimants, OthersKept
  <1>3. Cardinality(S') = IF w \in S THEN Cardinality(S) - 1 ELSE Cardinality(S)
    BY <1>1, <1>2, FS_RemoveElement
  <1>4. w \in S <=> e = job[w] /\ pc[w] = "deliver"
    BY DEF Claimants
  <1>5. calls'[e] = calls[e] \/ (w \in S /\ calls'[e] = calls[e] + 1)
    BY <1>4
  <1> HIDE DEF S
  <1>6. calls'[e] + Cardinality(S') <= attempts'[e]
    BY <1>1, <1>3, <1>5
  <1> QED
    BY <1>6 DEF S

\* A claim that ends at the POST has counted one attempt more.
LEMMA ClaimCounted ==
    ASSUME IInv, TypeOK', RowsMove, NEW w \in Workers, OthersKept(w),
           pc[w] # "deliver", job'[w] = job[w], UNCHANGED calls,
           attempts'[job[w]] = attempts[job[w]] + 1
    PROVE  CallsAreClaimed'
  <1> SUFFICES ASSUME NEW e \in Events
               PROVE  calls'[e] + Cardinality(Claimants(e)') <= attempts'[e]
    BY DEF CallsAreClaimed
  <1> DEFINE S == Claimants(e)
  <1>1. /\ IsFiniteSet(S) /\ Cardinality(S) \in Nat
        /\ calls[e] + Cardinality(S) <= attempts[e] /\ attempts[e] <= attempts'[e]
        /\ calls[e] \in Nat /\ attempts[e] \in Nat /\ attempts'[e] \in Nat
    BY ClaimantsFinite DEF IInv, TypeOK, CallsAreClaimed, RowsMove
  <1>2. w \notin S
    BY DEF Claimants
  <1>3. S' = S \/ (e = job[w] /\ S' = S \cup {w})
    BY DEF Claimants, OthersKept
  <1>4. Cardinality(S \cup {w}) = Cardinality(S) + 1
    BY <1>1, <1>2, FS_AddElement
  <1>5. \/ Cardinality(S') = Cardinality(S)
        \/ Cardinality(S') = Cardinality(S) + 1 /\ attempts'[e] = attempts[e] + 1
    BY <1>3, <1>4
  <1> HIDE DEF S
  <1>6. calls'[e] + Cardinality(S') <= attempts'[e]
    BY <1>1, <1>5
  <1> QED
    BY <1>6 DEF S

\* The two invariants about workers, for one worker.
Backed(w) ==
    /\ pc[w] \notin {"idle", "insert", "returned"} => status[job[w]] # "absent"
    /\ pc[w] = "mark_processed" => "delivered" \in answered[job[w]]
    /\ pc[w] = "mark_failed" /\ outcome[w] = "permanent" =>
          answered[job[w]] \cap FinalMeanings # {}
    /\ pc[w] = "returned" /\ verdict[w] =>
          /\ answered[job[w]] \cap FinalMeanings # {}
          /\ status[job[w]] # "absent"

\* A step of w leaves every other worker backed: rows stay, and so do answers.
LEMMA WorkerStep ==
    ASSUME IInv, TypeOK', RowsMove, CallsAreClaimed',
           NEW w \in Workers, OthersKept(w), Backed(w)',
           \A e \in Events : answered[e] \subseteq answered'[e]
    PROVE  IInv'
  <1>1. ProcessedWasDelivered'
    BY DEF IInv, ProcessedWasDelivered, RowsMove
  <1>2. \A v \in Workers : Backed(v)'
    <2> SUFFICES ASSUME NEW v \in Workers, v # w PROVE Backed(v)'
      OBVIOUS
    <2>1. Backed(v) /\ job[v] \in Events
      BY DEF IInv, TypeOK, Backed, WorkIsBacked, VerdictIsBacked
    <2>2. /\ pc'[v] = pc[v] /\ job'[v] = job[v]
          /\ outcome'[v] = outcome[v] /\ verdict'[v] = verdict[v]
      BY DEF OthersKept
    <2>3. /\ status'[job[v]] = "absent" => status[job[v]] = "absent"
          /\ answered[job[v]] \subseteq answered'[job[v]]
      BY <2>1 DEF RowsMove
    <2> QED
      BY <2>1, <2>2, <2>3 DEF Backed
  <1>3. WorkIsBacked' /\ VerdictIsBacked'
    BY <1>2 DEF Backed, WorkIsBacked, VerdictIsBacked
  <1> QED
    BY <1>1, <1>3 DEF IInv

\* The invariant's types, by part of the state.
LEMMA TypeParts ==
    TypeOK <=> /\ FrameTyped /\ TableTyped
               /\ calls \in [Events -> Nat]
               /\ answered \in [Events -> SUBSET Meanings]
               /\ faults \in Nat
  BY DEF TypeOK, FrameTyped, TableTyped, PCs

\* The same after a step.
LEMMA NextTypeParts ==
    ASSUME FrameTyped', TableTyped', calls' \in [Events -> Nat],
           answered' \in [Events -> SUBSET Meanings], faults' \in Nat
    PROVE  TypeOK'
  BY DEF TypeOK, FrameTyped, TableTyped, PCs

\* A statement that does not end at the POST.
LEMMA StatementStep ==
    ASSUME IInv, NEW w \in Workers, TableTyped', RowsMove, FrameTyped', OthersKept(w),
           UNCHANGED history, faults' \in Nat, pc'[w] # "deliver", Backed(w)'
    PROVE  IInv'
  <1>1. TypeOK'
    BY TypeParts, NextTypeParts DEF IInv, history
  <1>2. CallsAreClaimed'
    BY <1>1, ClaimSpent DEF history
  <1> QED
    BY <1>1, <1>2, WorkerStep DEF history

\* The statement with which a claim ends.
LEMMA ClaimStep ==
    ASSUME IInv, NEW w \in Workers, TableTyped', RowsMove, Goto(w, "deliver"),
           UNCHANGED <<history, faults>>, pc[w] # "deliver",
           status'[job[w]] = "processing",
           attempts'[job[w]] = attempts[job[w]] + 1
    PROVE  IInv'
  <1>1. FrameTyped' /\ OthersKept(w) /\ pc'[w] = "deliver" /\ job'[w] = job[w]
    BY TypeParts, GotoFrame DEF IInv, PCs
  <1>2. TypeOK'
    BY <1>1, TypeParts, NextTypeParts DEF IInv, history
  <1>3. CallsAreClaimed'
    BY <1>1, <1>2, ClaimCounted DEF history
  <1>4. Backed(w)'
    BY <1>1 DEF Backed
  <1> QED
    BY <1>1, <1>2, <1>3, <1>4, WorkerStep DEF history

\* A statement after which w goes on to another one.
LEMMA GoOn ==
    ASSUME IInv, NEW w \in Workers, TableTyped', RowsMove,
           NEW step \in {"select", "retry", "reclaim"}, Goto(w, step),
           UNCHANGED <<history, faults>>, status[job[w]] # "absent"
    PROVE  IInv'
  <1>1. /\ FrameTyped' /\ OthersKept(w) /\ pc'[w] = step /\ job'[w] = job[w]
        /\ job[w] \in Events /\ faults' \in Nat
    BY TypeParts, GotoFrame DEF IInv, TypeOK, PCs, StatementSteps
  <1>2. Backed(w)'
    BY <1>1 DEF Backed, RowsMove
  <1> QED
    BY <1>1, <1>2, StatementStep

\* A statement after which handleRecord returns.
LEMMA GiveVerdict ==
    ASSUME IInv, NEW w \in Workers, TableTyped', RowsMove,
           NEW v \in BOOLEAN, Return(w, v), UNCHANGED history, faults' \in Nat,
           v => /\ answered[job[w]] \cap FinalMeanings # {}
                /\ status[job[w]] # "absent"
    PROVE  IInv'
  <1>1. /\ FrameTyped' /\ OthersKept(w) /\ pc'[w] = "returned" /\ job'[w] = job[w]
        /\ verdict'[w] = v /\ job[w] \in Events
    BY TypeParts, ReturnFrame DEF IInv, TypeOK
  <1>2. status'[job[w]] = "absent" => status[job[w]] = "absent"
    BY <1>1 DEF RowsMove
  <1>3. Backed(w)'
    BY <1>1, <1>2 DEF Backed, history
  <1> QED
    BY <1>1, <1>3, StatementStep

\* The statements of the claim.
LEMMA ClaimIInv ==
    ASSUME IInv, NEW w \in Workers,
           ClaimInsert(w) \/ ClaimSelect(w) \/ ClaimRetry(w) \/ ClaimReclaim(w)
    PROVE  IInv'
  <1>1. /\ TableTyped /\ job[w] \in Events /\ faults \in Nat
        /\ status[job[w]] \in {"absent", "processing", "processed", "failed"}
    BY DEF IInv, TypeOK, TableTyped
  <1>2. CASE ClaimInsert(w)
    <2>1. /\ TableTyped' /\ RowsMove
          /\ status[job[w]] = "absent" =>
                status'[job[w]] = "processing" /\ attempts'[job[w]] = attempts[job[w]] + 1
      BY <1>1, <1>2, UpdateMoves DEF ClaimInsert, InsertRow
    <2>2. CASE status[job[w]] = "absent"
      BY <1>2, <2>1, <2>2, ClaimStep DEF ClaimInsert
    <2>3. CASE status[job[w]] # "absent"
      BY <1>2, <2>1, <2>3, GoOn DEF ClaimInsert
    <2> QED
      BY <2>2, <2>3
  <1>3. CASE ClaimSelect(w)
    <2>1. TableTyped' /\ RowsMove /\ UNCHANGED <<history, faults>>
      BY <1>1, <1>3, SameRowsMove DEF ClaimSelect
    <2>2. status[job[w]] # "absent"
      BY <1>3 DEF IInv, WorkIsBacked, ClaimSelect
    <2>3. CASE status[job[w]] = "processed"
      <3>1. "delivered" \in answered[job[w]]
        BY <1>1, <2>3 DEF IInv, ProcessedWasDelivered
      <3>2. Return(w, TRUE)
        BY <1>3, <2>3 DEF ClaimSelect
      <3>3. answered[job[w]] \cap FinalMeanings # {} /\ faults' \in Nat
        BY <1>1, <2>1, <3>1 DEF FinalMeanings, Meanings
      <3> QED
        BY <2>1, <2>2, <3>2, <3>3, GiveVerdict
    <2>4. CASE status[job[w]] = "processing"
      BY <1>3, <2>1, <2>2, <2>4, GoOn DEF ClaimSelect
    <2>5. CASE status[job[w]] = "failed"
      BY <1>3, <2>1, <2>2, <2>5, GoOn DEF ClaimSelect
    <2> QED
      BY <1>1, <2>2, <2>3, <2>4, <2>5
  <1>4. CASE ClaimRetry(w)
    <2>1. /\ TableTyped' /\ RowsMove
          /\ status[job[w]] = "processing" =>
                status'[job[w]] = "processing" /\ attempts'[job[w]] = attempts[job[w]] + 1
      BY <1>1, <1>4, UpdateMoves DEF ClaimRetry, BumpProcessing
    <2>2. CASE status[job[w]] = "processing"
      BY <1>4, <2>1, <2>2, ClaimStep DEF ClaimRetry
    <2>3. CASE status[job[w]] # "processing"
      BY <1>1, <1>4, <2>1, <2>3, GiveVerdict DEF ClaimRetry
    <2> QED
      BY <2>2, <2>3
  <1>5. CASE ClaimReclaim(w)
    <2>1. /\ TableTyped' /\ RowsMove
          /\ status[job[w]] = "failed" =>
                status'[job[w]] = "processing" /\ attempts'[job[w]] = attempts[job[w]] + 1
      BY <1>1, <1>5, UpdateMoves DEF ClaimReclaim, ReclaimFailed
    <2>2. CASE status[job[w]] = "failed"
      BY <1>5, <2>1, <2>2, ClaimStep DEF ClaimReclaim
    <2>3. CASE status[job[w]] # "failed"
      BY <1>1, <1>5, <2>1, <2>3, GiveVerdict DEF ClaimReclaim
    <2> QED
      BY <2>2, <2>3
  <1> QED
    BY <1>2, <1>3, <1>4, <1>5

\* DeliverJob and classifyHTTPStatus do what docs/branches/19 lists, at every code it
\* names and without an answer: 2xx is success, 400, 404 and 422 are permanent, 429,
\* 5xx and no answer are retryable.  No code outside 2xx counts as success.
THEOREM ClassesAgree ==
    /\ \A r \in AnyResponse : DeliverJob(r) = "ok" <=> r \in Delivered
    /\ \A r \in Refused : DeliverJob(r) = "permanent"
    /\ \A r \in Unavailable : DeliverJob(r) = "retryable"
  <1>1. \A r \in AnyResponse : DeliverJob(r) = "ok" <=> r \in Delivered
    <2> SUFFICES ASSUME NEW r \in AnyResponse
                 PROVE  DeliverJob(r) = "ok" <=> r \in Delivered
      OBVIOUS
    <2>1. r \in Nat
      BY DEF AnyResponse, NoResponse, StatusCodes
    <2> QED
      BY <2>1 DEF DeliverJob, NoResponse, Delivered, classifyHTTPStatus
  <1>2. \A r \in Refused : DeliverJob(r) = "permanent"
    BY DEF Refused, DeliverJob, NoResponse, classifyHTTPStatus
  <1>3. ASSUME NEW r \in Unavailable PROVE DeliverJob(r) = "retryable"
    <2>1. r = 0 \/ r = 429 \/ (r \in Nat /\ r >= 500)
      BY DEF Unavailable, NoResponse
    <2> QED
      BY <2>1 DEF DeliverJob, NoResponse, classifyHTTPStatus
  <1> QED
    BY <1>1, <1>2, <1>3

\* So what is called done was delivered, and what is called permanent was not a
\* retryable answer.
LEMMA ResponseMeans ==
    ASSUME NEW r \in AnyResponse
    PROVE  /\ DeliverJob(r) = "ok" => Meaning(r) = "delivered"
           /\ DeliverJob(r) = "permanent" => Meaning(r) \in FinalMeanings
           /\ DeliverJob(r) \in Classes /\ Meaning(r) \in Meanings
  <1>1. DeliverJob(r) \in Classes /\ Meaning(r) \in Meanings
    BY DEF DeliverJob, classifyHTTPStatus, Classes, Meaning, Meanings
  <1>2. DeliverJob(r) = "ok" => Meaning(r) = "delivered"
    BY ClassesAgree DEF Meaning
  <1>3. DeliverJob(r) = "permanent" => r \notin Unavailable
    BY ClassesAgree
  <1>4. r \notin Unavailable => Meaning(r) \in FinalMeanings
    BY DEF Meaning, FinalMeanings, Meanings
  <1> QED
    BY <1>1, <1>2, <1>3, <1>4

\* The POST and what DeliverJob makes of the answer.
LEMMA DeliverIInv ==
    ASSUME IInv, NEW w \in Workers, NEW r \in Responses, Deliver(w, r) PROVE IInv'
  <1>1. /\ FrameTyped /\ TableTyped /\ job[w] \in Events /\ r \in AnyResponse
        /\ calls \in [Events -> Nat] /\ answered \in [Events -> SUBSET Meanings]
    BY TypeParts, CompletionAssumption DEF IInv, TypeOK
  <1> DEFINE o == DeliverJob(r)
             said == Meaning(r)
  <1>0. /\ o = "ok" => said = "delivered"
        /\ o = "permanent" => said \in FinalMeanings
        /\ o \in Classes /\ said \in Meanings
    BY <1>1, ResponseMeans
  <1>2. /\ calls' = [calls EXCEPT ![job[w]] = @ + 1]
        /\ answered' = [answered EXCEPT ![job[w]] = @ \cup {said}]
        /\ outcome' = [outcome EXCEPT ![w] = o]
        /\ pc' = [pc EXCEPT ![w] = IF o = "ok" THEN "mark_processed" ELSE "mark_failed"]
        /\ UNCHANGED <<table, job, verdict, faults>> /\ pc[w] = "deliver"
    BY DEF Deliver
  <1> HIDE DEF o, said
  <1>3. /\ FrameTyped' /\ OthersKept(w) /\ job'[w] = job[w] /\ outcome'[w] = o
        /\ pc'[w] = IF o = "ok" THEN "mark_processed" ELSE "mark_failed"
    BY <1>0, <1>1, <1>2 DEF FrameTyped, OthersKept, PCs, StatementSteps
  <1>4. TableTyped' /\ RowsMove
    BY <1>1, <1>2, SameRowsMove
  <1>5. /\ calls' \in [Events -> Nat] /\ answered' \in [Events -> SUBSET Meanings]
        /\ said \in answered'[job[w]]
        /\ \A e \in Events : answered[e] \subseteq answered'[e]
        /\ \A e \in Events :
              calls'[e] = calls[e] \/ (e = job[w] /\ calls'[e] = calls[e] + 1)
    BY <1>0, <1>1, <1>2
  <1>6. TypeOK'
    BY <1>2, <1>3, <1>4, <1>5, NextTypeParts DEF IInv, TypeOK
  <1>7. CallsAreClaimed'
    BY <1>2, <1>3, <1>4, <1>5, <1>6, ClaimSpent
  <1>8. status'[job[w]] # "absent"
    BY <1>2 DEF table, IInv, WorkIsBacked
  <1>9. Backed(w)'
    BY <1>0, <1>3, <1>5, <1>8 DEF Backed
  <1> QED
    BY <1>3, <1>4, <1>5, <1>6, <1>7, <1>9, WorkerStep

\* The marks.
LEMMA MarkIInv ==
    ASSUME IInv, NEW w \in Workers, MarkProcessed(w) \/ MarkFailed(w) PROVE IInv'
  <1>1. TableTyped /\ job[w] \in Events /\ faults \in Nat
    BY TypeParts DEF IInv, TypeOK
  <1>2. CASE MarkProcessed(w)
    <2>1. "delivered" \in answered[job[w]] /\ status[job[w]] # "absent"
      BY <1>2 DEF MarkProcessed, IInv, WorkIsBacked
    <2>2. TableTyped' /\ RowsMove
      BY <1>1, <1>2, <2>1, UpdateMoves DEF MarkProcessed, SetProcessed
    <2>3. answered[job[w]] \cap FinalMeanings # {}
      BY <2>1 DEF FinalMeanings, Meanings
    <2> QED
      BY <1>1, <1>2, <2>1, <2>2, <2>3, GiveVerdict DEF MarkProcessed
  <1>3. CASE MarkFailed(w)
    <2>1. /\ outcome[w] = "permanent" => answered[job[w]] \cap FinalMeanings # {}
          /\ status[job[w]] # "absent"
      BY <1>3 DEF MarkFailed, IInv, WorkIsBacked
    <2>2. TableTyped' /\ RowsMove
      BY <1>1, <1>3, UpdateMoves DEF MarkFailed, SetFailed
    <2> QED
      BY <1>1, <1>3, <2>1, <2>2, GiveVerdict DEF MarkFailed
  <1> QED
    BY <1>2, <1>3

\* Failed statements, whether or not they took effect.
LEMMA StatementFailsIInv ==
    ASSUME IInv, NEW w \in Workers, StatementFails(w) PROVE IInv'
  <1>1. TableTyped' /\ RowsMove
    BY TypeParts, SameRowsMove, EffectMoves DEF StatementFails, IInv
  <1>2. faults' \in Nat
    BY DEF StatementFails, Fault, IInv, TypeOK
  <1> QED
    BY <1>1, <1>2, GiveVerdict DEF StatementFails

\* A worker that dies keeps nothing; a request it sent was claimed.
LEMMA DieIInv == ASSUME IInv, NEW w \in Workers, Die(w), faults' \in Nat PROVE IInv'
  <1>1. TableTyped' /\ RowsMove
    BY TypeParts, SameRowsMove, EffectMoves DEF Die, IInv
  <1>2. FrameTyped' /\ OthersKept(w) /\ pc'[w] = "idle"
    BY TypeParts, LeaveFrame DEF Die, IInv
  <1>3. /\ calls \in [Events -> Nat] /\ answered' = answered /\ job[w] \in Events
        /\ answered \in [Events -> SUBSET Meanings]
    BY DEF Die, IInv, TypeOK
  <1>4. /\ calls' \in [Events -> Nat]
        /\ \A e \in Events :
              \/ calls'[e] = calls[e]
              \/ e = job[w] /\ pc[w] = "deliver" /\ calls'[e] = calls[e] + 1
    BY <1>3 DEF Die
  <1>5. TypeOK'
    BY <1>1, <1>2, <1>3, <1>4, NextTypeParts
  <1>6. CallsAreClaimed'
    BY <1>1, <1>2, <1>4, <1>5, ClaimSpent
  <1>7. Backed(w)'
    BY <1>2 DEF Backed
  <1> QED
    BY <1>1, <1>2, <1>3, <1>5, <1>6, <1>7, WorkerStep

\* A record comes to handleRecord.
LEMMA StartIInv ==
    ASSUME IInv, NEW w \in Workers, NEW e \in Events, Start(w, e) PROVE IInv'
  <1>1. FrameTyped' /\ OthersKept(w) /\ pc'[w] = "insert"
    BY TypeParts DEF Start, IInv, FrameTyped, OthersKept, PCs, StatementSteps
  <1>2. TableTyped' /\ RowsMove /\ faults' \in Nat
    BY TypeParts, SameRowsMove DEF Start, IInv
  <1>3. Backed(w)'
    BY <1>1 DEF Backed
  <1> QED
    BY <1>1, <1>2, <1>3, StatementStep DEF Start

\* The loop takes the verdict.
LEMMA TakeVerdictIInv == ASSUME IInv, NEW w \in Workers, TakeVerdict(w) PROVE IInv'
  <1>1. FrameTyped' /\ OthersKept(w) /\ pc'[w] = "idle"
    BY TypeParts, LeaveFrame DEF TakeVerdict, IInv
  <1>2. TableTyped' /\ RowsMove /\ faults' \in Nat
    BY TypeParts, SameRowsMove DEF TakeVerdict, IInv
  <1>3. Backed(w)'
    BY <1>1 DEF Backed
  <1> QED
    BY <1>1, <1>2, <1>3, StatementStep DEF TakeVerdict

\* The empty table satisfies the inductive invariant.
LEMMA InitIInv == Init => IInv
  <1> SUFFICES ASSUME Init PROVE IInv
    OBVIOUS
  <1>1. TypeOK
    BY NoJobIsEvent DEF Init, TypeOK, StatementSteps, Classes
  <1>2. CallsAreClaimed
    <2>1. \A e \in Events : Claimants(e) = {}
      BY DEF Init, Claimants
    <2> QED
      BY <2>1, FS_EmptySet DEF Init, CallsAreClaimed
  <1>3. ProcessedWasDelivered /\ VerdictIsBacked /\ WorkIsBacked
    BY DEF Init, ProcessedWasDelivered, VerdictIsBacked, WorkIsBacked
  <1> QED
    BY <1>1, <1>2, <1>3 DEF IInv

\* Every step of every worker.
LEMMA NextIInv == IInv /\ [Next]_vars => IInv'
  <1> SUFFICES ASSUME IInv, [Next]_vars PROVE IInv'
    OBVIOUS
  <1>1. ASSUME NEW w \in Workers, NEW e \in Events, Start(w, e) PROVE IInv'
    BY <1>1, StartIInv
  <1>2. ASSUME NEW w \in Workers, HandleStep(w) PROVE IInv'
    BY <1>2, ClaimIInv, DeliverIInv, MarkIInv DEF HandleStep
  <1>3. ASSUME NEW w \in Workers, StatementFails(w) PROVE IInv'
    BY <1>3, StatementFailsIInv
  <1>4. ASSUME NEW w \in Workers, Crash(w) PROVE IInv'
    <2>1. faults' \in Nat
      BY <1>4 DEF Crash, Fault, IInv, TypeOK
    <2> QED
      BY <1>4, <2>1, DieIInv DEF Crash
  <1>5. ASSUME NEW w \in Workers, TakeVerdict(w) PROVE IInv'
    BY <1>5, TakeVerdictIInv
  <1>6. CASE UNCHANGED vars
    BY <1>6
       DEF vars, table, frame, history, IInv, TypeOK, ProcessedWasDelivered,
           CallsAreClaimed, Claimants, VerdictIsBacked, WorkIsBacked
  <1> QED
    BY <1>1, <1>2, <1>3, <1>4, <1>5, <1>6 DEF Next

\* The inductive invariant holds in every behaviour.
LEMMA Inductive == Spec => []IInv
  BY InitIInv, NextIInv, PTL DEF Spec

\* The statements keep the row within its CHECK constraint and handleRecord at
\* one of its steps.
THEOREM TypeCorrect == Spec => []TypeOK
  <1>1. IInv => TypeOK
    BY DEF IInv
  <1> QED
    BY <1>1, Inductive, PTL

\* MarkConsumerProcessed never follows anything but a 2xx of the same event,
\* whichever workers claim and mark the row in between.
THEOREM ProcessedMeansDelivered == Spec => []ProcessedWasDelivered
  <1>1. IInv => ProcessedWasDelivered
    BY DEF IInv
  <1> QED
    BY <1>1, Inductive, PTL

\* attempt_count is never behind the POSTs: no number of concurrent claims, lost
\* answers and crashes lets two requests share a claim.
THEOREM NoUncountedCall == Spec => []CallsAreClaimed
  <1>1. IInv => CallsAreClaimed
    BY DEF IInv
  <1> QED
    BY <1>1, Inductive, PTL

\* When handleRecord says that a record is safe to commit, its event has been
\* answered for good and has a row.
THEOREM SafeToCommitIsBacked == Spec => []VerdictIsBacked
  <1>1. IInv => VerdictIsBacked
    BY DEF IInv
  <1> QED
    BY <1>1, Inductive, PTL

\* Every step moves the rows as RowsMove allows.
LEMMA NextRowsMove == IInv /\ [Next]_vars => RowsMove
  <1> SUFFICES ASSUME IInv, [Next]_vars PROVE RowsMove
    OBVIOUS
  <1>1. TableTyped /\ \A w \in Workers : job[w] \in Events
    BY TypeParts DEF IInv, TypeOK
  <1>2. ASSUME NEW w \in Workers, Effect(w) \/ UNCHANGED table PROVE RowsMove
    BY <1>1, <1>2, EffectMoves, SameRowsMove
  <1>3. ASSUME NEW w \in Workers, HandleStep(w) PROVE Effect(w) \/ UNCHANGED table
    BY <1>3
       DEF HandleStep, ClaimInsert, ClaimSelect, ClaimRetry, ClaimReclaim, Deliver,
           MarkProcessed, MarkFailed, Effect
  <1>4. ASSUME NEW w \in Workers,
               StatementFails(w) \/ Crash(w) \/ TakeVerdict(w)
                 \/ \E e \in Events : Start(w, e)
        PROVE  Effect(w) \/ UNCHANGED table
    BY <1>4 DEF StatementFails, Crash, Die, TakeVerdict, Start
  <1>5. CASE UNCHANGED vars
    BY <1>1, <1>5, SameRowsMove DEF vars
  <1> QED
    BY <1>2, <1>3, <1>4, <1>5 DEF Next

\* The WHERE clauses of the claim and of both marks leave a processed row alone.
THEOREM ProcessedStays == Spec => ProcessedIsFinal
  <1>1. IInv /\ [Next]_vars =>
          [\A e \in Events : status[e] = "processed" =>
              status'[e] = "processed" /\ attempts'[e] = attempts[e]]_vars
    BY NextRowsMove DEF RowsMove
  <1> QED
    BY <1>1, Inductive, PTL DEF Spec, ProcessedIsFinal

--------------------------------------------------------------------------------
(* A worker that has its event to itself *)

\* What a worker that has its event to itself knows of the row at each statement.
RowIsMine(w) ==
    /\ pc[w] \in {"retry", "deliver", "mark_processed", "mark_failed"} =>
          status[job[w]] = "processing"
    /\ pc[w] = "reclaim" => status[job[w]] = "failed"
    /\ pc[w] = "returned" /\ verdict[w] => status[job[w]] \in {"processed", "failed"}

\* An UPDATE whose WHERE clause holds sets the status.
LEMMA UpdateSets ==
    ASSUME TableTyped, NEW e \in Events, NEW from, NEW to, NEW n,
           status[e] = from, Update(e, from, to, n)
    PROVE  status'[e] = to
  BY DEF TableTyped, Update

\* Its own statements find the row as it has left it.
LEMMA StatementsKeepRow ==
    ASSUME IInv, NEW w \in Workers, RowIsMine(w), HandleStep(w) PROVE RowIsMine(w)'
  <1>1. FrameTyped /\ TableTyped /\ job[w] \in Events
    BY TypeParts DEF IInv, TypeOK
  <1>2. CASE ClaimInsert(w)
    <2>1. CASE status[job[w]] = "absent"
      BY <1>1, <1>2, <2>1, GotoFrame
         DEF ClaimInsert, InsertRow, Update, TableTyped, RowIsMine, PCs, StatementSteps
    <2>2. CASE status[job[w]] # "absent"
      BY <1>1, <1>2, <2>2, GotoFrame DEF ClaimInsert, RowIsMine, PCs, StatementSteps
    <2> QED
      BY <2>1, <2>2
  <1>3. CASE ClaimSelect(w)
    <2>1. status' = status
      BY <1>3 DEF ClaimSelect, table
    <2>2. CASE status[job[w]] = "processed" /\ Return(w, TRUE)
      BY <1>1, <2>1, <2>2, ReturnFrame DEF RowIsMine
    <2>3. CASE status[job[w]] = "processing" /\ Goto(w, "retry")
      BY <1>1, <2>1, <2>3, GotoFrame DEF RowIsMine, PCs, StatementSteps
    <2>4. CASE status[job[w]] = "failed" /\ Goto(w, "reclaim")
      BY <1>1, <2>1, <2>4, GotoFrame DEF RowIsMine, PCs, StatementSteps
    <2>5. CASE Return(w, FALSE)
      BY <1>1, <2>5, ReturnFrame DEF RowIsMine
    <2>6. status[job[w]] \in {"absent", "processing", "processed", "failed"}
      BY <1>1 DEF TableTyped
    <2> QED
      BY <1>3, <2>2, <2>3, <2>4, <2>5, <2>6 DEF ClaimSelect
  <1>4. CASE ClaimRetry(w)
    <2>1. status[job[w]] = "processing" /\ Goto(w, "deliver")
      BY <1>4 DEF ClaimRetry, RowIsMine
    <2>2. status'[job[w]] = "processing"
      BY <1>1, <1>4, <2>1, UpdateSets DEF ClaimRetry, BumpProcessing
    <2> QED
      BY <1>1, <2>1, <2>2, GotoFrame DEF RowIsMine, PCs
  <1>5. CASE ClaimReclaim(w)
    <2>1. status[job[w]] = "failed" /\ Goto(w, "deliver")
      BY <1>5 DEF ClaimReclaim, RowIsMine
    <2>2. status'[job[w]] = "processing"
      BY <1>1, <1>5, <2>1, UpdateSets DEF ClaimReclaim, ReclaimFailed
    <2> QED
      BY <1>1, <2>1, <2>2, GotoFrame DEF RowIsMine, PCs
  <1>6. CASE \E r \in Responses : Deliver(w, r)
    BY <1>1, <1>6 DEF Deliver, table, FrameTyped, RowIsMine
  <1>7. CASE MarkProcessed(w)
    <2>1. status'[job[w]] = "processed"
      BY <1>1, <1>7, UpdateSets DEF MarkProcessed, SetProcessed, RowIsMine
    <2> QED
      BY <1>1, <1>7, <2>1, ReturnFrame DEF MarkProcessed, RowIsMine
  <1>8. CASE MarkFailed(w)
    <2>1. status'[job[w]] = "failed"
      BY <1>1, <1>8, UpdateSets DEF MarkFailed, SetFailed, RowIsMine
    <2>2. Return(w, outcome[w] = "permanent")
      BY <1>8 DEF MarkFailed
    <2> QED
      BY <1>1, <2>1, <2>2, ReturnFrame DEF RowIsMine
  <1> QED
    BY <1>2, <1>3, <1>4, <1>5, <1>6, <1>7, <1>8 DEF HandleStep

\* A worker that starts, gives up, is done or dies claims nothing of the row.
LEMMA OtherStepsKeepRow ==
    ASSUME FrameTyped, NEW w \in Workers,
           \/ \E e \in Events : Start(w, e)
           \/ StatementFails(w) \/ TakeVerdict(w) \/ Die(w)
    PROVE  RowIsMine(w)'
  <1>1. CASE \E e \in Events : Start(w, e)
    BY <1>1 DEF Start, FrameTyped, RowIsMine
  <1>2. CASE StatementFails(w)
    BY <1>2, ReturnFrame DEF StatementFails, RowIsMine
  <1>3. CASE TakeVerdict(w) \/ Die(w)
    BY <1>3, LeaveFrame DEF TakeVerdict, Die, RowIsMine
  <1> QED
    BY <1>1, <1>2, <1>3

\* It sends a job only while the row says that it is being processed.
LEMMA CallsOfMine ==
    ASSUME IInv, NEW w \in Workers, RowIsMine(w), HandleStep(w) \/ Die(w)
    PROVE  \A e \in Events : calls'[e] # calls[e] => status[e] = "processing"
  <1>1. calls \in [Events -> Nat] /\ job[w] \in Events
    BY DEF IInv, TypeOK
  <1>2. \/ UNCHANGED calls
        \/ pc[w] = "deliver" /\ calls' = [calls EXCEPT ![job[w]] = @ + 1]
    <2>1. CASE Die(w)
      BY <2>1 DEF Die
    <2>2. CASE \E r \in Responses : Deliver(w, r)
      BY <2>2 DEF Deliver
    <2>3. CASE HandleStep(w) /\ ~ \E r \in Responses : Deliver(w, r)
      BY <2>3 DEF HandleStep, ClaimInsert, ClaimSelect, ClaimRetry, ClaimReclaim,
                  MarkProcessed, MarkFailed, history
    <2> QED
      BY <2>1, <2>2, <2>3
  <1> QED
    BY <1>1, <1>2 DEF RowIsMine

\* No answer leaves the job to be tried again, and no statement fails.
NothingFails ==
    MaxFaults = 0 /\ \A r \in Responses : DeliverJob(r) # "retryable"

\* Then handleRecord returns true.
Succeeds(w) ==
    /\ pc[w] = "mark_failed" => outcome[w] = "permanent"
    /\ pc[w] = "returned" => verdict[w]

\* Its statements find what they look for and its POSTs are answered for good.
LEMMA StatementsSucceed ==
    ASSUME IInv, NothingFails, NEW w \in Workers, RowIsMine(w), Succeeds(w), HandleStep(w)
    PROVE  Succeeds(w)'
  <1>1. FrameTyped /\ TableTyped /\ job[w] \in Events
    BY TypeParts DEF IInv, TypeOK
  <1>2. CASE ClaimInsert(w)
    BY <1>1, <1>2, GotoFrame DEF ClaimInsert, Succeeds, PCs, StatementSteps
  <1>3. CASE ClaimSelect(w)
    <2>1. status[job[w]] # "absent" /\ pc[w] = "select"
      BY <1>3 DEF IInv, WorkIsBacked, ClaimSelect
    <2>2. \/ Return(w, TRUE)
          \/ \E step \in {"retry", "reclaim"} : Goto(w, step)
      BY <1>1, <1>3, <2>1 DEF ClaimSelect, TableTyped
    <2> QED
      BY <1>1, <2>2, GotoFrame, ReturnFrame DEF Succeeds, PCs, StatementSteps
  <1>4. CASE ClaimRetry(w)
    <2>1. Goto(w, "deliver")
      BY <1>4 DEF ClaimRetry, RowIsMine
    <2> QED
      BY <1>1, <2>1, GotoFrame DEF Succeeds, PCs
  <1>5. CASE ClaimReclaim(w)
    <2>1. Goto(w, "deliver")
      BY <1>5 DEF ClaimReclaim, RowIsMine
    <2> QED
      BY <1>1, <2>1, GotoFrame DEF Succeeds, PCs
  <1>6. CASE \E r \in Responses : Deliver(w, r)
    <2>1. PICK r \in Responses : Deliver(w, r)
      BY <1>6
    <2>2. DeliverJob(r) \in {"ok", "permanent"}
      BY ResponseMeans, CompletionAssumption DEF NothingFails, Classes
    <2> QED
      BY <1>1, <2>1, <2>2 DEF Deliver, FrameTyped, Succeeds
  <1>7. CASE MarkProcessed(w)
    BY <1>1, <1>7, ReturnFrame DEF MarkProcessed, RowIsMine, Succeeds
  <1>8. CASE MarkFailed(w)
    BY <1>1, <1>8, ReturnFrame DEF MarkFailed, Succeeds
  <1> QED
    BY <1>2, <1>3, <1>4, <1>5, <1>6, <1>7, <1>8 DEF HandleStep

\* Starting, ending and dying are no failure; a statement's failure is one.
LEMMA OtherStepsSucceed ==
    ASSUME FrameTyped, NothingFails, faults \in Nat, NEW w \in Workers,
           \/ \E e \in Events : Start(w, e)
           \/ StatementFails(w) \/ TakeVerdict(w) \/ Die(w)
    PROVE  Succeeds(w)'
  <1>1. CASE \E e \in Events : Start(w, e)
    BY <1>1 DEF Start, FrameTyped, Succeeds
  <1>2. ~ StatementFails(w)
    <2>1. ~ (faults < MaxFaults)
      BY DEF NothingFails
    <2> QED
      BY <2>1 DEF StatementFails, Fault
  <1>3. CASE TakeVerdict(w) \/ Die(w)
    BY <1>3, LeaveFrame DEF TakeVerdict, Die, Succeeds
  <1> QED
    BY <1>1, <1>2, <1>3
================================================================================
