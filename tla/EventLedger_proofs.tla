-------------------------- MODULE EventLedger_proofs --------------------------
(***************************************************************************)
(* Proofs about EventLedger, for any sets of events and sessions: IInv is   *)
(* inductive, hence the invariants it contains, and each statement either   *)
(* is one step of AtomicClaim or leaves the committed tables alone.         *)
(***************************************************************************)
EXTENDS EventLedger, TLAPS

\* There is an event id for an idle session's frame to hold.
LEMMA NoEventIsEvent == NoEvent \in Events
  BY LedgerAssumption DEF NoEvent

\* The initial rows, legacy ones included, satisfy the inductive invariant.
LEMMA InitIInv == Init => IInv
  <1> SUFFICES ASSUME Init PROVE IInv
    OBVIOUS
  <1>1. TypeOK
    BY NoEventIsEvent DEF Init, TypeOK, Statuses, Methods, Results, Drafts, NoDraft
  <1>2. DraftFollowsSteps
    BY DEF Init, DraftFollowsSteps
  <1>3. OneHolder
    BY DEF Init, OneHolder, Holds, NoDraft
  <1>4. LedgerMatchesOutbox /\ ClaimedAtMostOnce
    BY DEF Init, LedgerMatchesOutbox, ClaimedAtMostOnce
  <1>5. AnswersAreCommitted /\ ProcessingNeverVisible
    BY DEF Init, AnswersAreCommitted, ProcessingNeverVisible
  <1> QED
    BY <1>1, <1>2, <1>3, <1>4, <1>5 DEF IInv

\* The frame of a session: everything about a call that is not yet committed.
FrameOK ==
    /\ pc \in [Sessions -> Steps \cup {"idle", "returned"}]
    /\ op \in [Sessions -> Methods]
    /\ event \in [Sessions -> Events]
    /\ result \in [Sessions -> Results]
    /\ draft \in [Sessions -> Drafts]

\* Going to another statement keeps the frame well formed.
LEMMA GotoFrame ==
    ASSUME FrameOK, NEW s \in Sessions, NEW step \in Steps, NEW d \in Drafts,
           Goto(s, step, d)
    PROVE  FrameOK'
  BY DEF FrameOK, Goto

\* So does returning.
LEMMA ReturnFrame ==
    ASSUME FrameOK, NEW s \in Sessions, NEW r \in Results, Return(s, r)
    PROVE  FrameOK'
  BY DEF FrameOK, Return, Drafts, NoDraft, Statuses

\* So does dropping it.
LEMMA LeaveFrame ==
    ASSUME FrameOK, NEW s \in Sessions, Leave(s)
    PROVE  FrameOK'
  BY NoEventIsEvent
     DEF FrameOK, Leave, Drafts, NoDraft, Statuses, Results, Methods

\* The drafts the statements write.
LEMMA DraftTypes ==
    /\ [row |-> "accepted", queued |-> FALSE] \in Drafts
    /\ [row |-> "processing", queued |-> FALSE] \in Drafts
    /\ \A d \in Drafts : /\ [d EXCEPT !.queued = TRUE] \in Drafts
                         /\ [d EXCEPT !.row = "processed"] \in Drafts
                         /\ d.row \in Statuses
  BY DEF Drafts, Statuses

\* A committing transaction leaves the tables well formed.
LEMMA PublishTables ==
    ASSUME TypeOK, NEW s \in Sessions, Publish(s)
    PROVE  ledger' \in [Events -> Statuses] /\ outbox' \in SUBSET Events
  <1>1. draft[s].row \in Statuses /\ event[s] \in Events
    BY DraftTypes DEF TypeOK
  <1> QED
    BY <1>1 DEF TypeOK, Publish

\* No statement leaves its type, whatever fails.
LEMMA TypeOKStep == TypeOK /\ Next => TypeOK'
  <1> SUFFICES ASSUME TypeOK, NEW s \in Sessions,
                      \/ \E method \in Methods, e \in Events : Call(s, method, e)
                      \/ Statement(s) \/ Broken(s) \/ TakeResult(s) \/ Crash(s)
               PROVE  TypeOK'
    BY DEF Next
  <1>f. FrameOK /\ draft[s] \in Drafts /\ event[s] \in Events
    BY DEF TypeOK, FrameOK
  <1>r. \A r \in {"duplicate", "claimed", "error"} \cup Statuses : r \in Results
    BY DEF Results
  <1>s. \A step \in {"insert_outbox", "fn", "update", "commit"} : step \in Steps
    BY DEF Steps
  <1>1. ASSUME NEW method \in Methods, NEW e \in Events, Call(s, method, e)
        PROVE  TypeOK'
    BY <1>1 DEF Call, TypeOK, Steps, tables
  <1>2. CASE InsertClaims(s)
    <2>1. FrameOK'
      BY <1>2, <1>f, <1>s, GotoFrame, DraftTypes DEF InsertClaims
    <2> QED
      BY <1>2, <2>1 DEF InsertClaims, TypeOK, FrameOK, tables
  <1>3. CASE InsertConflicts(s)
    <2>1. FrameOK'
      BY <1>3, <1>f, <1>r, ReturnFrame DEF InsertConflicts
    <2> QED
      BY <1>3, <2>1 DEF InsertConflicts, TypeOK, FrameOK, tables
  <1>4. CASE InsertOutbox(s)
    <2>1. FrameOK'
      BY <1>4, <1>f, <1>r, <1>s, GotoFrame, ReturnFrame, DraftTypes
         DEF InsertOutbox
    <2> QED
      BY <1>4, <2>1 DEF InsertOutbox, TypeOK, FrameOK, tables
  <1>5. CASE RunFn(s)
    <2>1. FrameOK'
      BY <1>5, <1>f, <1>s, GotoFrame DEF RunFn
    <2> QED
      BY <1>5, <2>1 DEF RunFn, TypeOK, FrameOK, tables
  <1>6. CASE UpdateProcessed(s)
    <2>1. FrameOK'
      BY <1>6, <1>f, <1>s, GotoFrame, DraftTypes DEF UpdateProcessed
    <2> QED
      BY <1>6, <2>1 DEF UpdateProcessed, TypeOK, FrameOK, tables
  <1>7. CASE Commit(s)
    <2>1. FrameOK'
      BY <1>7, <1>f, <1>r, ReturnFrame DEF Commit
    <2>2. claims' \in [Events -> Nat]
      BY <1>7, <1>f DEF Commit, TypeOK
    <2> QED
      BY <1>7, <2>1, <2>2, PublishTables DEF Commit, TypeOK, FrameOK
  <1>8. CASE Select(s)
    <2>1. ledger[event[s]] \in Results
      BY <1>f, <1>r DEF TypeOK
    <2>2. FrameOK'
      BY <1>8, <1>f, <2>1, ReturnFrame DEF Select
    <2> QED
      BY <1>8, <2>2 DEF Select, TypeOK, FrameOK, tables
  <1>9. CASE StatementFails(s)
    <2>1. FrameOK'
      BY <1>9, <1>f, <1>r, ReturnFrame DEF StatementFails
    <2> QED
      BY <1>9, <2>1 DEF StatementFails, Fault, TypeOK, FrameOK, tables
  <1>10. CASE CommitAnswerLost(s)
    <2>1. FrameOK'
      BY <1>10, <1>f, <1>r, ReturnFrame DEF CommitAnswerLost
    <2> QED
      BY <1>10, <2>1, PublishTables DEF CommitAnswerLost, Fault, TypeOK, FrameOK
  <1>11. CASE TakeResult(s)
    <2>1. FrameOK'
      BY <1>11, <1>f, LeaveFrame DEF TakeResult
    <2> QED
      BY <1>11, <2>1 DEF TakeResult, TypeOK, FrameOK, tables
  <1>12. CASE Crash(s)
    <2>1. FrameOK'
      BY <1>12, <1>f, LeaveFrame DEF Crash
    <2> QED
      BY <1>12, <2>1 DEF Crash, Fault, TypeOK, FrameOK, tables
  <1> QED
    BY <1>1, <1>2, <1>3, <1>4, <1>5, <1>6, <1>7, <1>8, <1>9, <1>10, <1>11,
       <1>12 DEF Statement, Broken

\* The part of IInv that depends on the open transactions of the sessions.
SessionsOK == DraftFollowsSteps /\ OneHolder /\ AnswersAreCommitted

\* A step of s that leaves the tables alone keeps SessionsOK, when the frame it
\* leaves s in is a good one.
LEMMA FrameStep ==
    ASSUME TypeOK, TypeOK', SessionsOK, NEW s \in Sessions, UNCHANGED tables,
           \A t \in Sessions \ {s} :
               /\ pc'[t] = pc[t] /\ event'[t] = event[t]
               /\ result'[t] = result[t] /\ draft'[t] = draft[t],
           CASE pc'[s] = "insert_outbox" ->
                   draft'[s] = [row |-> "accepted", queued |-> FALSE]
             [] pc'[s] \in {"fn", "update"} ->
                   draft'[s] = [row |-> "processing", queued |-> FALSE]
             [] pc'[s] = "commit" ->
                   draft'[s] \in {[row |-> "accepted", queued |-> TRUE],
                                  [row |-> "processed", queued |-> FALSE]}
             [] OTHER -> draft'[s] = NoDraft,
           draft'[s].row # "absent" =>
               /\ ledger[event'[s]] = "absent"
               /\ claims[event'[s]] = 0
               /\ \A t \in Sessions \ {s} : ~Holds(t, event'[s]),
           pc'[s] = "returned" /\ result'[s] \in {"duplicate", "claimed"} =>
               ledger[event'[s]] # "absent"
    PROVE  SessionsOK'
  <1>1. DraftFollowsSteps'
    BY DEF SessionsOK, DraftFollowsSteps
  <1>2. OneHolder'
    <2> SUFFICES ASSUME NEW u \in Sessions, NEW e \in Events, Holds(u, e)'
                 PROVE  /\ ledger[e] = "absent" /\ claims[e] = 0
                        /\ \A t \in Sessions : Holds(t, e)' => t = u
      BY DEF OneHolder, tables
    <2>1. \A t \in Sessions \ {s} : Holds(t, e)' = Holds(t, e)
      BY DEF Holds
    <2>2. CASE u = s
      BY <2>1, <2>2 DEF Holds
    <2>3. CASE u # s
      <3>1. /\ ledger[e] = "absent" /\ claims[e] = 0
            /\ \A t \in Sessions : Holds(t, e) => t = u
        BY <2>1, <2>3 DEF SessionsOK, OneHolder
      <3>2. ~Holds(s, e)'
        BY <2>1, <2>3 DEF Holds
      <3> QED
        BY <2>1, <3>1, <3>2
    <2> QED
      BY <2>2, <2>3
  <1>3. AnswersAreCommitted'
    BY DEF SessionsOK, AnswersAreCommitted, tables
  <1> QED
    BY <1>1, <1>2, <1>3 DEF SessionsOK

\* Every step but a commit: the tables stay and the frames stay good.
LEMMA QuietStep ==
    ASSUME TypeOK, TypeOK', SessionsOK, ClaimedAtMostOnce, NEW s \in Sessions,
           \/ \E method \in Methods, e \in Events : Call(s, method, e)
           \/ InsertClaims(s) \/ InsertConflicts(s) \/ InsertOutbox(s)
           \/ RunFn(s) \/ UpdateProcessed(s) \/ Select(s)
           \/ StatementFails(s) \/ TakeResult(s) \/ Crash(s)
    PROVE  SessionsOK' /\ UNCHANGED tables
  <1> USE DEF TypeOK
  <1>0. /\ draft[s].row # "absent" =>
               /\ ledger[event[s]] = "absent"
               /\ claims[event[s]] = 0
               /\ \A t \in Sessions \ {s} : ~Holds(t, event[s])
        /\ CASE pc[s] = "insert_outbox" ->
                   draft[s] = [row |-> "accepted", queued |-> FALSE]
             [] pc[s] \in {"fn", "update"} ->
                   draft[s] = [row |-> "processing", queued |-> FALSE]
             [] pc[s] = "commit" ->
                   draft[s] \in {[row |-> "accepted", queued |-> TRUE],
                                 [row |-> "processed", queued |-> FALSE]}
             [] OTHER -> draft[s] = NoDraft
    BY DEF SessionsOK, DraftFollowsSteps, OneHolder, Holds
  <1>1. ASSUME NEW method \in Methods, NEW e \in Events, Call(s, method, e)
        PROVE  SessionsOK' /\ UNCHANGED tables
    <2>1. draft[s] = NoDraft /\ draft[s].row = "absent"
      BY <1>0, <1>1 DEF Call, NoDraft
    <2> QED
      BY <1>1, <2>1, FrameStep DEF Call
  <1>2. CASE InsertClaims(s)
    <2>1. claims[event[s]] = 0
      BY <1>2 DEF InsertClaims, ClaimedAtMostOnce
    <2> QED
      BY <1>2, <2>1, FrameStep DEF InsertClaims, Goto
  <1>3. CASE InsertConflicts(s)
    BY <1>3, FrameStep DEF InsertConflicts, Return, NoDraft
  <1>4. CASE InsertOutbox(s)
    BY <1>0, <1>4, FrameStep DEF InsertOutbox, Return, Goto, NoDraft
  <1>5. CASE RunFn(s)
    BY <1>0, <1>5, FrameStep DEF RunFn, Goto
  <1>6. CASE UpdateProcessed(s)
    <2>1. pc[s] = "update"
      BY <1>6 DEF UpdateProcessed
    <2>2. draft[s] = [row |-> "processing", queued |-> FALSE]
      BY <2>1 DEF SessionsOK, DraftFollowsSteps
    <2>3. draft'[s] = [[row |-> "processing", queued |-> FALSE]
                          EXCEPT !.row = "processed"]
      BY <1>6, <2>2 DEF UpdateProcessed, Goto
    <2>4. draft'[s] = [row |-> "processed", queued |-> FALSE]
      BY <2>3
    <2> QED
      BY <1>0, <1>6, <2>2, <2>4, FrameStep DEF UpdateProcessed, Goto
  <1>7. CASE Select(s)
    BY <1>7, FrameStep DEF Select, Return, NoDraft, Statuses
  <1>8. CASE StatementFails(s)
    BY <1>8, FrameStep DEF StatementFails, Return, NoDraft
  <1>9. CASE TakeResult(s)
    BY <1>9, FrameStep DEF TakeResult, Leave, NoDraft
  <1>10. CASE Crash(s)
    BY <1>10, FrameStep DEF Crash, Leave, NoDraft
  <1> QED
    BY <1>1, <1>2, <1>3, <1>4, <1>5, <1>6, <1>7, <1>8, <1>9, <1>10

\* A commit publishes one row for the only session that held its event id.
LEMMA CommitStep ==
    ASSUME IInv, TypeOK', NEW s \in Sessions, Commit(s) \/ CommitAnswerLost(s)
    PROVE  IInv'
  <1> DEFINE e == event[s]
  <1>0. /\ e \in Events /\ pc[s] = "commit"
        /\ draft[s] \in {[row |-> "accepted", queued |-> TRUE],
                         [row |-> "processed", queued |-> FALSE]}
    BY DEF IInv, TypeOK, DraftFollowsSteps, Commit, CommitAnswerLost
  <1>1. /\ ledger[e] = "absent" /\ claims[e] = 0
        /\ \A t \in Sessions : Holds(t, e) => t = s
    BY <1>0 DEF IInv, OneHolder, Holds
  <1>2. /\ ledger' = [ledger EXCEPT ![e] = draft[s].row]
        /\ outbox' = IF draft[s].queued THEN outbox \cup {e} ELSE outbox
        /\ claims' \in {claims, [claims EXCEPT ![e] = 1]}
        /\ pc' = [pc EXCEPT ![s] = "returned"]
        /\ draft' = [draft EXCEPT ![s] = NoDraft]
        /\ \A t \in Sessions \ {s} : result'[t] = result[t]
        /\ UNCHANGED event
    BY <1>1 DEF Commit, CommitAnswerLost, Publish, Return, IInv, TypeOK
  <1>3. ledger'[e] = draft[s].row /\ draft[s].row \in {"accepted", "processed"}
    BY <1>0, <1>2 DEF IInv, TypeOK
  <1>4. \A f \in Events \ {e} : ledger'[f] = ledger[f] /\ claims'[f] = claims[f]
    BY <1>2 DEF IInv, TypeOK
  <1>5. claims'[e] \in {0, 1}
    BY <1>0, <1>1, <1>2 DEF IInv, TypeOK
  <1>6. DraftFollowsSteps'
    BY <1>2 DEF IInv, TypeOK, DraftFollowsSteps
  <1>7. OneHolder'
    <2>1. ASSUME NEW t \in Sessions, NEW f \in Events, Holds(t, f)'
          PROVE  Holds(t, f) /\ t # s
      BY <1>2, <2>1 DEF IInv, TypeOK, Holds, NoDraft
    <2>2. ASSUME NEW t \in Sessions, NEW f \in Events, Holds(t, f)'
          PROVE  f # e
      BY <1>1, <2>1, <2>2
    <2> QED
      BY <1>4, <2>1, <2>2 DEF IInv, OneHolder
  <1>8. LedgerMatchesOutbox'
    <2>1. e \in outbox' <=> draft[s].queued \/ e \in outbox
      BY <1>2
    <2>2. ASSUME e \notin Legacy PROVE ledger'[e] = "accepted" <=> e \in outbox'
      BY <1>0, <1>1, <1>3, <2>1, <2>2 DEF IInv, LedgerMatchesOutbox
    <2>3. \A f \in Events \ {e} : f \in outbox' <=> f \in outbox
      BY <1>2
    <2> QED
      BY <1>4, <2>2, <2>3 DEF IInv, LedgerMatchesOutbox
  <1>9. ClaimedAtMostOnce'
    BY <1>3, <1>4, <1>5 DEF IInv, ClaimedAtMostOnce
  <1>10. AnswersAreCommitted'
    BY <1>2, <1>3, <1>4 DEF IInv, TypeOK, AnswersAreCommitted
  <1>11. ProcessingNeverVisible'
    BY <1>3, <1>4 DEF IInv, ProcessingNeverVisible
  <1> QED
    BY <1>6, <1>7, <1>8, <1>9, <1>10, <1>11 DEF IInv

\* IInv is inductive.
LEMMA NextIInv == IInv /\ [Next]_vars => IInv'
  <1> SUFFICES ASSUME IInv, [Next]_vars PROVE IInv'
    OBVIOUS
  <1>1. CASE UNCHANGED vars
    BY <1>1 DEF vars, IInv, TypeOK, DraftFollowsSteps, OneHolder, Holds,
       LedgerMatchesOutbox, ClaimedAtMostOnce, AnswersAreCommitted,
       ProcessingNeverVisible
  <1>2. CASE Next
    <2>1. TypeOK'
      BY <1>2, TypeOKStep DEF IInv
    <2>2. PICK s \in Sessions :
                \/ \E method \in Methods, e \in Events : Call(s, method, e)
                \/ Statement(s) \/ Broken(s) \/ TakeResult(s) \/ Crash(s)
      BY <1>2 DEF Next
    <2>3. CASE Commit(s) \/ CommitAnswerLost(s)
      BY <2>1, <2>3, CommitStep
    <2>4. CASE ~(Commit(s) \/ CommitAnswerLost(s))
      <3>1. SessionsOK' /\ UNCHANGED tables
        BY <2>1, <2>2, <2>4, QuietStep DEF IInv, SessionsOK, Statement, Broken
      <3> QED
        BY <2>1, <3>1 DEF IInv, SessionsOK, tables, LedgerMatchesOutbox,
           ClaimedAtMostOnce, ProcessingNeverVisible
    <2> QED
      BY <2>3, <2>4
  <1> QED
    BY <1>1, <1>2

\* The inductive invariant holds in every reachable state.
THEOREM InductiveInvariant == Spec => []IInv
  BY InitIInv, NextIInv, PTL DEF Spec

\* Every variable keeps its type: postgres.go's rows, calls and transactions.
THEOREM TypeCorrect == Spec => []TypeOK
  <1>1. IInv => TypeOK
    BY DEF IInv
  <1> QED
    BY <1>1, InductiveInvariant, PTL

\* AcceptEvent's transaction keeps ledger and outbox together, for any number of
\* events, sessions and faults.
THEOREM LedgerAndOutboxAtomic == Spec => []LedgerMatchesOutbox
  <1>1. IInv => LedgerMatchesOutbox
    BY DEF IInv
  <1> QED
    BY <1>1, InductiveInvariant, PTL

\* AcceptEvent and ProcessEvent say claimed = true once per event id at most.
THEOREM ClaimIsUnique == Spec => []ClaimedAtMostOnce
  <1>1. IInv => ClaimedAtMostOnce
    BY DEF IInv
  <1> QED
    BY <1>1, InductiveInvariant, PTL

\* What AcceptEvent tells its caller about a row is committed.
THEOREM AnswersHold == Spec => []AnswersAreCommitted
  <1>1. IInv => AnswersAreCommitted
    BY DEF IInv
  <1> QED
    BY <1>1, InductiveInvariant, PTL

\* Nobody reads the status "processing" that ProcessEvent writes and replaces.
THEOREM ProcessingHidden == Spec => []ProcessingNeverVisible
  <1>1. IInv => ProcessingNeverVisible
    BY DEF IInv
  <1> QED
    BY <1>1, InductiveInvariant, PTL

\* A commit is the abstract claim; every other statement is a stutter.
LEMMA StepImplements ==
    ASSUME IInv, [Next]_vars
    PROVE  [Claim!Next]_(Claim!vars)
  <1>1. CASE UNCHANGED tables
    BY <1>1 DEF tables, Claim!vars
  <1>2. ASSUME NEW s \in Sessions, Commit(s) \/ CommitAnswerLost(s)
        PROVE  Claim!Next
    <2> DEFINE e == event[s]
    <2>1. /\ e \in Events
          /\ draft[s] \in {[row |-> "accepted", queued |-> TRUE],
                           [row |-> "processed", queued |-> FALSE]}
          /\ draft[s].row # "absent"
      BY <1>2 DEF IInv, TypeOK, DraftFollowsSteps, Commit, CommitAnswerLost
    <2>2. ledger[e] = "absent"
      BY <2>1 DEF IInv, OneHolder, Holds
    <2>3. Claim!Told(e)
      BY <1>2 DEF Claim!Told, Commit, CommitAnswerLost
    <2>4. Claim!Accept(e) \/ Claim!Process(e)
      BY <1>2, <2>1, <2>2, <2>3
         DEF Claim!Accept, Claim!Process, Commit, CommitAnswerLost, Publish
    <2> QED
      BY <2>1, <2>4 DEF Claim!Next
  <1>3. \/ UNCHANGED tables
        \/ \E s \in Sessions : Commit(s) \/ CommitAnswerLost(s)
    BY DEF Next, vars, tables, Call, Statement, Broken, TakeResult, Crash,
       InsertClaims, InsertConflicts, InsertOutbox, RunFn, UpdateProcessed,
       Select, StatementFails
  <1> QED
    BY <1>1, <1>2, <1>3

\* AcceptEvent, ProcessEvent and Status, statement by statement, implement the
\* one-step claim that store.go's interface comments promise.
THEOREM StatementsImplementClaim == Spec => ImplementsAtomicClaim
  <1>1. Init => Claim!Init
    BY DEF Init, Claim!Init
  <1> QED
    BY <1>1, StepImplements, InductiveInvariant, PTL
       DEF Spec, ImplementsAtomicClaim, Claim!Spec
================================================================================
