-------------------------- MODULE WebhookIngest_proofs --------------------------
(***************************************************************************)
(* Proofs about WebhookIngest, for any requests, redeliveries and faults:   *)
(* what is proved of EventLedger holds under the handler, a 204 means that  *)
(* the event is durable, and a row is stored by a signed request for it.    *)
(***************************************************************************)
EXTENDS WebhookIngest, TLAPS

\* The theorems about the store; its definitions are those of Store.
L == INSTANCE EventLedger_proofs

\* The store's initial states are the same in both instances.
LEMMA SameInit == Store!Init <=> L!Init
  BY DEF Store!Init, L!Init, Store!NoDraft, L!NoDraft, Store!NoEvent, L!NoEvent

\* So are its steps, action by action.
LEMMA SameNext == Store!Next <=> L!Next
  <1>1. ASSUME NEW s \in Sessions PROVE Store!Statement(s) <=> L!Statement(s)
    BY DEF Store!Statement, L!Statement, Store!InsertClaims, L!InsertClaims,
           Store!InsertConflicts, L!InsertConflicts, Store!InsertOutbox,
           L!InsertOutbox, Store!RunFn, L!RunFn, Store!UpdateProcessed,
           L!UpdateProcessed, Store!Commit, L!Commit, Store!Select, L!Select,
           Store!Goto, L!Goto, Store!Return, L!Return, Store!Publish, L!Publish,
           Store!Holds, L!Holds, Store!tables, L!tables, Store!NoDraft, L!NoDraft
  <1>2. ASSUME NEW s \in Sessions PROVE Store!Broken(s) <=> L!Broken(s)
    BY DEF Store!Broken, L!Broken, Store!StatementFails, L!StatementFails,
           Store!CommitAnswerLost, L!CommitAnswerLost, Store!Return, L!Return,
           Store!Publish, L!Publish, Store!tables, L!tables, Store!NoDraft,
           L!NoDraft, Store!Fault, L!Fault, Store!Steps, L!Steps
  <1>3. ASSUME NEW s \in Sessions
        PROVE  /\ Store!TakeResult(s) <=> L!TakeResult(s)
               /\ Store!Crash(s) <=> L!Crash(s)
    BY DEF Store!TakeResult, L!TakeResult, Store!Crash, L!Crash, Store!Leave,
           L!Leave, Store!tables, L!tables, Store!NoDraft, L!NoDraft,
           Store!NoEvent, L!NoEvent, Store!Fault, L!Fault
  <1>4. ASSUME NEW s \in Sessions, NEW m, NEW e
        PROVE  Store!Call(s, m, e) <=> L!Call(s, m, e)
    BY DEF Store!Call, L!Call, Store!tables, L!tables
  <1> QED
    BY <1>1, <1>2, <1>3, <1>4 DEF Store!Next, L!Next, Store!Methods, L!Methods

\* And its inductive invariant.
LEMMA SameIInv == Store!IInv <=> L!IInv
  BY DEF Store!IInv, L!IInv, Store!TypeOK, L!TypeOK, Store!Statuses, L!Statuses,
         Store!Steps, L!Steps, Store!Methods, L!Methods, Store!Results, L!Results,
         Store!Drafts, L!Drafts, Store!NoDraft, L!NoDraft, Store!Holds, L!Holds,
         Store!DraftFollowsSteps, L!DraftFollowsSteps, Store!OneHolder, L!OneHolder,
         Store!LedgerMatchesOutbox, L!LedgerMatchesOutbox,
         Store!ClaimedAtMostOnce, L!ClaimedAtMostOnce,
         Store!AnswersAreCommitted, L!AnswersAreCommitted,
         Store!ProcessingNeverVisible, L!ProcessingNeverVisible

--------------------------------------------------------------------------------
(* The steps of the handler as steps of the store *)

\* What a request's step may be for the store.
CallStep(s) == \E m \in {"AcceptEvent", "Status"}, e \in Events : Store!Call(s, m, e)
LibraryStep(s) ==
    CallStep(s) \/ Store!Statement(s) \/ Store!Broken(s) \/ Store!TakeResult(s)
      \/ Store!Crash(s)

\* Every step of a request is a step of the store or leaves the store alone.
LEMMA RequestUsesStore ==
    ASSUME TypeOK, NEW s \in Sessions,
           \/ \E k \in Kinds, e \in Events : Receive(s, k, e)
           \/ HandlerStep(s) \/ StoreStep(s) \/ RequestLost(s)
    PROVE  LibraryStep(s) \/ UNCHANGED storeVars
  <1>1. id[s] \in Events
    BY DEF TypeOK
  <1>2. CASE \E k \in Kinds, e \in Events : Receive(s, k, e)
    BY <1>2 DEF Receive
  <1>3. CASE HandlerStep(s)
    BY <1>1, <1>3
       DEF HandlerStep, ReadBody, Verify, Accept, Accepted, CheckStatus, Checked,
           Respond, LibraryStep, CallStep
  <1>4. CASE StoreStep(s) \/ RequestLost(s)
    BY <1>4 DEF StoreStep, RequestLost, LibraryStep
  <1> QED
    BY <1>2, <1>3, <1>4

\* So every step of the system is one.
LEMMA NextUsesStore == TypeOK /\ [Next]_vars => [Store!Next]_(Store!vars)
  <1> SUFFICES ASSUME TypeOK, [Next]_vars PROVE [Store!Next]_(Store!vars)
    OBVIOUS
  <1>1. ASSUME NEW s \in Sessions, LibraryStep(s) PROVE Store!Next
    BY <1>1 DEF LibraryStep, CallStep, Store!Next, Store!Methods
  <1>2. UNCHANGED storeVars => UNCHANGED Store!vars
    BY DEF storeVars, Store!vars
  <1>3. CASE UNCHANGED vars
    BY <1>2, <1>3 DEF vars
  <1>4. CASE Next
    <2>1. PICK s \in Sessions :
             \/ \E k \in Kinds, e \in Events : Receive(s, k, e)
             \/ HandlerStep(s) \/ StoreStep(s) \/ RequestLost(s)
      BY <1>4 DEF Next
    <2>2. LibraryStep(s) \/ UNCHANGED storeVars
      BY <2>1, RequestUsesStore
    <2> QED
      BY <1>1, <1>2, <2>2
  <1> QED
    BY <1>3, <1>4

\* The store's invariant survives every step of the system.
LEMMA StoreIInvStep == TypeOK /\ Store!IInv /\ [Next]_vars => Store!IInv'
  <1>1. [Store!Next]_(Store!vars) => [L!Next]_(L!vars)
    BY SameNext DEF Store!vars, L!vars
  <1>2. L!IInv /\ [L!Next]_(L!vars) => L!IInv'
    BY IngestAssumption, L!NextIInv
  <1>3. L!IInv' => Store!IInv'
    BY SameIInv, PTL
  <1> QED
    BY <1>1, <1>2, <1>3, SameIInv, NextUsesStore

\* It holds in the beginning, too.
LEMMA StoreInitIInv == Store!Init => Store!IInv
  BY IngestAssumption, L!InitIInv, SameInit, SameIInv

--------------------------------------------------------------------------------
(* What the store's steps do for a handler that only calls AcceptEvent and Status *)

\* Committed rows stay, and all of them are accepted.
RowsGrow ==
    /\ \A e \in Events : ledger[e] # "absent" => ledger'[e] # "absent"
    /\ \A e \in Events : ledger'[e] \in {"absent", "accepted"}

\* The call of one session, as far as OnlyAccepts sees it.
CallOK(s) ==
    /\ op[s] # "ProcessEvent"
    /\ draft[s].row # "processed"
    /\ pc[s] \notin {"fn", "update"}
    /\ pc[s] = "insert" => op[s] = "AcceptEvent"
    /\ pc[s] = "select" => op[s] = "Status"
    /\ pc[s] = "returned" /\ op[s] = "AcceptEvent" =>
          result[s] \in {"claimed", "duplicate", "error"}

FrameKept(t) ==
    /\ pc'[t] = pc[t] /\ op'[t] = op[t] /\ event'[t] = event[t]
    /\ result'[t] = result[t] /\ draft'[t] = draft[t]

\* The types the steps of a session rest on.
LEMMA SessionTypes ==
    ASSUME IInv, NEW s \in Sessions
    PROVE  /\ ledger \in [Events -> Store!Statuses] /\ outbox \subseteq Events
           /\ pc \in [Sessions -> Store!Steps \cup {"idle", "returned"}]
           /\ op \in [Sessions -> Store!Methods]
           /\ event \in [Sessions -> Events]
           /\ result \in [Sessions -> Store!Results]
           /\ draft \in [Sessions -> Store!Drafts]
           /\ CallOK(s)
  BY DEF IInv, TypeOK, Store!TypeOK, OnlyAccepts, CallOK

\* A statement that leaves the tables alone lets the rows grow.
LEMMA TablesKept ==
    ASSUME IInv, UNCHANGED Store!tables PROVE RowsGrow
  BY DEF IInv, OnlyAccepts, Store!tables, RowsGrow

\* COMMIT inserts an accepted row.
LEMMA PublishGrows ==
    ASSUME IInv, NEW s \in Sessions, pc[s] = "commit", Store!Publish(s)
    PROVE  RowsGrow
  <1>1. ledger \in [Events -> Store!Statuses] /\ event[s] \in Events
    BY SessionTypes
  <1>2. draft[s].row = "accepted"
    BY SessionTypes DEF CallOK, IInv, Store!IInv, Store!DraftFollowsSteps
  <1>3. \A e \in Events : ledger[e] \in {"absent", "accepted"}
    BY DEF IInv, OnlyAccepts
  <1> QED
    BY <1>1, <1>2, <1>3 DEF Store!Publish, RowsGrow

\* A method goes on to the next statement.
LEMMA GotoCall ==
    ASSUME IInv, NEW s \in Sessions, NEW step \in {"insert_outbox", "commit"},
           NEW d, d.row = "accepted", Store!Goto(s, step, d), pc[s] # "idle"
    PROVE  CallOK(s)' /\ \A t \in Sessions \ {s} : FrameKept(t)
  BY SessionTypes DEF Store!Goto, CallOK, FrameKept

\* A method returns.
LEMMA ReturnCall ==
    ASSUME IInv, NEW s \in Sessions, NEW r, Store!Return(s, r), pc[s] # "idle",
           op[s] = "AcceptEvent" => r \in {"claimed", "duplicate", "error"}
    PROVE  CallOK(s)' /\ \A t \in Sessions \ {s} : FrameKept(t)
  BY SessionTypes DEF Store!Return, Store!NoDraft, CallOK, FrameKept

\* A frame is dropped.
LEMMA LeaveCall ==
    ASSUME IInv, NEW s \in Sessions, Store!Leave(s)
    PROVE  CallOK(s)' /\ \A t \in Sessions \ {s} : FrameKept(t)
  BY SessionTypes DEF Store!Leave, Store!NoDraft, CallOK, FrameKept

\* Every statement of the store.
LEMMA StatementCall ==
    ASSUME IInv, NEW s \in Sessions, Store!Statement(s) \/ Store!Broken(s)
    PROVE  RowsGrow /\ CallOK(s)' /\ \A t \in Sessions \ {s} : FrameKept(t)
  <1>1. CASE Store!InsertClaims(s)
    <2>1. /\ op[s] = "AcceptEvent" /\ UNCHANGED Store!tables /\ pc[s] # "idle"
          /\ Store!Goto(s, "insert_outbox", [row |-> "accepted", queued |-> FALSE])
      BY <1>1, SessionTypes DEF Store!InsertClaims, CallOK
    <2> QED
      BY <2>1, TablesKept, GotoCall
  <1>2. CASE Store!InsertConflicts(s)
    BY <1>2, TablesKept, ReturnCall DEF Store!InsertConflicts
  <1>3. CASE Store!InsertOutbox(s)
    <2>1. UNCHANGED Store!tables /\ pc[s] # "idle"
      BY <1>3 DEF Store!InsertOutbox
    <2>2. draft[s] = [row |-> "accepted", queued |-> FALSE]
      BY <1>3 DEF Store!InsertOutbox, IInv, Store!IInv, Store!DraftFollowsSteps
    <2>3. [draft[s] EXCEPT !.queued = TRUE].row = "accepted"
      BY <2>2
    <2>4. CASE event[s] \in Unstorable
      BY <1>3, <2>1, <2>4, TablesKept, ReturnCall DEF Store!InsertOutbox
    <2>5. CASE event[s] \notin Unstorable
      BY <1>3, <2>1, <2>3, <2>5, TablesKept, GotoCall DEF Store!InsertOutbox
    <2> QED
      BY <2>4, <2>5
  <1>4. CASE Store!RunFn(s) \/ Store!UpdateProcessed(s)
    BY <1>4, SessionTypes DEF Store!RunFn, Store!UpdateProcessed, CallOK
  <1>5. CASE Store!Commit(s)
    BY <1>5, PublishGrows, ReturnCall DEF Store!Commit
  <1>6. CASE Store!Select(s)
    BY <1>6, TablesKept, ReturnCall, SessionTypes DEF Store!Select, CallOK
  <1>7. CASE Store!StatementFails(s)
    <2>1. pc[s] # "idle"
      BY <1>7 DEF Store!StatementFails, Store!Steps
    <2> QED
      BY <1>7, <2>1, TablesKept, ReturnCall DEF Store!StatementFails
  <1>8. CASE Store!CommitAnswerLost(s)
    BY <1>8, PublishGrows, ReturnCall DEF Store!CommitAnswerLost
  <1> QED
    BY <1>1, <1>2, <1>3, <1>4, <1>5, <1>6, <1>7, <1>8
       DEF Store!Statement, Store!Broken

\* Statements work for the call they belong to.
LEMMA StatementKeepsCall ==
    ASSUME NEW s \in Sessions, Store!Statement(s) \/ Store!Broken(s)
    PROVE  UNCHANGED <<op, event>> /\ pc[s] # "idle"
  BY DEF Store!Statement, Store!Broken, Store!InsertClaims, Store!InsertConflicts,
         Store!InsertOutbox, Store!RunFn, Store!UpdateProcessed, Store!Commit,
         Store!Select, Store!StatementFails, Store!CommitAnswerLost, Store!Goto,
         Store!Return, Store!Steps

\* A call is made.
LEMMA MakeCall ==
    ASSUME IInv, NEW s \in Sessions, NEW e \in Events,
           NEW m \in {"AcceptEvent", "Status"}, Store!Call(s, m, e)
    PROVE  /\ RowsGrow /\ CallOK(s)' /\ \A t \in Sessions \ {s} : FrameKept(t)
           /\ op'[s] = m /\ event'[s] = e
  <1>1. UNCHANGED Store!tables
    BY DEF Store!Call
  <1>2. CallOK(s)' /\ op'[s] = m /\ event'[s] = e
    BY SessionTypes DEF Store!Call, CallOK
  <1>3. \A t \in Sessions \ {s} : FrameKept(t)
    BY SessionTypes DEF Store!Call, FrameKept
  <1> QED
    BY <1>1, <1>2, <1>3, TablesKept

\* A handler's step that does not touch the store.
LEMMA StoreKept ==
    ASSUME IInv, NEW s \in Sessions, UNCHANGED storeVars
    PROVE  RowsGrow /\ CallOK(s)' /\ \A t \in Sessions \ {s} : FrameKept(t)
  <1>1. UNCHANGED Store!tables
    BY DEF storeVars, Store!tables
  <1>2. CallOK(s)
    BY SessionTypes
  <1> QED
    BY <1>1, <1>2, TablesKept DEF storeVars, CallOK, FrameKept

\* The answer of a call is taken, or the process dies.
LEMMA EndCall ==
    ASSUME IInv, NEW s \in Sessions, Store!TakeResult(s) \/ Store!Crash(s)
    PROVE  /\ RowsGrow /\ CallOK(s)' /\ \A t \in Sessions \ {s} : FrameKept(t)
           /\ pc'[s] = "idle"
  BY TablesKept, LeaveCall, SessionTypes
     DEF Store!TakeResult, Store!Crash, Store!Leave

--------------------------------------------------------------------------------
(* The requests *)

RequestTyped ==
    /\ http \in [Sessions -> Phases]
    /\ kind \in [Sessions -> Kinds]
    /\ id \in [Sessions -> Events]
    /\ code \in [Sessions -> Codes]

\* The two invariants about requests, for one of them.
RequestOK(s) ==
    /\ http[s] = "accepting" => op[s] = "AcceptEvent" /\ event[s] = id[s]
    /\ http[s] \in {"status", "checking"} => ledger[id[s]] # "absent"
    /\ http[s] = "respond" /\ code[s] = 204 => ledger[id[s]] # "absent"
    /\ http[s] \in {"accept", "accepting", "status", "checking"} => kind[s] = "signed"
    /\ pc[s] # "idle" => http[s] \in {"accepting", "checking"} /\ event[s] = id[s]

RequestKept(t) ==
    http'[t] = http[t] /\ kind'[t] = kind[t] /\ id'[t] = id[t] /\ code'[t] = code[t]

\* A step of one request and its session keeps the invariant.
LEMMA SystemStep ==
    ASSUME IInv, [Next]_vars, NEW s \in Sessions, RowsGrow, RequestTyped',
           CallOK(s)', RequestOK(s)',
           \A t \in Sessions \ {s} : FrameKept(t) /\ RequestKept(t),
           acked' \in SUBSET Events,
           \A e \in acked' : e \in acked \/ ledger'[e] # "absent"
    PROVE  IInv'
  <1>1. Store!IInv'
    BY StoreIInvStep DEF IInv
  <1>2. TypeOK'
    BY <1>1 DEF Store!IInv, TypeOK, RequestTyped
  <1>3. \A t \in Sessions : CallOK(t)' /\ RequestOK(t)'
    <2> SUFFICES ASSUME NEW t \in Sessions, t # s PROVE CallOK(t)' /\ RequestOK(t)'
      OBVIOUS
    <2>1. FrameKept(t) /\ RequestKept(t)
      OBVIOUS
    <2>2. CallOK(t) /\ RequestOK(t) /\ id[t] \in Events
      BY SessionTypes
         DEF IInv, TypeOK, RequestFollowsCall, OnlySignedCalled, RequestOK
    <2>3. CallOK(t)'
      BY <2>1, <2>2 DEF CallOK, FrameKept
    <2>4. ledger[id[t]] # "absent" => ledger'[id[t]] # "absent"
      BY <2>2 DEF RowsGrow
    <2> QED
      BY <2>1, <2>2, <2>3, <2>4 DEF RequestOK, FrameKept, RequestKept
  <1>4. OnlyAccepts'
    BY <1>3 DEF CallOK, RowsGrow, OnlyAccepts
  <1>5. RequestFollowsCall' /\ OnlySignedCalled'
    BY <1>3 DEF CallOK, RequestOK, RequestFollowsCall, OnlySignedCalled
  <1>6. AckedIsDurable'
    <2> SUFFICES ASSUME NEW e \in acked'
                 PROVE  ledger'[e] # "absent" /\ (e \in Legacy \/ e \in outbox')
      BY DEF AckedIsDurable
    <2>1. e \in Events /\ ledger'[e] # "absent"
      BY DEF IInv, AckedIsDurable, RowsGrow
    <2>2. ledger'[e] = "accepted"
      BY <2>1 DEF RowsGrow
    <2>3. e \notin Legacy => e \in outbox'
      BY <1>1, <2>1, <2>2 DEF Store!IInv, Store!LedgerMatchesOutbox
    <2> QED
      BY <2>1, <2>3
  <1> QED
    BY <1>1, <1>2, <1>4, <1>5, <1>6 DEF IInv

\* Going to another phase of the handler.
LEMMA PhaseFrame ==
    ASSUME RequestTyped, NEW s \in Sessions, NEW p \in Phases, Phase(s, p)
    PROVE  /\ RequestTyped' /\ \A t \in Sessions \ {s} : RequestKept(t)
           /\ http'[s] = p /\ UNCHANGED <<kind, id, code>>
  BY DEF RequestTyped, Phase, RequestKept

\* Writing a status code.
LEMMA ReplyFrame ==
    ASSUME RequestTyped, NEW s \in Sessions, NEW c \in Codes, Reply(s, c)
    PROVE  /\ RequestTyped' /\ \A t \in Sessions \ {s} : RequestKept(t)
           /\ http'[s] = "respond" /\ code'[s] = c /\ UNCHANGED <<kind, id>>
  BY DEF RequestTyped, Reply, RequestKept, Phases

\* The end of a request.
LEMMA DoneFrame ==
    ASSUME RequestTyped, NEW s \in Sessions, Done(s)
    PROVE  /\ RequestTyped' /\ \A t \in Sessions \ {s} : RequestKept(t)
           /\ http'[s] = "idle" /\ kind'[s] = "unsigned"
  <1>1. Store!NoEvent \in Events
    BY IngestAssumption DEF Store!NoEvent
  <1> QED
    BY <1>1 DEF RequestTyped, Done, RequestKept, Phases, Kinds, Codes

--------------------------------------------------------------------------------
(* The actions *)

\* What the actions of a request start from.
LEMMA RequestFacts ==
    ASSUME IInv, NEW s \in Sessions
    PROVE  /\ RequestTyped /\ RequestOK(s) /\ id[s] \in Events
           /\ acked \in SUBSET Events
  BY DEF IInv, TypeOK, RequestTyped, RequestFollowsCall, OnlySignedCalled, RequestOK

\* A delivery arrives.
LEMMA ReceiveIInv ==
    ASSUME IInv, [Next]_vars, NEW s \in Sessions, NEW k \in Kinds, NEW e \in Events,
           Receive(s, k, e)
    PROVE  IInv'
  <1>1. /\ RequestTyped' /\ \A t \in Sessions \ {s} : RequestKept(t)
        /\ RequestOK(s)'
    BY RequestFacts DEF Receive, RequestTyped, RequestKept, RequestOK, Phases, storeVars
  <1>2. UNCHANGED storeVars /\ UNCHANGED acked
    BY DEF Receive
  <1> QED
    BY <1>1, <1>2, StoreKept, RequestFacts, SystemStep

\* Its body is read and its signature checked.
LEMMA ReadVerifyIInv ==
    ASSUME IInv, [Next]_vars, NEW s \in Sessions, ReadBody(s) \/ Verify(s) PROVE IInv'
  <1>1. UNCHANGED storeVars /\ UNCHANGED acked
    BY DEF ReadBody, Verify
  <1>0. pc'[s] = "idle"
    BY <1>1, RequestFacts DEF ReadBody, Verify, RequestOK, storeVars
  <1>2. \/ Reply(s, 413) \/ Reply(s, 400) \/ Phase(s, "verify")
        \/ Phase(s, "accept") /\ kind[s] = "signed"
    BY DEF ReadBody, Verify
  <1>3. 413 \in Codes /\ 400 \in Codes /\ "verify" \in Phases /\ "accept" \in Phases
    BY DEF Codes, Phases
  <1>4. /\ RequestTyped' /\ \A t \in Sessions \ {s} : RequestKept(t)
        /\ RequestOK(s)'
    <2>1. CASE Reply(s, 413) \/ Reply(s, 400)
      BY <1>0, <1>3, <2>1, RequestFacts, ReplyFrame DEF RequestOK
    <2>2. CASE Phase(s, "verify")
      BY <1>0, <1>3, <2>2, RequestFacts, PhaseFrame DEF RequestOK
    <2>3. CASE Phase(s, "accept") /\ kind[s] = "signed"
      BY <1>0, <1>3, <2>3, RequestFacts, PhaseFrame DEF RequestOK
    <2> QED
      BY <1>2, <2>1, <2>2, <2>3
  <1> QED
    BY <1>1, <1>4, StoreKept, RequestFacts, SystemStep

\* The calls of AcceptEvent and Status.
LEMMA CallsIInv ==
    ASSUME IInv, [Next]_vars, NEW s \in Sessions, Accept(s) \/ CheckStatus(s)
    PROVE  IInv'
  <1>1. id[s] \in Events /\ kind[s] = "signed" /\ UNCHANGED acked
    BY RequestFacts DEF Accept, CheckStatus, RequestOK
  <1>2. CASE Accept(s)
    <2>1. Store!Call(s, "AcceptEvent", id[s]) /\ Phase(s, "accepting")
      BY <1>2 DEF Accept
    <2>2. /\ RowsGrow /\ CallOK(s)' /\ \A t \in Sessions \ {s} : FrameKept(t)
          /\ op'[s] = "AcceptEvent" /\ event'[s] = id[s]
      BY <1>1, <2>1, MakeCall
    <2>3. /\ RequestTyped' /\ \A t \in Sessions \ {s} : RequestKept(t)
          /\ http'[s] = "accepting" /\ UNCHANGED <<kind, id, code>>
      BY <2>1, RequestFacts, PhaseFrame DEF Phases
    <2>4. RequestOK(s)'
      BY <1>1, <2>2, <2>3 DEF RequestOK
    <2> QED
      BY <1>1, <2>2, <2>3, <2>4, RequestFacts, SystemStep
  <1>3. CASE CheckStatus(s)
    <2>1. Store!Call(s, "Status", id[s]) /\ Phase(s, "checking")
      BY <1>3 DEF CheckStatus
    <2>2. /\ RowsGrow /\ CallOK(s)' /\ \A t \in Sessions \ {s} : FrameKept(t)
          /\ event'[s] = id[s]
      BY <1>1, <2>1, MakeCall
    <2>3. /\ RequestTyped' /\ \A t \in Sessions \ {s} : RequestKept(t)
          /\ http'[s] = "checking" /\ UNCHANGED <<kind, id, code>>
      BY <2>1, RequestFacts, PhaseFrame DEF Phases
    <2>4. ledger'[id[s]] # "absent"
      BY <1>3, <2>2, RequestFacts DEF CheckStatus, RequestOK, RowsGrow
    <2>5. RequestOK(s)'
      BY <1>1, <2>2, <2>3, <2>4 DEF RequestOK
    <2> QED
      BY <1>1, <2>2, <2>3, <2>5, RequestFacts, SystemStep
  <1> QED
    BY <1>2, <1>3

\* What the handler makes of the answers: a 204, or another look at the row, only
\* when the row is committed.
LEMMA AnswersIInv ==
    ASSUME IInv, [Next]_vars, NEW s \in Sessions, Accepted(s) \/ Checked(s)
    PROVE  IInv'
  <1>1. Store!TakeResult(s) /\ UNCHANGED acked /\ pc[s] = "returned"
    BY DEF Accepted, Checked, Store!TakeResult
  <1>2. /\ RowsGrow /\ CallOK(s)' /\ \A t \in Sessions \ {s} : FrameKept(t)
        /\ pc'[s] = "idle"
    BY <1>1, EndCall
  <1>3. \/ Reply(s, 500)
        \/ Reply(s, 204) /\ ledger[id[s]] # "absent"
        \/ Phase(s, "status") /\ ledger[id[s]] # "absent" /\ kind[s] = "signed"
    <2>1. CASE Accepted(s)
      <3>1. /\ op[s] = "AcceptEvent" /\ event[s] = id[s] /\ kind[s] = "signed"
            /\ result[s] \in {"claimed", "duplicate", "error"}
        BY <1>1, <2>1, SessionTypes, RequestFacts DEF Accepted, RequestOK, CallOK
      <3>2. result[s] \in {"claimed", "duplicate"} => ledger[id[s]] # "absent"
        BY <1>1, <3>1 DEF IInv, Store!IInv, Store!AnswersAreCommitted
      <3>3. /\ result[s] = "error" => Reply(s, 500)
            /\ result[s] = "claimed" => Reply(s, 204)
            /\ result[s] = "duplicate" => Phase(s, "status")
        BY <2>1 DEF Accepted
      <3> QED
        BY <3>1, <3>2, <3>3
    <2>2. CASE Checked(s)
      BY <2>2, RequestFacts DEF Checked, RequestOK
    <2> QED
      BY <2>1, <2>2
  <1>4. ledger[id[s]] # "absent" => ledger'[id[s]] # "absent"
    BY <1>2, RequestFacts DEF RowsGrow
  <1>5. 500 \in Codes /\ 204 \in Codes /\ "status" \in Phases
    BY DEF Codes, Phases
  <1>6. /\ RequestTyped' /\ \A t \in Sessions \ {s} : RequestKept(t)
        /\ RequestOK(s)'
    <2>1. CASE Reply(s, 500)
      BY <1>2, <1>5, <2>1, RequestFacts, ReplyFrame DEF RequestOK
    <2>2. CASE Reply(s, 204) /\ ledger[id[s]] # "absent"
      BY <1>2, <1>4, <1>5, <2>2, RequestFacts, ReplyFrame DEF RequestOK
    <2>3. CASE Phase(s, "status") /\ ledger[id[s]] # "absent" /\ kind[s] = "signed"
      BY <1>2, <1>4, <1>5, <2>3, RequestFacts, PhaseFrame DEF RequestOK
    <2> QED
      BY <1>3, <2>1, <2>2, <2>3
  <1> QED
    BY <1>1, <1>2, <1>6, RequestFacts, SystemStep

\* The response arrives, or the request is lost.
LEMMA EndIInv ==
    ASSUME IInv, [Next]_vars, NEW s \in Sessions, Respond(s) \/ RequestLost(s)
    PROVE  IInv'
  <1>1. Done(s)
    BY DEF Respond, RequestLost
  <1>5. pc'[s] = "idle"
    <2>1. CASE Respond(s)
      BY <2>1, RequestFacts DEF Respond, RequestOK, storeVars
    <2>2. CASE RequestLost(s)
      BY <2>2, EndCall DEF RequestLost
    <2> QED
      BY <2>1, <2>2
  <1>2. /\ RequestTyped' /\ \A t \in Sessions \ {s} : RequestKept(t)
        /\ RequestOK(s)'
    BY <1>1, <1>5, RequestFacts, DoneFrame DEF RequestOK
  <1>3. RowsGrow /\ CallOK(s)' /\ \A t \in Sessions \ {s} : FrameKept(t)
    BY StoreKept, EndCall DEF Respond, RequestLost
  <1>4. /\ acked' \in SUBSET Events
        /\ \A e \in acked' : e \in acked \/ ledger'[e] # "absent"
    <2>1. CASE Respond(s)
      <3>1. code[s] = 204 => ledger[id[s]] # "absent"
        BY <2>1, RequestFacts DEF Respond, RequestOK
      <3>2. acked' = IF code[s] = 204 THEN acked \cup {id[s]} ELSE acked
        BY <2>1 DEF Respond
      <3> QED
        BY <1>3, <3>1, <3>2, RequestFacts DEF RowsGrow
    <2>2. CASE RequestLost(s)
      BY <2>2, RequestFacts DEF RequestLost
    <2> QED
      BY <2>1, <2>2
  <1> QED
    BY <1>2, <1>3, <1>4, SystemStep

\* The statements of the store.
LEMMA StoreStepIInv ==
    ASSUME IInv, [Next]_vars, NEW s \in Sessions, StoreStep(s) PROVE IInv'
  <1>1. /\ Store!Statement(s) \/ Store!Broken(s)
        /\ UNCHANGED <<http, kind, id, code>> /\ UNCHANGED acked
    BY DEF StoreStep, requestVars
  <1>2. RowsGrow /\ CallOK(s)' /\ \A t \in Sessions \ {s} : FrameKept(t)
    BY <1>1, StatementCall
  <1>3. UNCHANGED <<op, event>> /\ pc[s] # "idle"
    BY <1>1, StatementKeepsCall
  <1>4. RequestTyped' /\ \A t \in Sessions \ {s} : RequestKept(t)
    BY <1>1, RequestFacts DEF RequestTyped, RequestKept
  <1>5. ledger[id[s]] # "absent" => ledger'[id[s]] # "absent"
    BY <1>2, RequestFacts DEF RowsGrow
  <1>6. RequestOK(s)'
    BY <1>1, <1>3, <1>5, RequestFacts DEF RequestOK
  <1> QED
    BY <1>1, <1>2, <1>4, <1>6, RequestFacts, SystemStep

\* Before the first request.
LEMMA InitIInv == Init => IInv
  <1> SUFFICES ASSUME Init PROVE IInv
    OBVIOUS
  <1>1. Store!IInv
    BY StoreInitIInv DEF Init
  <1>2. Store!NoEvent \in Events
    BY IngestAssumption DEF Store!NoEvent
  <1>3. TypeOK
    BY <1>1, <1>2 DEF Init, TypeOK, Store!IInv, Phases, Kinds, Codes
  <1>4. OnlyAccepts
    BY DEF Init, Store!Init, Store!NoDraft, OnlyAccepts
  <1>5. RequestFollowsCall /\ OnlySignedCalled /\ AckedIsDurable
    BY DEF Init, Store!Init, RequestFollowsCall, OnlySignedCalled, AckedIsDurable
  <1> QED
    BY <1>1, <1>3, <1>4, <1>5 DEF IInv

\* Every step of every request.
LEMMA NextIInv == IInv /\ [Next]_vars => IInv'
  <1> SUFFICES ASSUME IInv, [Next]_vars PROVE IInv'
    OBVIOUS
  <1>1. ASSUME NEW s \in Sessions, NEW k \in Kinds, NEW e \in Events, Receive(s, k, e)
        PROVE  IInv'
    BY <1>1, ReceiveIInv
  <1>2. ASSUME NEW s \in Sessions, HandlerStep(s) PROVE IInv'
    BY <1>2, ReadVerifyIInv, CallsIInv, AnswersIInv, EndIInv DEF HandlerStep
  <1>3. ASSUME NEW s \in Sessions, StoreStep(s) PROVE IInv'
    BY <1>3, StoreStepIInv
  <1>4. ASSUME NEW s \in Sessions, RequestLost(s) PROVE IInv'
    BY <1>4, EndIInv
  <1>5. CASE UNCHANGED vars
    <2>1. Store!IInv'
      BY StoreIInvStep DEF IInv
    <2>2. /\ UNCHANGED <<ledger, outbox, pc, op, event, result, draft>>
          /\ UNCHANGED <<http, kind, id, code, acked>>
      BY <1>5 DEF vars, storeVars, requestVars
    <2>3. TypeOK'
      BY <2>1, <2>2 DEF IInv, TypeOK, Store!IInv
    <2> QED
      BY <2>1, <2>2, <2>3
         DEF IInv, OnlyAccepts, RequestFollowsCall, OnlySignedCalled, AckedIsDurable
  <1> QED
    BY <1>1, <1>2, <1>3, <1>4, <1>5 DEF Next

\* The inductive invariant holds in every behaviour.
LEMMA Inductive == Spec => []IInv
  BY InitIInv, NextIInv, PTL DEF Spec

--------------------------------------------------------------------------------
(* The theorems *)

\* handleStripeWebhook's requests and the store's rows keep their types.
THEOREM TypeCorrect == Spec => []TypeOK
  <1>1. IInv => TypeOK
    BY DEF IInv
  <1> QED
    BY <1>1, Inductive, PTL

\* handleStripeWebhook answers 204 only when the event's row is committed, with its
\* outbox row: for any number of concurrent deliveries, failures and lost responses.
THEOREM NothingAckedIsLost == Spec => []AckedIsDurable
  <1>1. IInv => AckedIsDurable
    BY DEF IInv
  <1> QED
    BY <1>1, Inductive, PTL

\* Only COMMIT writes to the tables, and only the row of its own call.
LEMMA StatementTables ==
    ASSUME IInv, NEW s \in Sessions, Store!Statement(s) \/ Store!Broken(s),
           NEW e \in Events, ledger'[e] # ledger[e] \/ (e \in outbox' /\ e \notin outbox)
    PROVE  pc[s] = "commit" /\ pc'[s] = "returned" /\ event[s] = e
  <1>1. UNCHANGED Store!tables \/ (pc[s] = "commit" /\ Store!Publish(s))
    BY DEF Store!Statement, Store!Broken, Store!InsertClaims, Store!InsertConflicts,
           Store!InsertOutbox, Store!RunFn, Store!UpdateProcessed, Store!Commit,
           Store!Select, Store!StatementFails, Store!CommitAnswerLost
  <1>2. pc[s] = "commit" /\ Store!Publish(s)
    BY <1>1 DEF Store!tables
  <1>3. event[s] = e
    BY <1>2, SessionTypes DEF Store!Publish
  <1>4. pc'[s] = "returned"
    BY <1>2, SessionTypes
       DEF Store!Statement, Store!Broken, Store!InsertClaims, Store!InsertConflicts,
           Store!InsertOutbox, Store!RunFn, Store!UpdateProcessed, Store!Commit,
           Store!Select, Store!StatementFails, Store!CommitAnswerLost, Store!Return
  <1> QED
    BY <1>2, <1>3, <1>4

\* AcceptEvent is only reached behind ConstructEvent: whoever commits the row of an id
\* handles a signed body with that id, however many forged requests carry the same id.
THEOREM OnlySignedIsStored == Spec => OnlySignedRecorded
  <1> DEFINE Signed ==
        \A e \in Events :
            ledger'[e] # ledger[e] \/ (e \in outbox' /\ e \notin outbox) =>
                \E s \in Sessions : pc'[s] # pc[s] /\ kind[s] = "signed" /\ id[s] = e
  <1>1. IInv /\ Next => Signed
    <2> SUFFICES ASSUME IInv, NEW s \in Sessions,
                        \/ \E k \in Kinds, e \in Events : Receive(s, k, e)
                        \/ HandlerStep(s) \/ StoreStep(s) \/ RequestLost(s)
                 PROVE  Signed
      BY DEF Next
    <2>1. CASE StoreStep(s)
      <3> SUFFICES ASSUME NEW e \in Events,
                          ledger'[e] # ledger[e] \/ (e \in outbox' /\ e \notin outbox)
                   PROVE  pc'[s] # pc[s] /\ kind[s] = "signed" /\ id[s] = e
        OBVIOUS
      <3>1. pc[s] = "commit" /\ pc'[s] = "returned" /\ event[s] = e
        BY <2>1, StatementTables DEF StoreStep
      <3>2. kind[s] = "signed" /\ id[s] = e
        BY <3>1, RequestFacts DEF RequestOK
      <3> QED
        BY <3>1, <3>2
    <2>2. CASE \/ \E k \in Kinds, e \in Events : Receive(s, k, e)
               \/ HandlerStep(s) \/ RequestLost(s)
      <3>1. UNCHANGED <<ledger, outbox>>
        BY <2>2 DEF Receive, HandlerStep, ReadBody, Verify, Accept, Accepted,
                    CheckStatus, Checked, Respond, RequestLost, storeVars,
                    Store!Call, Store!TakeResult, Store!Crash, Store!tables
      <3> QED
        BY <3>1
    <2> QED
      BY <2>1, <2>2
  <1>2. IInv /\ [Next]_vars => [Signed]_vars
    BY <1>1
  <1> QED
    BY <1>2, Inductive, PTL DEF Spec, OnlySignedRecorded
================================================================================
