--------------------------- MODULE ApiServer_proofs ----------------------------
(***************************************************************************)
(* Proofs about ApiServer, for any number of requests, signals, outages and  *)
(* restarts: what the access log says of a request, panics included, which   *)
(* requests the end of a process can cost, and what its settings are.        *)
(***************************************************************************)
EXTENDS ApiServer, WellFoundedInduction, TLAPS

\* What the log has of a request when its handler runs.
Started(r) ==
    IF isProbeRequest(r) THEN {} ELSE {<<"request_started", 0>>}

\* What the log has of it in the end.
Ended(r) ==
    LET panic  == <<"panic", 0>>
        ending == IF panic \in logged[r] THEN panic
                  ELSE <<"request_completed", wire(r)>>
    IN  IF isProbeRequest(r) THEN logged[r] \subseteq {panic}
        ELSE logged[r] = {<<"request_started", 0>>, ending}

\* A request at each point of the middleware: the recorder and the connection
\* agree once the handler has answered.
RequestInv(r) ==
    /\ at[r] = "none" => written[r] = <<>> /\ logged[r] = {}
    /\ at[r] \in {"handling", "responded"} => logged[r] = Started(r)
    /\ at[r] = "handling" => written[r] = <<>>
    /\ at[r] = "responded" => written[r] = <<recorded[r]>>
    /\ at[r] = "done" => Ended(r)

\* Requests come in only through an open listener, and only the API has one.
ListenerInv ==
    /\ main \in {"load", "open", "client", "exited"} => listener = "off"
    /\ command # "api" => listener = "off"
    /\ listener \in {"off", "starting"} => \A r \in Requests : at[r] = "none"

IInv ==
    /\ TypeOK
    /\ ListenerInv
    /\ LostOnlyByForce
    /\ \A r \in Requests : RequestInv(r)

\* The types, by part of the state.
ProcessTyped ==
    /\ command \in Commands /\ env \in Environments[command]
    /\ db \in {"up", "down"}
    /\ main \in {"load", "open", "client", "notify", "serving", "draining", "exited"}
    /\ how \in {"", "config", "store", "client", "listen", "clean", "deadline",
                "terminated", "killed"}
    /\ listener \in {"off", "starting", "open", "closed"}
    /\ lost \subseteq Requests
    /\ faults \in Nat

RequestTyped ==
    /\ at \in [Requests -> {"none", "handling", "responded", "done"}]
    /\ route \in [Requests -> Routes]
    /\ recorded \in [Requests -> Statuses]
    /\ written \in [Requests -> Seq(Statuses)]
    /\ logged \in [Requests -> SUBSET (Messages \X (Statuses \cup {0}))]

\* Both parts.
LEMMA TypeParts == TypeOK <=> ProcessTyped /\ RequestTyped
  BY DEF TypeOK, ProcessTyped, RequestTyped

\* The same after a step.
LEMMA NextTypeParts == ProcessTyped' /\ RequestTyped' => TypeOK'
  BY TypeParts, PTL

\* A new process has no requests.
LEMMA NoRequestsInv ==
    ASSUME NoRequests
    PROVE  RequestTyped' /\ \A r \in Requests : at'[r] = "none" /\ RequestInv(r)'
  <1>1. RequestTyped'
    BY DEF NoRequests, RequestTyped, Routes, Codes, Statuses
  <1>2. \A r \in Requests : RequestInv(r)' /\ at'[r] = "none"
    BY DEF NoRequests, RequestInv
  <1> QED
    BY <1>1, <1>2

\* Requests that take no step keep their part of the invariant.
LEMMA RequestsStay ==
    ASSUME IInv, UNCHANGED request
    PROVE  RequestTyped' /\ \A r \in Requests : RequestInv(r)'
  BY TypeParts
     DEF IInv, request, RequestTyped, RequestInv, Started, Ended, isProbeRequest, wire

\* The end of a process loses a request only by force.
LEMMA ExitIInv ==
    ASSUME IInv, NEW reason \in {"config", "store", "client", "listen", "clean",
                                 "deadline", "terminated", "killed"},
           Exit(reason), UNCHANGED <<process, db>>, faults' \in Nat,
           reason \in {"deadline", "terminated", "killed"} \/ InFlight = {}
    PROVE  IInv'
  <1>1. ProcessTyped /\ RequestTyped
    BY TypeParts DEF IInv
  <1>2. /\ main' = "exited" /\ how' = reason /\ listener' = "off" /\ lost' = InFlight
        /\ NoRequests
    BY DEF Exit
  <1>3. ProcessTyped'
    BY <1>1, <1>2 DEF ProcessTyped, process, InFlight
  <1>4. TypeOK' /\ \A r \in Requests : at'[r] = "none" /\ RequestInv(r)'
    BY <1>2, <1>3, NoRequestsInv, NextTypeParts
  <1>5. ListenerInv' /\ LostOnlyByForce'
    BY <1>2, <1>4 DEF ListenerInv, LostOnlyByForce
  <1> QED
    BY <1>4, <1>5 DEF IInv

\* Before the listener is open nothing is in flight.
LEMMA NothingInFlight ==
    ASSUME IInv, listener \in {"off", "starting"} PROVE InFlight = {}
  BY DEF IInv, ListenerInv, InFlight

\* A step of main that leaves the requests alone.
LEMMA ContinueIInv ==
    ASSUME IInv, UNCHANGED <<request, process, how, lost>>, ProcessTyped', ListenerInv'
    PROVE  IInv'
  <1>1. RequestTyped' /\ \A r \in Requests : RequestInv(r)'
    BY RequestsStay
  <1>2. LostOnlyByForce'
    BY DEF IInv, LostOnlyByForce
  <1> QED
    BY <1>1, <1>2, NextTypeParts DEF IInv

\* The start of a process, up to its first listener.
LEMMA StartIInv ==
    ASSUME IInv, LoadConfig \/ NewPostgres \/ NewClient \/ Notify \/ Restart PROVE IInv'
  <1>1. /\ ProcessTyped /\ ListenerInv /\ UNCHANGED <<process, db, faults>>
        /\ faults' \in Nat
    BY TypeParts
       DEF IInv, ProcessTyped, LoadConfig, NewPostgres, NewClient, Notify, Restart
  <1>2. CASE \E reason \in {"config", "store", "client"} :
                Exit(reason) /\ main \in {"load", "open", "client"}
    BY <1>1, <1>2, NothingInFlight, ExitIInv DEF ListenerInv
  <1>3. CASE \E step \in {"load", "open", "client", "notify", "serving"} :
               /\ Continue(step)
               /\ \/ UNCHANGED listener /\ (step \in {"load", "open"} => listener = "off")
                        /\ step # "client"
                  \/ /\ main = "open" /\ step \in {"client", "notify"}
                     /\ command = "api" <=> step = "notify"
                     /\ listener' = IF command = "api" THEN "starting" ELSE "off"
    <2>1. /\ UNCHANGED <<request, process, how, lost>>
          /\ main' \in {"load", "open", "client", "notify", "serving"}
          /\ listener' \in {"off", "starting", "open", "closed"}
      BY <1>1, <1>3 DEF Continue, ProcessTyped
    <2>2. ProcessTyped'
      BY <1>1, <2>1 DEF ProcessTyped, process
    <2>3. at' = at /\ command' = command
      BY <2>1 DEF request, process
    <2>4. ListenerInv'
      BY <1>1, <1>3, <2>3 DEF Continue, ListenerInv
    <2> QED
      BY <2>1, <2>2, <2>4, ContinueIInv
  <1>4. LoadConfig \/ Notify \/ Restart \/ NewClient =>
          \/ \E reason \in {"config", "client"} :
                Exit(reason) /\ main \in {"load", "open", "client"}
          \/ \E step \in {"load", "open", "serving"} :
                /\ Continue(step) /\ UNCHANGED listener
                /\ step \in {"load", "open"} => listener = "off"
    BY <1>1 DEF LoadConfig, Notify, Restart, NewClient, ListenerInv
  <1>5. NewPostgres =>
          \/ Exit("store") /\ main = "open"
          \/ /\ main = "open" /\ Continue(IF command = "api" THEN "notify" ELSE "client")
             /\ listener' = IF command = "api" THEN "starting" ELSE "off"
    BY DEF NewPostgres
  <1> QED
    BY <1>2, <1>3, <1>4, <1>5

\* The listener's goroutine, which may also end the process.
LEMMA ListenIInv ==
    ASSUME IInv, ListenAndServe PROVE IInv'
  <1>1. /\ ProcessTyped /\ ListenerInv /\ UNCHANGED <<process, db, faults>>
        /\ faults' \in Nat /\ listener = "starting"
    BY TypeParts DEF IInv, ProcessTyped, ListenAndServe
  <1>2. CASE Exit("listen")
    BY <1>1, <1>2, NothingInFlight, ExitIInv
  <1>3. CASE listener' = "open" /\ UNCHANGED <<main, how, lost, request>>
    <2>1. ProcessTyped' /\ ListenerInv'
      BY <1>1, <1>3 DEF ProcessTyped, ListenerInv, process
    <2> QED
      BY <1>1, <1>3, <2>1, ContinueIInv
  <1> QED
    BY <1>2, <1>3 DEF ListenAndServe

\* SIGTERM, the drain and its deadline, SIGKILL.
LEMMA EndIInv ==
    ASSUME IInv, Shutdown \/ Drained \/ Deadline \/ Terminate \/ Kill PROVE IInv'
  <1>1. /\ ProcessTyped /\ ListenerInv /\ UNCHANGED <<process, db>> /\ faults' \in Nat
    <2>1. ProcessTyped /\ ListenerInv /\ faults \in Nat
      BY TypeParts DEF IInv, ProcessTyped
    <2> QED
      BY <2>1 DEF Shutdown, Drained, Deadline, Terminate, Kill, Fault
  <1>2. CASE Drained \/ Deadline \/ Terminate \/ Kill
    BY <1>1, <1>2, ExitIInv DEF Drained, Deadline, Terminate, Kill
  <1>3. CASE Shutdown /\ command # "api"
    BY <1>1, <1>3, NothingInFlight, ExitIInv DEF Shutdown, ListenerInv
  <1>4. CASE Shutdown /\ command = "api"
    <2>1. /\ main' = "draining" /\ listener' = "closed"
          /\ UNCHANGED <<how, lost, request>>
      BY <1>4 DEF Shutdown, Continue
    <2>2. ProcessTyped'
      BY <1>1, <2>1 DEF ProcessTyped, process
    <2>3. ListenerInv'
      BY <1>1, <1>4, <2>1 DEF ListenerInv, process
    <2> QED
      BY <1>1, <2>1, <2>2, <2>3, ContinueIInv
  <1> QED
    BY <1>2, <1>3, <1>4

\* Postgres goes and comes back.
LEMMA DatabaseIInv ==
    ASSUME IInv, DatabaseStep PROVE IInv'
  <1>1. /\ ProcessTyped /\ ListenerInv
        /\ UNCHANGED <<process, main, how, listener, request, lost>>
    BY TypeParts DEF IInv, DatabaseStep
  <1>2. faults' \in Nat /\ db' \in {"up", "down"}
    <2>1. faults \in Nat
      BY <1>1 DEF ProcessTyped
    <2> QED
      BY <2>1 DEF DatabaseStep, Outage, Recovery, Fault
  <1>3. ProcessTyped' /\ ListenerInv'
    BY <1>1, <1>2 DEF ProcessTyped, ListenerInv, process, request
  <1> QED
    BY <1>1, <1>3, ContinueIInv

--------------------------------------------------------------------------------
(* Requests *)

\* A step of request r, at the listener that let it in.
RequestKept(q) ==
    /\ at'[q] = at[q] /\ route'[q] = route[q] /\ recorded'[q] = recorded[q]
    /\ written'[q] = written[q] /\ logged'[q] = logged[q]

\* One request's step leaves the others and the process.
LEMMA OneRequest ==
    ASSUME IInv, NEW r \in Requests, RequestTyped', RequestInv(r)',
           \A q \in Requests \ {r} : RequestKept(q),
           listener = "open" \/ at[r] # "none",
           UNCHANGED <<process, db, main, how, listener, lost, faults>>
    PROVE  IInv'
  <1>1. ProcessTyped'
    BY TypeParts DEF IInv, ProcessTyped, process
  <1>2. ListenerInv'
    BY DEF IInv, ListenerInv, process
  <1>3. LostOnlyByForce'
    BY DEF IInv, LostOnlyByForce
  <1>4. ASSUME NEW q \in Requests, q # r PROVE RequestInv(q)'
    BY <1>4 DEF IInv, RequestInv, RequestKept, Started, Ended, isProbeRequest,
                 wire
  <1> QED
    BY <1>1, <1>2, <1>3, <1>4, NextTypeParts DEF IInv

\* A request comes in.
LEMMA ArriveStep ==
    ASSUME IInv, NEW r \in Requests, NEW to \in Routes, Arrive(r, to)
    PROVE  /\ RequestTyped' /\ RequestInv(r)'
           /\ \A q \in Requests \ {r} : RequestKept(q)
           /\ listener = "open" \/ at[r] # "none"
  <1>1. RequestTyped /\ RequestInv(r)
    BY TypeParts DEF IInv
  <1>2. RequestTyped'
    <2>1. logged' \in [Requests -> SUBSET (Messages \X (Statuses \cup {0}))]
      <3>1. CASE UNCHANGED logged
        BY <1>1, <3>1 DEF RequestTyped
      <3>2. CASE Log(r, "request_started", 0)
        <4>1. <<"request_started", 0>> \in Messages \X (Statuses \cup {0})
          BY DEF Messages
        <4>2. logged[r] \cup {<<"request_started", 0>>}
                \in SUBSET (Messages \X (Statuses \cup {0}))
          BY <1>1, <4>1 DEF RequestTyped
        <4> QED
          BY <1>1, <3>2, <4>2 DEF Log, RequestTyped
      <3> QED
        BY <3>1, <3>2 DEF Arrive
    <2>2. /\ at' \in [Requests -> {"none", "handling", "responded", "done"}]
          /\ route' \in [Requests -> Routes] /\ UNCHANGED <<recorded, written>>
      BY <1>1 DEF Arrive, RequestTyped
    <2> QED
      BY <1>1, <2>1, <2>2 DEF RequestTyped
  <1>3. /\ at'[r] = "handling" /\ route'[r] = to /\ UNCHANGED <<recorded, written>>
        /\ written[r] = <<>> /\ listener = "open" /\ logged[r] = {}
    BY <1>1 DEF Arrive, RequestTyped, RequestInv
  <1>4. logged'[r] = IF to \in {"livez", "readyz"} THEN {} ELSE {<<"request_started", 0>>}
    BY <1>1, <1>3 DEF Arrive, Log, RequestTyped
  <1>5. RequestInv(r)'
    BY <1>3, <1>4 DEF RequestInv, Started, isProbeRequest
  <1>6. \A q \in Requests \ {r} : RequestKept(q)
    BY <1>1 DEF Arrive, Log, RequestTyped, RequestKept
  <1> QED
    BY <1>2, <1>3, <1>5, <1>6

\* Its handler answers, and the recorder keeps what the client gets.
LEMMA RespondStep ==
    ASSUME IInv, NEW r \in Requests, NEW code \in Codes[route[r]], Respond(r, code)
    PROVE  /\ RequestTyped' /\ RequestInv(r)'
           /\ \A q \in Requests \ {r} : RequestKept(q)
           /\ at[r] # "none"
  <1>1. RequestTyped /\ RequestInv(r) /\ code \in Statuses
    BY TypeParts DEF IInv, RequestTyped, Routes, Codes, Statuses
  <1>2. RequestTyped'
    BY <1>1 DEF Respond, WriteHeader, Write, RequestTyped
  <1>3. /\ at[r] = "handling" /\ at'[r] = "responded"
        /\ written'[r] = Append(written[r], code)
        /\ recorded'[r] = code /\ UNCHANGED <<route, logged>>
    BY <1>1 DEF Respond, WriteHeader, Write, RequestTyped
  <1>4. RequestInv(r)'
    <2>1. written'[r] = <<code>>
      <3>1. written[r] = <<>>
        BY <1>1, <1>3 DEF RequestInv
      <3>2. Append(<<>>, code) = <<code>>
        OBVIOUS
      <3> QED
        BY <1>3, <3>1, <3>2
    <2> QED
      BY <1>1, <1>3, <2>1 DEF RequestInv, Started, isProbeRequest
  <1>5. \A q \in Requests \ {r} : RequestKept(q)
    BY <1>1 DEF Respond, WriteHeader, Write, RequestTyped, RequestKept
  <1> QED
    BY <1>2, <1>3, <1>4, <1>5

\* Its handler returns.
LEMMA FinishStep ==
    ASSUME IInv, NEW r \in Requests, Finish(r)
    PROVE  /\ RequestTyped' /\ RequestInv(r)'
           /\ \A q \in Requests \ {r} : RequestKept(q)
           /\ at[r] # "none"
  <1>1. RequestTyped /\ RequestInv(r) /\ recorded[r] \in Statuses
    BY TypeParts DEF IInv, RequestTyped
  <1>2. RequestTyped'
    BY <1>1 DEF Finish, Log, RequestTyped, Messages
  <1>3. /\ at[r] = "responded" /\ at'[r] = "done"
        /\ UNCHANGED <<route, recorded, written>>
        /\ logged'[r] = IF isProbeRequest(r) THEN logged[r]
                        ELSE logged[r] \cup {<<"request_completed", recorded[r]>>}
    BY <1>1 DEF Finish, Log, RequestTyped
  <1>4. RequestInv(r)'
    <2>1. written'[r] = <<recorded[r]>> /\ logged[r] = Started(r)
      BY <1>1, <1>3 DEF RequestInv
    <2>2. wire(r)' = recorded[r]
      BY <2>1 DEF wire
    <2>3. Ended(r)'
      BY <1>3, <2>1, <2>2 DEF Started, Ended, isProbeRequest
    <2> QED
      BY <1>3, <2>3 DEF RequestInv
  <1>5. \A q \in Requests \ {r} : RequestKept(q)
    BY <1>1 DEF Finish, Log, RequestTyped, RequestKept
  <1> QED
    BY <1>2, <1>3, <1>4, <1>5

\* Its handler panics, before or after it has answered.
LEMMA RecoverStep ==
    ASSUME IInv, NEW r \in Requests, Recover(r)
    PROVE  /\ RequestTyped' /\ RequestInv(r)'
           /\ \A q \in Requests \ {r} : RequestKept(q)
           /\ at[r] # "none"
  <1>1. RequestTyped /\ RequestInv(r)
    BY TypeParts DEF IInv
  <1>2. RequestTyped'
    BY <1>1 DEF Recover, Log, Write, RequestTyped, Messages, Statuses
  <1>3. /\ at[r] \in {"handling", "responded"} /\ at'[r] = "done"
        /\ logged'[r] = logged[r] \cup {<<"panic", 0>>} /\ UNCHANGED <<route, recorded>>
    BY <1>1 DEF Recover, Log, RequestTyped
  <1>4. RequestInv(r)'
    <2>1. logged[r] = Started(r)
      BY <1>1, <1>3 DEF RequestInv
    <2>2. Ended(r)'
      BY <1>3, <2>1 DEF Started, Ended, isProbeRequest
    <2> QED
      BY <1>3, <2>2 DEF RequestInv
  <1>5. \A q \in Requests \ {r} : RequestKept(q)
    BY <1>1 DEF Recover, Log, Write, RequestTyped, RequestKept
  <1> QED
    BY <1>2, <1>3, <1>4, <1>5

\* Every step of a request.
LEMMA RequestIInv ==
    ASSUME IInv, RequestStep PROVE IInv'
  <1>1. PICK r \in Requests :
          \/ \E to \in Routes : Arrive(r, to)
          \/ \E code \in Codes[route[r]] : Respond(r, code)
          \/ Finish(r) \/ Recover(r)
    BY DEF RequestStep
  <1>2. /\ RequestTyped' /\ RequestInv(r)'
        /\ \A q \in Requests \ {r} : RequestKept(q)
        /\ listener = "open" \/ at[r] # "none"
    BY <1>1, ArriveStep, RespondStep, FinishStep, RecoverStep
  <1> QED
    BY <1>2, OneRequest DEF RequestStep

--------------------------------------------------------------------------------
(* The theorems *)

\* A process that has not started yet.
LEMMA InitIInv == Init => IInv
  <1> SUFFICES ASSUME Init PROVE IInv
    OBVIOUS
  <1>1. ProcessTyped
    BY DEF Init, ProcessTyped
  <1>2. RequestTyped
    <2>1. /\ at = [r \in Requests |-> "none"] /\ route = [r \in Requests |-> "livez"]
          /\ recorded = [r \in Requests |-> 200] /\ written = [r \in Requests |-> <<>>]
          /\ logged = [r \in Requests |-> {}]
      BY DEF Init
    <2>2. "livez" \in Routes
      BY DEF Routes, Codes
    <2> QED
      BY <2>1, <2>2 DEF RequestTyped, Statuses
  <1>3. ListenerInv /\ LostOnlyByForce /\ \A r \in Requests : RequestInv(r)
    BY DEF Init, ListenerInv, LostOnlyByForce, RequestInv
  <1> QED
    BY <1>1, <1>2, <1>3, TypeParts DEF IInv

\* Every step of the process, its requests, its database and its operator.
LEMMA NextIInv == IInv /\ [Next]_vars => IInv'
  <1> SUFFICES ASSUME IInv, [Next]_vars PROVE IInv'
    OBVIOUS
  <1>1. CASE MainStep \/ Shutdown \/ Terminate \/ Kill \/ Restart
    BY <1>1, StartIInv, ListenIInv, EndIInv DEF MainStep
  <1>2. CASE RequestStep \/ DatabaseStep
    BY <1>2, RequestIInv, DatabaseIInv
  <1>3. CASE UNCHANGED vars
    <2>1. ProcessTyped' /\ ListenerInv'
      BY <1>3, TypeParts DEF IInv, vars, ProcessTyped, ListenerInv, process, request
    <2> QED
      BY <1>3, <2>1, ContinueIInv DEF vars
  <1> QED
    BY <1>1, <1>2, <1>3 DEF Next

\* The inductive invariant holds in every behaviour.
LEMMA Inductive == Spec => []IInv
  BY InitIInv, NextIInv, PTL DEF Spec

\* main, the recorder and the log stay within their types.
THEOREM TypeCorrect == Spec => []TypeOK
  <1>1. IInv => TypeOK
    BY DEF IInv
  <1> QED
    BY <1>1, Inductive, PTL

\* RequestLog pairs each request_started with the status on the wire or a panic.
THEOREM LogTellsTheTruth == Spec => []AccessLogMatchesWire
  <1>1. IInv => AccessLogMatchesWire
    BY DEF IInv, RequestInv, Ended, AccessLogMatchesWire
  <1> QED
    BY <1>1, Inductive, PTL

\* main's drain loses nothing before its deadline, whichever way a start fails.
THEOREM DrainKeepsRequests == Spec => []LostOnlyByForce
  <1>1. IInv => LostOnlyByForce
    BY DEF IInv
  <1> QED
    BY <1>1, Inductive, PTL

--------------------------------------------------------------------------------
(* What a process that serves was checked for *)

\* A set of numbers has a least one.
LEMMA Least ==
    ASSUME NEW S, S \subseteq Nat, S # {}
    PROVE  \E i \in S : \A j \in S : i <= j
  <1>1. PICK i \in S : \A j \in S : <<j, i>> \notin OpToRel(<, Nat)
    BY NatLessThanWellFounded, WFMin
  <1>2. \A j \in S : ~ (j < i)
    BY <1>1 DEF OpToRel
  <1> QED
    BY <1>2

\* The places in a list are numbers.
LEMMA PlacesAreNat == ASSUME NEW n \in Nat PROVE 1 .. n \subseteq Nat
  OBVIOUS

\* A loader's error is empty exactly when none of its checks fails.
LEMMA FirstFailingEmpty ==
    ASSUME NEW n \in Nat, NEW checks, DOMAIN checks = 1 .. n,
           \A i \in 1 .. n : checks[i][1] # "" /\ checks[i][2] \in BOOLEAN
    PROVE  FirstFailing(checks) = "" <=> \A i \in 1 .. n : checks[i][2] = FALSE
  <1> DEFINE failing == {i \in DOMAIN checks : checks[i][2]}
  <1>1. CASE failing = {}
    BY <1>1 DEF FirstFailing
  <1>2. CASE failing # {}
    <2>1. \E i \in failing : \A j \in failing : i <= j
      <3>1. failing \subseteq DOMAIN checks
        BY Zenon
      <3> HIDE DEF failing
      <3> QED
        BY <1>2, <3>1, PlacesAreNat, Least
    <2>2. Min(failing) \in failing
      BY <2>1 DEF Min
    <2>3. FirstFailing(checks) = checks[Min(failing)][1]
      BY <1>2 DEF FirstFailing
    <2> QED
      BY <2>2, <2>3
  <1> QED
    BY <1>1, <1>2

\* What Load refuses.
LEMMA LoadRefuses ==
    ASSUME NEW e
    PROVE  Load(e) = "" <=> e.STRIPE_WEBHOOK_SECRET # "" /\ e.DATABASE_URL # ""
  <1> DEFINE checks ==
        <<  <<"STRIPE_WEBHOOK_SECRET", e.STRIPE_WEBHOOK_SECRET = "">>,
            <<"DATABASE_URL", e.DATABASE_URL = "">> >>
  <1>1. /\ DOMAIN checks = 1 .. 2 /\ \A i \in 1 .. 2 : checks[i][1] # ""
        /\ \A i \in 1 .. 2 : checks[i][2] \in BOOLEAN
        /\ checks[1][2] = (e.STRIPE_WEBHOOK_SECRET = "")
        /\ checks[2][2] = (e.DATABASE_URL = "")
        /\ Load(e) = FirstFailing(checks)
    BY DEF Load
  <1> HIDE DEF checks
  <1>2. Load(e) = "" <=> \A i \in 1 .. 2 : checks[i][2] = FALSE
    BY <1>1, FirstFailingEmpty
  <1>3. (\A i \in 1 .. 2 : checks[i][2] = FALSE) <=>
          /\ checks[1][2] = FALSE
          /\ checks[2][2] = FALSE
    OBVIOUS
  <1> QED
    BY <1>1, <1>2, <1>3, Zenon

\* What LoadPublisher refuses.
LEMMA LoadPublisherRefuses ==
    ASSUME NEW e
    PROVE  LoadPublisher(e) = "" <=>
              /\ e.DATABASE_URL # "" /\ e.KAFKA_BROKERS # ""
              /\ splitCSV(e.KAFKA_BROKERS) # <<>> /\ e.KAFKA_TOPIC # ""
              /\ e.POLL_INTERVAL \notin {"unparsable", "nonpositive"}
  <1> DEFINE checks ==
        <<  <<"DATABASE_URL", e.DATABASE_URL = "">>,
            <<"KAFKA_BROKERS", e.KAFKA_BROKERS = "">>,
            <<"KAFKA_BROKERS", splitCSV(e.KAFKA_BROKERS) = <<>> >>,
            <<"KAFKA_TOPIC", e.KAFKA_TOPIC = "">>,
            <<"PUBLISHER_POLL_INTERVAL", e.POLL_INTERVAL = "unparsable">>,
            <<"PUBLISHER_POLL_INTERVAL", e.POLL_INTERVAL = "nonpositive">> >>
  <1>1. /\ DOMAIN checks = 1 .. 6 /\ \A i \in 1 .. 6 : checks[i][1] # ""
        /\ \A i \in 1 .. 6 : checks[i][2] \in BOOLEAN
        /\ checks[1][2] = (e.DATABASE_URL = "")
        /\ checks[2][2] = (e.KAFKA_BROKERS = "")
        /\ checks[3][2] = (splitCSV(e.KAFKA_BROKERS) = <<>>)
        /\ checks[4][2] = (e.KAFKA_TOPIC = "")
        /\ checks[5][2] = (e.POLL_INTERVAL = "unparsable")
        /\ checks[6][2] = (e.POLL_INTERVAL = "nonpositive")
        /\ LoadPublisher(e) = FirstFailing(checks)
    BY DEF LoadPublisher
  <1> HIDE DEF checks
  <1>2. LoadPublisher(e) = "" <=> \A i \in 1 .. 6 : checks[i][2] = FALSE
    BY <1>1, FirstFailingEmpty
  <1>3. (\A i \in 1 .. 6 : checks[i][2] = FALSE) <=>
          /\ checks[1][2] = FALSE
          /\ checks[2][2] = FALSE
          /\ checks[3][2] = FALSE
          /\ checks[4][2] = FALSE
          /\ checks[5][2] = FALSE
          /\ checks[6][2] = FALSE
    OBVIOUS
  <1> QED
    BY <1>1, <1>2, <1>3, Zenon

\* What LoadWorker refuses.
LEMMA LoadWorkerRefuses ==
    ASSUME NEW e
    PROVE  LoadWorker(e) = "" <=>
              /\ e.KAFKA_BROKERS # "" /\ splitCSV(e.KAFKA_BROKERS) # <<>>
              /\ e.KAFKA_TOPIC # "" /\ e.KAFKA_GROUP_ID # "" /\ e.DATABASE_URL # ""
              /\ e.DOWNSTREAM_URL # "" /\ validateDownstreamURL(e.DOWNSTREAM_URL)
  <1> DEFINE checks ==
        <<  <<"KAFKA_BROKERS", e.KAFKA_BROKERS = "">>,
            <<"KAFKA_BROKERS", splitCSV(e.KAFKA_BROKERS) = <<>> >>,
            <<"KAFKA_TOPIC", e.KAFKA_TOPIC = "">>,
            <<"KAFKA_GROUP_ID", e.KAFKA_GROUP_ID = "">>,
            <<"DATABASE_URL", e.DATABASE_URL = "">>,
            <<"DOWNSTREAM_URL", e.DOWNSTREAM_URL = "">>,
            <<"DOWNSTREAM_URL", ~validateDownstreamURL(e.DOWNSTREAM_URL)>> >>
  <1>1. /\ DOMAIN checks = 1 .. 7 /\ \A i \in 1 .. 7 : checks[i][1] # ""
        /\ \A i \in 1 .. 7 : checks[i][2] \in BOOLEAN
        /\ checks[1][2] = (e.KAFKA_BROKERS = "")
        /\ checks[2][2] = (splitCSV(e.KAFKA_BROKERS) = <<>>)
        /\ checks[3][2] = (e.KAFKA_TOPIC = "")
        /\ checks[4][2] = (e.KAFKA_GROUP_ID = "")
        /\ checks[5][2] = (e.DATABASE_URL = "")
        /\ checks[6][2] = (e.DOWNSTREAM_URL = "")
        /\ checks[7][2] = (~validateDownstreamURL(e.DOWNSTREAM_URL))
        /\ LoadWorker(e) = FirstFailing(checks)
    BY DEF LoadWorker
  <1> HIDE DEF checks
  <1>2. LoadWorker(e) = "" <=> \A i \in 1 .. 7 : checks[i][2] = FALSE
    BY <1>1, FirstFailingEmpty
  <1>3. (\A i \in 1 .. 7 : checks[i][2] = FALSE) <=>
          /\ checks[1][2] = FALSE
          /\ checks[2][2] = FALSE
          /\ checks[3][2] = FALSE
          /\ checks[4][2] = FALSE
          /\ checks[5][2] = FALSE
          /\ checks[6][2] = FALSE
          /\ checks[7][2] = FALSE
    OBVIOUS
  <1> QED
    BY <1>1, <1>2, <1>3, Zenon

\* What the checks after the loader add.
Reachable == env.DATABASE_URL = "good"
WellFormed == command # "api" => env.KAFKA_BROKERS # "malformed"
PortFree == command = "api" => env.PORT # "taken"

\* With those a loader accepts exactly what a command needs.
LEMMA LoadedIsComplete ==
    ASSUME command \in Commands, env \in Environments[command]
    PROVE  LoadError(command, env) = "" /\ Reachable /\ WellFormed /\ PortFree
              <=> Complete(env)
  <1> USE DEF Reachable, WellFormed, PortFree, Complete, Optional, Texts, DatabaseURLs,
              Brokers, splitCSV, validateDownstreamURL
  <1>1. CASE command = "api"
    <2>1. env \in [PORT : {"", "taken", "good"}, STRIPE_WEBHOOK_SECRET : Texts,
                   DATABASE_URL : DatabaseURLs]
      BY <1>1 DEF Environments
    <2>2. LoadError(command, env) = Load(env)
      BY <1>1 DEF LoadError
    <2> QED
      BY <1>1, <2>1, <2>2, LoadRefuses
  <1>2. CASE command = "publisher"
    <2>1. env \in [DATABASE_URL : DatabaseURLs, KAFKA_BROKERS : Brokers,
                   KAFKA_TOPIC : Texts,
                   POLL_INTERVAL : {"", "unparsable", "nonpositive", "good"}]
      BY <1>2 DEF Environments
    <2>2. LoadError(command, env) = LoadPublisher(env)
      BY <1>2 DEF LoadError
    <2>3. Complete(env) <=>
            /\ env.DATABASE_URL = "good" /\ env.KAFKA_BROKERS = "good"
            /\ env.KAFKA_TOPIC = "good" /\ env.POLL_INTERVAL \in {"", "good"}
      <3>1. DOMAIN env = {"DATABASE_URL", "KAFKA_BROKERS", "KAFKA_TOPIC", "POLL_INTERVAL"}
        BY <2>1
      <3>2. Complete(env) <=>
              /\ env["DATABASE_URL"] = "good" /\ env["KAFKA_BROKERS"] = "good"
              /\ env["KAFKA_TOPIC"] = "good" /\ env["POLL_INTERVAL"] \in {"", "good"}
        <4>1. /\ "DATABASE_URL" \notin Optional /\ "KAFKA_BROKERS" \notin Optional
              /\ "KAFKA_TOPIC" \notin Optional /\ "POLL_INTERVAL" \in Optional
          OBVIOUS
        <4> QED
          BY <3>1, <4>1, Zenon
      <3> QED
        BY <3>2
    <2>4. LoadError(command, env) = "" /\ Reachable /\ WellFormed =>
            /\ env.DATABASE_URL = "good" /\ env.KAFKA_BROKERS = "good"
            /\ env.KAFKA_TOPIC = "good" /\ env.POLL_INTERVAL \in {"", "good"}
      BY <1>2, <2>1, <2>2, LoadPublisherRefuses
    <2> QED
      BY <1>2, <2>1, <2>2, <2>3, <2>4, LoadPublisherRefuses
  <1>3. CASE command = "worker"
    <2>1. env \in [KAFKA_BROKERS : Brokers, KAFKA_TOPIC : Texts, KAFKA_GROUP_ID : Texts,
                   DATABASE_URL : DatabaseURLs,
                   DOWNSTREAM_URL : {"", "unparsable", "otherScheme", "noHost", "good"}]
      BY <1>3 DEF Environments
    <2>2. LoadError(command, env) = LoadWorker(env)
      BY <1>3 DEF LoadError
    <2> QED
      BY <1>3, <2>1, <2>2, LoadWorkerRefuses
  <1>4. command \in {"api", "publisher", "worker"}
    BY DEF Commands, Environments
  <1> QED
    BY <1>1, <1>2, <1>3, <1>4

\* How far a start has got says which checks the settings have passed.
StartInv ==
    /\ main \notin {"load", "exited"} => LoadError(command, env) = ""
    /\ main \in {"client", "notify", "serving", "draining"} => Reachable
    /\ main \in {"serving", "draining"} => WellFormed
    /\ main = "client" => command # "api"
    /\ main = "notify" => command = "api"
    /\ listener = "open" => PortFree
    /\ how \in {"config", "client", "listen"} => ~ Complete(env)

\* The settings stay, and with them what is true of them.
LEMMA SettingsStay ==
    ASSUME [Next]_vars
    PROVE  /\ command' = command
           /\ LoadError(command, env)' = LoadError(command, env)
           /\ Reachable' = Reachable /\ WellFormed' = WellFormed
           /\ PortFree' = PortFree /\ Complete(env)' = Complete(env)
  <1>1. command' = command /\ env' = env
    BY DEF Next, vars, process, MainStep, LoadConfig, NewPostgres, NewClient, Notify,
           ListenAndServe, Drained, Deadline, RequestStep, DatabaseStep, Shutdown,
           Terminate, Kill, Restart
  <1> QED
    BY <1>1 DEF Reachable, WellFormed, PortFree

\* A process that ends leaves only its reason behind.
LEMMA ExitStartInv ==
    ASSUME [Next]_vars, NEW reason, Exit(reason),
           reason \in {"config", "client", "listen"} => ~ Complete(env)
    PROVE  StartInv'
  BY SettingsStay DEF Exit, StartInv

\* Every check is passed before the next step of the start.
LEMMA NextStartInv == IInv /\ StartInv /\ [Next]_vars => StartInv'
  <1> SUFFICES ASSUME IInv, StartInv, [Next]_vars PROVE StartInv'
    OBVIOUS
  <1>1. /\ LoadError(command, env) # "" => ~ Complete(env)
        /\ ~ WellFormed => ~ Complete(env)
        /\ ~ PortFree => ~ Complete(env)
        /\ command # "api" => listener = "off"
    BY LoadedIsComplete, TypeParts DEF IInv, ProcessTyped, ListenerInv
  <1>2. CASE LoadConfig
    <2>1. CASE LoadError(command, env) = ""
      BY <1>2, <2>1, SettingsStay DEF LoadConfig, Continue, StartInv
    <2>2. CASE LoadError(command, env) # ""
      BY <1>1, <1>2, <2>2, ExitStartInv DEF LoadConfig
    <2> QED
      BY <2>1, <2>2
  <1>3. CASE NewPostgres
    <2>1. CASE db = "up" /\ Reachable
      BY <1>1, <1>3, <2>1, SettingsStay DEF NewPostgres, Continue, StartInv, Reachable
    <2>2. CASE Exit("store")
      BY <2>2, ExitStartInv
    <2> QED
      BY <1>3, <2>1, <2>2 DEF NewPostgres, Reachable
  <1>4. CASE NewClient
    <2>1. CASE WellFormed
      <3>1. main = "client" /\ Continue("serving") /\ UNCHANGED listener
        BY <1>4, <2>1 DEF NewClient, StartInv, WellFormed
      <3> QED
        BY <2>1, <3>1, SettingsStay DEF Continue, StartInv
    <2>2. CASE ~ WellFormed
      <3>1. Exit("client")
        BY <1>4, <2>2 DEF NewClient, WellFormed
      <3> QED
        BY <1>1, <2>2, <3>1, ExitStartInv
    <2> QED
      BY <2>1, <2>2
  <1>5. CASE Notify
    BY <1>5, SettingsStay DEF Notify, Continue, StartInv, WellFormed
  <1>6. CASE ListenAndServe
    <2>1. CASE PortFree
      <3>1. listener' = "open" /\ UNCHANGED <<main, how>>
        BY <1>1, <1>6, <2>1 DEF ListenAndServe, PortFree
      <3> QED
        BY <2>1, <3>1, SettingsStay DEF StartInv
    <2>2. CASE ~ PortFree
      <3>1. Exit("listen")
        BY <1>6, <2>2 DEF ListenAndServe, PortFree
      <3> QED
        BY <1>1, <2>2, <3>1, ExitStartInv
    <2> QED
      BY <2>1, <2>2
  <1>7. CASE Drained \/ Deadline \/ Terminate \/ Kill
    BY <1>7, ExitStartInv DEF Drained, Deadline, Terminate, Kill
  <1>8. CASE Shutdown
    <2>1. CASE Exit("clean")
      BY <2>1, ExitStartInv
    <2>2. CASE main = "serving" /\ Continue("draining") /\ listener' = "closed"
      BY <2>2, SettingsStay DEF Continue, StartInv
    <2> QED
      BY <1>8, <2>1, <2>2 DEF Shutdown
  <1>9. CASE Restart
    BY <1>9, SettingsStay DEF Restart, Continue, StartInv, IInv, ListenerInv
  <1>10. CASE RequestStep \/ DatabaseStep \/ UNCHANGED vars
    <2>1. UNCHANGED <<main, how, listener>>
      BY <1>10 DEF RequestStep, DatabaseStep, vars
    <2> QED
      BY <2>1, SettingsStay DEF StartInv
  <1> QED
    BY <1>2, <1>3, <1>4, <1>5, <1>6, <1>7, <1>8, <1>9, <1>10 DEF Next, MainStep

\* Load, NewPostgres, NewClient and ListenAndServe between them: who serves is
\* configured, and nobody is refused for settings that are right.
THEOREM ServesConfigured == Spec => []RunsConfigured
  <1>1. Init => StartInv
    BY DEF Init, StartInv
  <1>2. IInv /\ StartInv => RunsConfigured
    <2> SUFFICES ASSUME IInv, StartInv PROVE RunsConfigured
      OBVIOUS
    <2>1. ASSUME Serving PROVE Complete(env)
      <3>1. LoadError(command, env) = "" /\ Reachable /\ WellFormed /\ PortFree
        BY <2>1 DEF Serving, StartInv, PortFree
      <3> QED
        BY <3>1, LoadedIsComplete, TypeParts DEF IInv, ProcessTyped
    <2> QED
      BY <2>1 DEF RunsConfigured, StartInv
  <1> QED
    BY <1>1, <1>2, Inductive, NextStartInv, PTL DEF Spec
================================================================================
