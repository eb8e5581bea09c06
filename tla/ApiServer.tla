------------------------------- MODULE ApiServer -------------------------------
(***************************************************************************)
(* The life of a process: main of cmd/api, with its HTTP server, middleware *)
(* and probes, and the start of cmd/publisher and cmd/worker, whose loops   *)
(* are in OutboxPublisher and Worker.  Recover wraps RequestLog, which wraps *)
(* the mux; what the webhook handler does is in WebhookIngest.  A new       *)
(* process starts when one has ended: that is the API's Deployment in k8s/, *)
(* and for the other two commands an assumption about their operation.      *)
(***************************************************************************)
EXTENDS Config, Sequences

CONSTANTS
    Requests,    \* requests to one process
    MaxFaults    \* bound on outages, signals and kills

ASSUME ServerAssumption == MaxFaults \in Nat

VARIABLES
    command,     \* which of the three commands the process runs
    env,         \* its environment
    db,          \* whether Postgres can be reached
    main,        \* where main is
    how,         \* how the last process ended
    listener,    \* the goroutine that runs ListenAndServe
    at,          \* where a request is in the middleware
    route,       \* what it asks for
    recorded,    \* responseRecorder.status
    written,     \* the status codes that net/http was given for its response
    logged,      \* the access log's messages about it, with the status logged
    lost,        \* history: requests without an answer when a process ended
    faults       \* faults so far (bounded by MaxFaults)

process == <<command, env>>
request == <<at, route, recorded, written, logged>>
vars == <<process, db, main, how, listener, request, lost, faults>>

\* Mutant: the webhook answers 201.
CodesCreated ==
    [livez |-> {200}, readyz |-> {200, 503}, webhook |-> {201, 400, 413, 500},
     other |-> {200, 404, 405, 503}]

\* other: HEAD of a probe, which its pattern matches too, or no route at all.
Codes == [livez |-> {200}, readyz |-> {200, 503}, webhook |-> {204, 400, 413, 500},
          other |-> {200, 404, 405, 503}]
Routes == DOMAIN Codes
Statuses == {200, 204, 400, 404, 405, 413, 500, 503}

isProbeRequest(r) == route[r] \in {"livez", "readyz"}

Messages == {"request_started", "request_completed", "panic"}

\* The status line the client gets: net/http sends the first one and ignores the
\* rest.  0 before.
wire(r) == IF written[r] = <<>> THEN 0 ELSE Head(written[r])

\* What a process has that runs no request.
NoRequests ==
    /\ at' = [r \in Requests |-> "none"]
    /\ route' = [r \in Requests |-> "livez"]
    /\ recorded' = [r \in Requests |-> 200]
    /\ written' = [r \in Requests |-> <<>>]
    /\ logged' = [r \in Requests |-> {}]

TypeOK ==
    /\ command \in Commands
    /\ env \in Environments[command]
    /\ db \in {"up", "down"}
    /\ main \in {"load", "open", "client", "notify", "serving", "draining", "exited"}
    /\ how \in {"", "config", "store", "client", "listen", "clean", "deadline",
                "terminated", "killed"}
    /\ listener \in {"off", "starting", "open", "closed"}
    /\ at \in [Requests -> {"none", "handling", "responded", "done"}]
    /\ route \in [Requests -> Routes]
    /\ recorded \in [Requests -> Statuses]
    /\ written \in [Requests -> Seq(Statuses)]
    /\ logged \in [Requests -> SUBSET (Messages \X (Statuses \cup {0}))]
    /\ lost \subseteq Requests
    /\ faults \in Nat

Init ==
    /\ command \in Commands
    /\ env \in Environments[command]
    /\ db \in {"up", "down"}
    /\ main = "load"
    /\ how = ""
    /\ listener = "off"
    /\ at = [r \in Requests |-> "none"]
    /\ route = [r \in Requests |-> "livez"]
    /\ recorded = [r \in Requests |-> 200]
    /\ written = [r \in Requests |-> <<>>]
    /\ logged = [r \in Requests |-> {}]
    /\ lost = {}
    /\ faults = 0

Fault == faults < MaxFaults /\ faults' = faults + 1

--------------------------------------------------------------------------------
(* main *)

InFlight == {r \in Requests : at[r] \in {"handling", "responded"}}

\* The process ends, and with it the requests that are still in flight, also
\* those whose response waits in a buffer for the handler's return.
Exit(reason) ==
    /\ main' = "exited"
    /\ how' = reason
    /\ listener' = "off"
    /\ lost' = InFlight
    /\ NoRequests

Continue(step) == main' = step /\ UNCHANGED <<how, lost, request>>

LoadConfig ==
    /\ main = "load"
    /\ IF LoadError(command, env) = ""
       THEN Continue("open") /\ UNCHANGED listener
       ELSE Exit("config")
    /\ UNCHANGED <<process, db, faults>>

\* NewPostgres opens and pings; the API then starts its listener's goroutine.
NewPostgres ==
    /\ main = "open"
    /\ IF db = "up" /\ env.DATABASE_URL = "good"
       THEN /\ Continue(IF command = "api" THEN "notify" ELSE "client")
            /\ listener' = IF command = "api" THEN "starting" ELSE "off"
       ELSE Exit("store")
    /\ UNCHANGED <<process, db, faults>>

\* kgo.NewClient looks at its options and connects to nobody yet.
NewClient ==
    /\ main = "client"
    /\ IF env.KAFKA_BROKERS = "malformed"
       THEN Exit("client")
       ELSE Continue("serving") /\ UNCHANGED listener
    /\ UNCHANGED <<process, db, faults>>

\* From here on SIGTERM is main's to handle.
Notify ==
    /\ main = "notify"
    /\ Continue("serving")
    /\ UNCHANGED <<process, db, listener, faults>>

\* In its goroutine, at any time after its start.
ListenAndServe ==
    /\ listener = "starting"
    /\ IF env.PORT = "taken"
       THEN Exit("listen")
       ELSE /\ listener' = "open"
            /\ UNCHANGED <<main, how, lost, request>>
    /\ UNCHANGED <<process, db, faults>>

\* Shutdown closes the listener, or keeps it from opening.
Shutdown ==
    /\ main = "serving"
    /\ Fault
    /\ IF command = "api"
       THEN Continue("draining") /\ listener' = "closed"
       ELSE Exit("clean")
    /\ UNCHANGED <<process, db>>

\* Mutant: main returns without waiting for Shutdown.
DrainNothing ==
    /\ main = "draining"
    /\ Exit("clean")
    /\ UNCHANGED <<process, db, faults>>

Drained ==
    /\ main = "draining"
    /\ InFlight = {}
    /\ Exit("clean")
    /\ UNCHANGED <<process, db, faults>>

\* Mutant: the context of Shutdown has no deadline.
DeadlineNever ==
    /\ main = "draining"
    /\ InFlight = {}
    /\ Exit("deadline")
    /\ UNCHANGED <<process, db, faults>>

\* The ten seconds are over; main returns all the same.
Deadline ==
    /\ main = "draining"
    /\ InFlight # {}
    /\ Exit("deadline")
    /\ UNCHANGED <<process, db, faults>>

\* SIGTERM before main has asked for it: the default action ends the process.  The
\* publisher and the worker ask for it before NewClient.
Terminate ==
    /\ main \in {"load", "open", "notify"}
    /\ Fault
    /\ Exit("terminated")
    /\ UNCHANGED <<process, db>>

\* SIGKILL.
Kill ==
    /\ main # "exited"
    /\ Fault
    /\ Exit("killed")
    /\ UNCHANGED <<process, db>>

Restart ==
    /\ main = "exited"
    /\ Continue("load")
    /\ UNCHANGED <<process, db, listener, faults>>

Outage == db = "up" /\ db' = "down" /\ Fault

Recovery == db = "down" /\ db' = "up" /\ UNCHANGED faults

--------------------------------------------------------------------------------
(* Requests: Recover(RequestLog(mux)), each in a goroutine of its own *)

Log(r, m, status) == logged' = [logged EXCEPT ![r] = @ \cup {<<m, status>>}]

Arrive(r, to) ==
    /\ listener = "open"
    /\ at[r] = "none"
    /\ at' = [at EXCEPT ![r] = "handling"]
    /\ route' = [route EXCEPT ![r] = to]
    /\ IF to \in {"livez", "readyz"} THEN UNCHANGED logged
       ELSE Log(r, "request_started", 0)
    /\ UNCHANGED <<recorded, written>>

Write(r, code) == written' = [written EXCEPT ![r] = Append(@, code)]

\* Mutant: the recorder does not keep the code.
WriteHeaderUnrecorded(r, code) == Write(r, code) /\ UNCHANGED recorded

\* responseRecorder.WriteHeader.
WriteHeader(r, code) ==
    /\ recorded' = [recorded EXCEPT ![r] = code]
    /\ Write(r, code)

\* handleReadyz pings; the other codes are the handlers' own.
Respond(r, code) ==
    /\ at[r] = "handling"
    /\ route[r] = "readyz" => code = IF db = "up" THEN 200 ELSE 503
    /\ WriteHeader(r, code)
    /\ at' = [at EXCEPT ![r] = "responded"]
    /\ UNCHANGED <<route, logged>>

Finish(r) ==
    /\ at[r] = "responded"
    /\ at' = [at EXCEPT ![r] = "done"]
    /\ IF isProbeRequest(r) THEN UNCHANGED logged
       ELSE Log(r, "request_completed", recorded[r])
    /\ UNCHANGED <<route, recorded, written>>

\* A panic unwinds RequestLog, which logs nothing more, up to Recover.  Its
\* http.Error goes to the writer below the recorder, started or not.
Recover(r) ==
    /\ at[r] \in {"handling", "responded"}
    /\ at' = [at EXCEPT ![r] = "done"]
    /\ Log(r, "panic", 0)
    /\ Write(r, 500)
    /\ UNCHANGED <<route, recorded>>

--------------------------------------------------------------------------------
MainStep ==
    \/ LoadConfig \/ NewPostgres \/ NewClient \/ Notify \/ ListenAndServe
    \/ Drained \/ Deadline

RequestStep ==
    /\ \E r \in Requests :
        \/ \E to \in Routes : Arrive(r, to)
        \/ \E code \in Codes[route[r]] : Respond(r, code)
        \/ Finish(r) \/ Recover(r)
    /\ UNCHANGED <<process, db, main, how, listener, lost, faults>>

DatabaseStep ==
    /\ Outage \/ Recovery
    /\ UNCHANGED <<process, main, how, listener, request, lost>>

Next ==
    MainStep \/ RequestStep \/ DatabaseStep \/ Shutdown \/ Terminate \/ Kill \/ Restart

\* main goes on, Postgres comes back, and the process is started again: the API by
\* its Deployment, the other two by whoever runs them.  No request is bound to end:
\* the server has no timeouts.
Fairness ==
    /\ WF_vars(MainStep) /\ WF_vars(Restart)
    /\ WF_vars(db = "down" /\ DatabaseStep)

Spec == Init /\ [][Next]_vars
FairSpec == Spec /\ Fairness

--------------------------------------------------------------------------------
(* Properties *)

Serving == main = "serving" /\ (command = "api" => listener = "open")

\* A process that serves has what it needs, checked before its first request or
\* record: nothing that Load, NewPostgres or NewClient should refuse gets past
\* the start, and nothing is refused for a setting that is right.
RunsConfigured ==
    /\ Serving => Complete(env)
    /\ how \in {"config", "client", "listen"} => ~Complete(env)

\* The access log pairs every request that is not a probe with one ending: a panic,
\* or the status that the client has got.
AccessLogMatchesWire ==
    \A r \in Requests : at[r] = "done" =>
        LET panic  == <<"panic", 0>>
            ending == IF panic \in logged[r] THEN panic
                      ELSE <<"request_completed", wire(r)>>
        IN  IF isProbeRequest(r) THEN logged[r] \subseteq {panic}
            ELSE logged[r] = {<<"request_started", 0>>, ending}

\* Requests in flight at the end of a process are cut off only when its drain ran
\* into the deadline or a signal ended it at once, never by an early exit of main.
LostOnlyByForce == lost # {} => how \in {"deadline", "terminated", "killed"}

\* A process that can run does so again and again: an outage at its start, a
\* signal with a request that never ends, or a kill does not keep it from it.
ServesInTheEnd == Complete(env) => []<>Serving
================================================================================
