--------------------------------- MODULE Config ---------------------------------
(***************************************************************************)
(* internal/config: what each command makes of its environment.  A setting  *)
(* is given by the class of its trimmed value: "" for unset or blank, "good" *)
(* for one that works, and the ways in which it can be wrong.               *)
(***************************************************************************)
EXTENDS Naturals, Sequences, FiniteSetsExt

DatabaseURLs == {"", "unreachable", "good"}
Brokers == {"", ",", "malformed", "good"}
Texts == {"", "good"}

Environments ==
    [api |->
        [PORT : {"", "taken", "good"}, STRIPE_WEBHOOK_SECRET : Texts,
         DATABASE_URL : DatabaseURLs],
     publisher |->
        [DATABASE_URL : DatabaseURLs, KAFKA_BROKERS : Brokers, KAFKA_TOPIC : Texts,
         POLL_INTERVAL : {"", "unparsable", "nonpositive", "good"}],
     worker |->
        [KAFKA_BROKERS : Brokers, KAFKA_TOPIC : Texts, KAFKA_GROUP_ID : Texts,
         DATABASE_URL : DatabaseURLs,
         DOWNSTREAM_URL : {"", "unparsable", "otherScheme", "noHost", "good"}]]

Commands == DOMAIN Environments

--------------------------------------------------------------------------------
(* The checks of a loader: pairs of the name in the error and the condition *)

\* The name in the error of the first check that fails, "" if none does.
FirstFailing(checks) ==
    LET failing == {i \in DOMAIN checks : checks[i][2]}
    IN  IF failing = {} THEN "" ELSE checks[Min(failing)][1]

\* Mutant: separators count as a broker.
splitNothing(s) == IF s = "" THEN <<>> ELSE <<s>>

splitCSV(s) == IF s \in {"", ","} THEN <<>> ELSE <<s>>

validateDownstreamURL(url) == url \notin {"unparsable", "otherScheme", "noHost"}

Load(env) ==
    FirstFailing(<<
        <<"STRIPE_WEBHOOK_SECRET", env.STRIPE_WEBHOOK_SECRET = "">>,
        <<"DATABASE_URL", env.DATABASE_URL = "">> >>)

\* The errors of POLL_INTERVAL call it PUBLISHER_POLL_INTERVAL.
LoadPublisher(env) ==
    FirstFailing(<<
        <<"DATABASE_URL", env.DATABASE_URL = "">>,
        <<"KAFKA_BROKERS", env.KAFKA_BROKERS = "">>,
        <<"KAFKA_BROKERS", splitCSV(env.KAFKA_BROKERS) = <<>> >>,
        <<"KAFKA_TOPIC", env.KAFKA_TOPIC = "">>,
        <<"PUBLISHER_POLL_INTERVAL", env.POLL_INTERVAL = "unparsable">>,
        <<"PUBLISHER_POLL_INTERVAL", env.POLL_INTERVAL = "nonpositive">> >>)

LoadWorker(env) ==
    FirstFailing(<<
        <<"KAFKA_BROKERS", env.KAFKA_BROKERS = "">>,
        <<"KAFKA_BROKERS", splitCSV(env.KAFKA_BROKERS) = <<>> >>,
        <<"KAFKA_TOPIC", env.KAFKA_TOPIC = "">>,
        <<"KAFKA_GROUP_ID", env.KAFKA_GROUP_ID = "">>,
        <<"DATABASE_URL", env.DATABASE_URL = "">>,
        <<"DOWNSTREAM_URL", env.DOWNSTREAM_URL = "">>,
        <<"DOWNSTREAM_URL", ~validateDownstreamURL(env.DOWNSTREAM_URL)>> >>)

LoadError(command, env) ==
    CASE command = "api"       -> Load(env)
      [] command = "publisher" -> LoadPublisher(env)
      [] command = "worker"    -> LoadWorker(env)

--------------------------------------------------------------------------------
(* What a command needs, for comparison: everything but two settings that have *)
(* a default                                                                *)

Optional == {"PORT", "POLL_INTERVAL"}

Complete(env) ==
    \A s \in DOMAIN env : env[s] = "good" \/ (s \in Optional /\ env[s] = "")
================================================================================
