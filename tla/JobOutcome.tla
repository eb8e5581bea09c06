------------------------------- MODULE JobOutcome -------------------------------
(***************************************************************************)
(* What the worker makes of one POST to the downstream service: DeliverJob  *)
(* (cmd/worker/downstream.go) and the JobError behind it (job_error.go).    *)
(* A response is the status code that the HTTP client returns in the end,   *)
(* redirects followed, or NoResponse: a timeout, a refused or broken         *)
(* connection, a cancelled context.  The client reads any three digits.      *)
(***************************************************************************)
EXTENDS Naturals

NoResponse == 0
StatusCodes == 1 .. 999
AnyResponse == {NoResponse} \cup StatusCodes

Classes == {"ok", "retryable", "permanent"}

\* Mutant: the edge of the server errors is off by one.
classifyAbove500(status) ==
    IF status > 500 \/ status = 429 THEN "retryable" ELSE "permanent"

classifyHTTPStatus(status) ==
    IF status >= 500 \/ status = 429 THEN "retryable" ELSE "permanent"

DeliverJob(r) ==
    IF r = NoResponse THEN "retryable"
    ELSE IF r >= 200 /\ r < 300 THEN "ok"
    ELSE classifyHTTPStatus(r)

--------------------------------------------------------------------------------
(* What the service has said with it                                          *)

\* The table of docs/branches/19-downstream-http.md:81-87, and no more than that.
Delivered == 200 .. 299
Refused == {400, 404, 422}
Unavailable == {NoResponse, 429} \cup (500 .. 599)

\* It says nothing of the other codes (1xx, 3xx, the rest of 4xx, 600 and above); the
\* default branch of classifyHTTPStatus is the code's own choice for them.
Meanings == {"delivered", "refused", "unavailable", "unclassified"}

Meaning(r) ==
    IF r \in Delivered THEN "delivered"
    ELSE IF r \in Refused THEN "refused"
    ELSE IF r \in Unavailable THEN "unavailable"
    ELSE "unclassified"

\* Answers after which nothing documented asks for another attempt.
FinalMeanings == Meanings \ {"unavailable"}
================================================================================
