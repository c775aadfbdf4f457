------------------------------ MODULE HttpClient ------------------------------
(***************************************************************************)
(* One upstream behind src/src/lib/http-client.ts: requests with attempts, *)
(* backoff and a timeout on each attempt, over a network that loses        *)
(* requests and answers and delays both, to a server that may carry out a  *)
(* request nobody waits for any more.                                      *)
(*                                                                         *)
(* Requests are made one after the other, 1, 2, ...  An attempt is         *)
(* <<request, number>>.  PUT replaces the server's value, POST adds to it. *)
(* Statuses stand for what the client tells apart.                         *)
(***************************************************************************)
EXTENDS Integers, FiniteSets

CONSTANTS
    MaxRequests,         \* bound: requests that are made
    MAX_HTTP_ATTEMPTS

ASSUME HttpAssumption ==
    MaxRequests \in Nat /\ MAX_HTTP_ATTEMPTS \in Nat \ {0}

Request == 1..MaxRequests
HttpMethod == {"GET", "POST", "PUT", "PATCH", "DELETE"}

\* An answer: statuses that are retried (408 and 429; 5xx), any other error, and success
\* with and without a body (204).
Transient == {"s429", "s500"}
Refusal == {"s403"}
Success == {"s200", "s204"}
Status == Transient \cup Refusal \cup Success

VARIABLES
    method,      \* of each request
    attempt,     \* attempts sent so far
    phase,       \* where each request is
    reply,       \* the answer to its current attempt, if one has come
    outcome,     \* how it ended
    wire,        \* attempts the server has not dealt with
    done,        \* history: attempts the server has carried out
    value,       \* the request whose PUT or POST the server carried out last
    confirmed,   \* the last PUT or POST that ended well
    givenUp,     \* history: attempts that ended in a timeout or a network error
    refused      \* history: attempts answered with an error that is not retried

httpVars == <<method, attempt, phase, reply, outcome, wire, done, value, confirmed,
              givenUp, refused>>

NoReply == "none"

HttpInit ==
    /\ method \in [Request -> {"GET", "POST", "PUT"}]
    /\ attempt = [r \in Request |-> 0]
    /\ phase = [r \in Request |-> "idle"]
    /\ reply = [r \in Request |-> NoReply]
    /\ outcome = [r \in Request |-> "none"]
    /\ wire = {} /\ done = {} /\ givenUp = {} /\ refused = {}
    /\ value = 0 /\ confirmed = 0

-----------------------------------------------------------------------------
(* Policy *)

RETRYABLE_METHODS == {"GET", "PUT", "DELETE"}

\* Mutant: every method is retried.
isAnyMethod(m) == m \in HttpMethod

isRetryableMethod(m) == m \in RETRYABLE_METHODS

\* Errors of an attempt: network, timeout, payload, or an HTTP status.
isRetryableError(error) == error \in {"network", "timeout"} \cup Transient

-----------------------------------------------------------------------------
(* The client *)

Current(r) == <<r, attempt[r]>>

\* The attempt is sent and its timer started.
Sends(r) ==
    /\ attempt' = [attempt EXCEPT ![r] = @ + 1]
    /\ phase' = [phase EXCEPT ![r] = "waiting"]
    /\ reply' = [reply EXCEPT ![r] = NoReply]
    /\ wire' = wire \cup {<<r, attempt[r] + 1>>}

request(r) ==
    /\ phase[r] = "idle"
    /\ \A q \in Request : q < r => phase[q] = "done"
    /\ Sends(r)
    /\ UNCHANGED <<method, outcome, done, value, confirmed, givenUp, refused>>

\* The sleep between two attempts is over.
Retry(r) ==
    /\ phase[r] = "backoff"
    /\ Sends(r)
    /\ UNCHANGED <<method, outcome, done, value, confirmed, givenUp, refused>>

LastAttempt(r) == attempt[r] = MAX_HTTP_ATTEMPTS

Ends(r, how) == /\ phase' = [phase EXCEPT ![r] = "done"]
                /\ outcome' = [outcome EXCEPT ![r] = how]

\* What the loop does with the error of an attempt.
Catch(r, error) ==
    IF ~isRetryableError(error) \/ ~isRetryableMethod(method[r])
    THEN Ends(r, error)
    ELSE IF LastAttempt(r)
    THEN Ends(r, "exhausted")
    ELSE phase' = [phase EXCEPT ![r] = "backoff"] /\ UNCHANGED outcome

\* Mutant: a failed fetch counts as an empty answer.
GivesUpSilently(r, error) == /\ Ends(r, "ok")
                             /\ UNCHANGED givenUp

GivesUp(r, error) == Catch(r, error) /\ givenUp' = givenUp \cup {Current(r)}

\* Mutant: no timer runs.
AttemptHangs(r) ==
    /\ phase[r] = "waiting"
    /\ wire = {} /\ reply[r] # NoReply
    /\ GivesUp(r, "network")
    /\ UNCHANGED <<method, attempt, reply, wire, done, value, confirmed, refused>>

\* The timer aborts the attempt, or fetch fails by itself, whatever the server does.
AttemptFails(r) ==
    /\ phase[r] = "waiting"
    /\ \E error \in {"timeout", "network"} : GivesUp(r, error)
    /\ UNCHANGED <<method, attempt, reply, wire, done, value, confirmed, refused>>

Ok(status) == status \in Success

Returns(r) == /\ Ends(r, "ok")
              /\ confirmed' = IF method[r] = "GET" THEN confirmed ELSE r

\* The head of the answer is here: the timer is cleared.
Receive(r) ==
    /\ phase[r] = "waiting"
    /\ reply[r] # NoReply
    /\ \/ /\ ~Ok(reply[r])
          /\ Catch(r, reply[r])
          /\ refused' = IF reply[r] \in Refusal THEN refused \cup {Current(r)} ELSE refused
          /\ UNCHANGED confirmed
       \/ /\ Ok(reply[r]) /\ reply[r] = "s204"
          /\ Returns(r)
          /\ UNCHANGED refused
       \/ /\ Ok(reply[r]) /\ reply[r] # "s204"
          /\ phase' = [phase EXCEPT ![r] = "body"]
          /\ UNCHANGED <<outcome, confirmed, refused>>
    /\ UNCHANGED <<method, attempt, reply, wire, done, value, givenUp>>

\* The body, which no timer covers, is read; or cannot be read or parsed.
ReadBody(r) ==
    /\ phase[r] = "body"
    /\ \/ Returns(r)
       \/ Catch(r, "payload") /\ UNCHANGED confirmed
    /\ UNCHANGED <<method, attempt, reply, wire, done, value, givenUp, refused>>

-----------------------------------------------------------------------------
(* The server and the network *)

\* The server deals with an attempt.  It answers 5xx before or after it carried the
\* request out.  The answer is lost if nobody waits for it.
Serve(a, status) ==
    LET r == a[1]
        acts == method[r] # "GET" /\ (status \in Success \/ status = "s500")
    IN  /\ a \in wire
        /\ wire' = wire \ {a}
        /\ \/ /\ acts
              /\ done' = done \cup {a} /\ value' = r
           \/ /\ ~(acts /\ status \in Success)
              /\ UNCHANGED <<done, value>>
        /\ reply' = IF phase[r] = "waiting" /\ a = Current(r)
                    THEN [reply EXCEPT ![r] = status] ELSE reply
        /\ UNCHANGED <<method, attempt, phase, outcome, confirmed, givenUp, refused>>

Lose(a) ==
    /\ a \in wire
    /\ wire' = wire \ {a}
    /\ UNCHANGED <<method, attempt, phase, reply, outcome, done, value, confirmed,
                   givenUp, refused>>

HttpNext ==
    \/ \E r \in Request :
         request(r) \/ Retry(r) \/ AttemptFails(r) \/ Receive(r) \/ ReadBody(r)
    \/ \E a \in wire : Lose(a) \/ \E status \in Status : Serve(a, status)

HttpSpec == HttpInit /\ [][HttpNext]_httpVars

\* Timers fire and bodies end: the runtime's own timeout covers those.
HttpFairness ==
    \A r \in Request : /\ WF_httpVars(Retry(r)) /\ WF_httpVars(AttemptFails(r))
                       /\ WF_httpVars(ReadBody(r))

-----------------------------------------------------------------------------
(* What it guarantees *)

\* The one type invariant.
HttpTypeOK ==
    /\ method \in [Request -> HttpMethod]
    /\ attempt \in [Request -> 0..MAX_HTTP_ATTEMPTS]
    /\ phase \in [Request -> {"idle", "waiting", "body", "backoff", "done"}]
    /\ reply \in [Request -> Status \cup {NoReply}]
    /\ outcome \in [Request -> {"none", "ok", "network", "timeout", "payload", "exhausted"}
                                 \cup Transient \cup Refusal]
    /\ wire \subseteq Request \X (1..MAX_HTTP_ATTEMPTS)
    /\ done \subseteq Request \X (1..MAX_HTTP_ATTEMPTS)
    /\ givenUp \subseteq Request \X (1..MAX_HTTP_ATTEMPTS)
    /\ refused \subseteq Request \X (1..MAX_HTTP_ATTEMPTS)
    /\ value \in 0..MaxRequests /\ confirmed \in 0..MaxRequests

\* A POST is carried out at most once whatever is lost or late, so a timeout on
\* createArticleDraft makes no second article (retry.ts:13, http-client.ts:98).
PostCarriedOutOnce ==
    \A r \in Request : method[r] = "POST" => Cardinality({a \in done : a[1] = r}) <= 1

\* A request that returned has been carried out; an error says nothing about that
\* (http-client.ts:165-186).
ReturnedWasCarriedOut ==
    \A r \in Request : (outcome[r] = "ok" /\ method[r] # "GET") => \E a \in done : a[1] = r

\* An answer that is no transient failure ends the request: it is the last attempt that
\* is made, and its error is what the caller sees, as search and the tools rely on
\* (http-client.ts:98-100, devto-algolia-search.ts:68).
RefusalIsFinal ==
    \A a \in refused : attempt[a[1]] = a[2] /\ outcome[a[1]] \in Refusal

\* The client gives up on transient failures only after the last attempt, and only of
\* requests it may repeat (http-client.ts:91-125).
ExhaustedAfterLast ==
    \A r \in Request :
        /\ outcome[r] = "exhausted" => attempt[r] = MAX_HTTP_ATTEMPTS /\ method[r] # "POST"
        /\ outcome[r] \in Transient \cup {"network", "timeout"} => ~isRetryableMethod(method[r])

\* What a request returned stands until a later one replaces it, with one exception: an
\* attempt the client gave up on is carried out late and brings an older value back
\* (http-client.ts:136-163; a PUT that unpublishes after the PUT that published).
ConfirmedStands ==
    value < confirmed => \E a \in givenUp : a[1] = value /\ a \in done

\* Every request ends, however often and whatever is lost (http-client.ts:136-139).
RequestEnds == \A r \in Request : phase[r] = "waiting" ~> phase[r] = "done"

=============================================================================
