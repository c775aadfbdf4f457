------------------------------ MODULE ApiRequests ------------------------------
(***************************************************************************)
(* A request to the server on its way from the socket to its answer: a     *)
(* REST call under /v1 (src/src/rest/routes.ts, auth.ts, errors.ts) or a   *)
(* call of an MCP tool (src/src/mcp/tool-handlers.ts), into the discovery  *)
(* use cases and out to Forem, or into the use cases of an author.         *)
(*                                                                         *)
(* Operations are named after the method the handler calls.  Numbers in a  *)
(* request are counted in halves, so that 3 is the value 1.5.  A path is   *)
(* the sequence of its segments.                                           *)
(***************************************************************************)
EXTENDS Integers, Sequences, FiniteSets

CONSTANTS
    Account,       \* authors, each with one session token, which has the author's name
    NumberGiven,   \* what a numeric parameter of a request can be
    TopGiven,      \* what the parameter top can be
    PathGiven,     \* article paths of requests
    Absent, Junk   \* no parameter; one that is no number

ASSUME ApiAssumption ==
    /\ Absent # Junk
    /\ (NumberGiven \cup TopGiven) \ {Absent, Junk} \subseteq Int
    /\ Absent \notin Account

VARIABLES
    signedIn,   \* accounts whose session is live
    call,       \* the request
    handling,      \* where it is
    stamp,      \* the correlation ids it was given on the way
    author,     \* res.locals.authorId
    ran,        \* the operations that were started
    touched,    \* the drafts and runs that were read or changed: what was done, and whose they are
    sent,       \* what the Forem client was asked
    answers     \* the answers that were sent

apiVars == <<signedIn, call, handling, stamp, author, ran, touched, sent, answers>>

Nothing == "nothing"

-----------------------------------------------------------------------------
(* Routes *)

PublicRoutes ==
    {"listArticles", "getArticle", "searchArticles", "listTags", "listComments", "getUser"}
InventoryRoutes == {"getCapabilities", "listMyArticles", "listDrafts"}
IdeationRoutes == {"generateIdeas", "hybridSearch", "detectDuplication", "analyzeContentGap"}
DraftingRoutes == {"generateDraft", "lintDraft", "persistDraft", "editDraft", "submitForReview"}
PublishingRoutes == {"recordApproval", "publishArticle"}
HistoryRoutes == {"auditHistory", "transitionHistory"}
SchedulingRoutes == {"triggerRun", "schedulingStatus", "getTopics", "setTopics", "recordNoTopic"}

Route == UNION {PublicRoutes, InventoryRoutes, IdeationRoutes, DraftingRoutes,
                PublishingRoutes, HistoryRoutes, SchedulingRoutes}

\* Handlers that look into req.body, which is undefined if the request has none.
ReadsBody ==
    {"generateIdeas", "detectDuplication", "analyzeContentGap", "generateDraft", "lintDraft",
     "persistDraft", "editDraft", "recordApproval", "publishArticle", "triggerRun",
     "setTopics", "recordNoTopic"}

\* Handlers that return nothing.
ReturnsNothing == {"setTopics", "recordNoTopic"}

Protected == Route \ PublicRoutes

\* Handlers that hand the author of the session to the use case.  The others know only
\* that somebody is signed in.
PassesAuthor ==
    Protected \ ({"generateIdeas", "hybridSearch", "analyzeContentGap", "generateDraft",
                  "lintDraft", "submitForReview"} \cup HistoryRoutes)

\* Operations on a draft or run that the request names by its id.
NamesRecord ==
    {"editDraft", "submitForReview", "recordApproval", "publishArticle", "recordNoTopic"}
      \cup HistoryRoutes

\* Mutant: an edit does not ask whose draft it is.
ChecksDecisions == {"recordApproval", "publishArticle", "recordNoTopic"}

\* Those whose use case refuses the record of another author.
ChecksOwner == {"editDraft", "recordApproval", "publishArticle", "recordNoTopic"}

-----------------------------------------------------------------------------
(* Arguments *)

IsNumber(n) == n \notin {Absent, Junk}

\* Number(value), or the fallback if that is not finite.  The fallback is in halves too.
int(value, fallback) == IF IsNumber(value) THEN value ELSE fallback

IsInteger(n) == n % 2 = 0

\* Mutant: the page size may be anything.
ParsesPageOnly(page, per_page) == IsInteger(page) /\ page \in 2..200

\* Pages 1 to 100 of 1 to 1000 entries, both integers.
parsePagination(page, per_page) ==
    /\ IsInteger(page) /\ page \in 2..200
    /\ IsInteger(per_page) /\ per_page \in 2..2000

requirePositiveInteger(n) == IsInteger(n) /\ n > 0

\* One leading slash is dropped.
Segments(path) == IF Len(path) > 1 /\ path[1] = "" THEN Tail(path) ELSE path

requireArticlePath(path) ==
    /\ Len(Segments(path)) = 2
    /\ \A i \in 1..2 : Segments(path)[i] \notin {"", ".", ".."}

\* The arguments a handler passes on.  REST fills in defaults where a number is missing or
\* none; the schemas of the tools fill in what is missing and refuse what is no number.
Arguments(c) ==
    IF c.door = "mcp"
    THEN [page |-> IF c.n = Absent THEN 2 ELSE c.n,
          per_page |-> IF c.m = Absent THEN (IF c.op = "listTags" THEN 20 ELSE 60) ELSE c.m,
          id |-> c.n, path |-> c.path, top |-> c.top]
    ELSE [page |-> int(c.n, 2), per_page |-> int(c.m, 60), id |-> int(c.n, 0), path |-> Absent,
          top |-> IF c.top = Absent THEN Absent ELSE int(c.top, 2)]

\* The checks of the discovery use cases.  A user is looked up by name through REST, and
\* by id or by name, which then is the path, through MCP.
ArgumentsAccepted(c) ==
    LET a == Arguments(c)
    IN  CASE c.op \in {"listArticles", "searchArticles", "listTags"} ->
               parsePagination(a.page, a.per_page)
          [] c.op = "getArticle" ->
               IF IsNumber(a.id) THEN requirePositiveInteger(a.id)
               ELSE a.path # Absent /\ requireArticlePath(a.path)
          [] c.op = "listComments" -> requirePositiveInteger(a.id)
          [] c.op = "getUser" ->
               \/ c.door = "rest"
               \/ IF IsNumber(a.id) THEN requirePositiveInteger(a.id) ELSE a.path # Absent
          [] OTHER -> TRUE

\* The request to Forem or Algolia that follows.  Nobody looks at top on its way.
ForemCall(c) ==
    LET a == Arguments(c)
    IN  CASE c.op = "listArticles" /\ a.top # Absent ->
               [op |-> c.op, page |-> a.page, per_page |-> a.per_page, top |-> a.top]
          [] c.op \in {"listArticles", "searchArticles", "listTags"} ->
               [op |-> c.op, page |-> a.page, per_page |-> a.per_page]
          [] c.op = "getArticle" ->
               IF IsNumber(a.id) THEN [op |-> c.op, id |-> a.id]
               ELSE [op |-> c.op, path |-> Segments(a.path)]
          [] c.op = "getUser" ->
               IF c.door = "mcp" /\ IsNumber(a.id) THEN [op |-> c.op, id |-> a.id]
               ELSE [op |-> c.op]
          [] OTHER -> [op |-> c.op, id |-> a.id]

-----------------------------------------------------------------------------
(* Answers *)

STATUS_BY_CODE ==
    [INVALID_INPUT |-> 400, UNAUTHORIZED |-> 401, FORBIDDEN |-> 403, APPROVAL_INVALID |-> 409,
     DRAFT_QUALITY |-> 422, RETRY_EXHAUSTED |-> 503, UPSTREAM_HTTP_ERROR |-> 502,
     UPSTREAM_PAYLOAD_ERROR |-> 502, UPSTREAM_NETWORK_ERROR |-> 502, UPSTREAM_TIMEOUT |-> 504,
     INTERNAL_ERROR |-> 500]

ApiErrorCode == DOMAIN STATUS_BY_CODE

\* What discovery can end in once the Forem client is asked, which checks the fields that a
\* tool wants searched; an author's use case can end in anything.
OutcomeOf(c) ==
    IF c.op \in PublicRoutes
    THEN {"RETRY_EXHAUSTED", "UPSTREAM_HTTP_ERROR", "UPSTREAM_PAYLOAD_ERROR", "INTERNAL_ERROR"}
           \cup IF c.op = "searchArticles" /\ c.door = "mcp" THEN {"INVALID_INPUT"} ELSE {}
    ELSE ApiErrorCode

NoCode == "none"
Answer(status, code, id) == [status |-> status, code |-> code, id |-> id]

\* An error goes out as its status with a body that repeats the correlation id; of a tool
\* call it is the text of a result marked as an error.
sendError(code, id) ==
    answers' = answers \cup {Answer(IF call.door = "mcp" THEN 200 ELSE STATUS_BY_CODE[code],
                                    code, id)}

\* A fresh UUID at each place that asks for one, unless the client sent a valid id.
normalizeCorrelationId(place) == IF call.id = "client" THEN "client" ELSE place

-----------------------------------------------------------------------------
(* The steps *)

\* An owner is the author of the record whose id the request names, if there is one.
Requests ==
    [door : {"rest"}, op : Route, token : Account \cup {Absent}, id : {"client", Absent},
     body : {"json", "malformed", Absent}, n : NumberGiven, m : NumberGiven, path : {Absent},
     top : TopGiven, owner : Account \cup {Absent}]
    \cup
    [door : {"mcp"}, op : PublicRoutes, token : {Absent}, id : {"client", Absent},
     body : {"json"}, n : NumberGiven \ {Junk}, m : NumberGiven \ {Junk},
     path : PathGiven \cup {Absent}, top : TopGiven \ {Junk}, owner : {Absent}]

\* Of what a request could carry, what its handler looks at.  What an author's handler
\* reads of the body is checked by the use case.
Relevant(c) ==
    /\ c.op \notin PublicRoutes => c.n = Absent
    /\ c.op \notin {"listArticles", "searchArticles", "listTags"} => c.m = Absent
    /\ c.op # "listArticles" => c.top = Absent
    /\ c.op \notin NamesRecord => c.owner = Absent
    /\ c.op \notin {"getArticle", "getUser"} => c.path = Absent
    /\ c.op = "listComments" /\ c.door = "mcp" => c.n # Absent
    /\ c.op = "getUser" /\ c.door = "rest" => c.n = Absent
    /\ c.op \in PublicRoutes => c.token = Absent
    /\ c.door = "rest" /\ c.op \notin ReadsBody => c.body = Absent

ApiInit ==
    /\ signedIn \in SUBSET Account
    /\ call \in {c \in Requests : Relevant(c)}
    /\ handling = "socket"
    /\ stamp = [metrics |-> NoCode, header |-> NoCode, handler |-> NoCode]
    /\ author = Nothing /\ ran = {} /\ touched = {} /\ sent = {}
    /\ answers = {}

\* A body that does not parse is answered by the error handler of the application; all
\* other requests are counted under a correlation id and routed.
Arrive ==
    /\ handling = "socket"
    /\ IF call.body = "malformed"
       THEN /\ handling' = "done"
            /\ answers' = answers \cup {Answer(500, NoCode, NoCode)}
            /\ UNCHANGED stamp
       ELSE /\ handling' = IF call.door = "rest" /\ call.op \in Protected THEN "auth" ELSE "handler"
            /\ stamp' = [stamp EXCEPT !.metrics = normalizeCorrelationId("metrics")]
            /\ UNCHANGED answers
    /\ UNCHANGED <<signedIn, call, author, ran, touched, sent>>

\* Without a live session the answer is 401.  If the session store fails, the promise of
\* the middleware rejects and Express answers by itself.
requireAuthor ==
    /\ handling = "auth"
    /\ \/ /\ call.token \in signedIn
          /\ author' = call.token
          /\ handling' = "handler"
          /\ UNCHANGED <<stamp, answers>>
       \/ /\ call.token \notin signedIn
          /\ handling' = "done"
          /\ stamp' = [stamp EXCEPT !.header = normalizeCorrelationId("header")]
          /\ sendError("UNAUTHORIZED", stamp'.header)
          /\ UNCHANGED author
       \/ /\ call.token # Absent
          /\ handling' = "done"
          /\ answers' = answers \cup {Answer(500, NoCode, NoCode)}
          /\ UNCHANGED <<stamp, author>>
    /\ UNCHANGED <<signedIn, call, ran, touched, sent>>

\* The header is set and the handler called.  It mints a correlation id for the use case;
\* a tool uses the one of the request it came in.  A missing body and bad arguments throw.
Handle ==
    LET header == normalizeCorrelationId("header")
        inner == IF call.door = "mcp" THEN header ELSE normalizeCorrelationId("handler")
    IN  /\ handling = "handler"
        /\ stamp' = [stamp EXCEPT !.header = header, !.handler = inner]
        /\ IF call.op \in ReadsBody /\ call.body = Absent
           THEN /\ handling' = "done"
                /\ sendError("INTERNAL_ERROR", header)
                /\ UNCHANGED <<ran, sent>>
           ELSE IF ~ArgumentsAccepted(call)
           THEN /\ handling' = "done"
                /\ sendError("INVALID_INPUT", header)
                /\ UNCHANGED <<ran, sent>>
           ELSE /\ handling' = "running"
                /\ ran' = ran \cup {call.op}
                /\ sent' = IF call.op \in PublicRoutes THEN sent \cup {ForemCall(call)} ELSE sent
                /\ UNCHANGED answers
        /\ UNCHANGED <<signedIn, call, author, touched>>

\* A publish whose key this draft has been published under is answered with the article,
\* before anybody asks whose draft it is.
Replay ==
    /\ handling = "running" /\ call.op = "publishArticle" /\ call.owner # Absent
    /\ handling' = "done"
    /\ touched' = touched \cup {[op |-> "replay", owner |-> call.owner]}
    /\ answers' = answers \cup {Answer(200, NoCode, stamp.header)}
    /\ UNCHANGED <<signedIn, call, stamp, author, ran, sent>>

\* Whom the use case works for.
For == IF call.op \in PassesAuthor THEN author ELSE Nothing

\* The use case finds the record: an unknown one is refused, and another author's by those
\* that ask.  A history of nothing is empty.
FindRecord ==
    /\ handling = "running" /\ call.op \in NamesRecord
    /\ \/ /\ call.op \in HistoryRoutes \/ call.owner # Absent
          /\ call.op \in ChecksOwner => call.owner = For
          /\ handling' = "working"
          /\ touched' = touched \cup {[op |-> call.op, owner |-> call.owner]}
          /\ UNCHANGED answers
       \/ /\ call.owner = Absent /\ call.op \notin HistoryRoutes
          /\ handling' = "done"
          /\ sendError("INVALID_INPUT", stamp.header)
          /\ UNCHANGED touched
       \/ /\ call.owner # Absent /\ call.op \in ChecksOwner /\ call.owner # For
          /\ handling' = "done"
          /\ sendError(IF call.op = "recordNoTopic" THEN "INVALID_INPUT" ELSE "FORBIDDEN",
                       stamp.header)
          /\ UNCHANGED touched
    /\ UNCHANGED <<signedIn, call, stamp, author, ran, sent>>

\* The use case returns, with or without a value, or throws.
Reply ==
    /\ handling = IF call.op \in NamesRecord THEN "working" ELSE "running"
    /\ handling' = "done"
    /\ answers' = answers \cup
            {Answer(IF call.door = "rest" /\ call.op \in ReturnsNothing THEN 204 ELSE 200,
                    NoCode, stamp.header)}
    /\ UNCHANGED <<signedIn, call, stamp, author, ran, touched, sent>>

Throw ==
    /\ handling \in {"running", "working"}
    /\ handling' = "done"
    /\ \E code \in OutcomeOf(call) : sendError(code, stamp.header)
    /\ UNCHANGED <<signedIn, call, stamp, author, ran, touched, sent>>

\* A session ends, or an author signs in, at any moment.
SessionChanges ==
    /\ handling # "done"
    /\ \E a \in Account :
         signedIn' = IF a \in signedIn THEN signedIn \ {a} ELSE signedIn \cup {a}
    /\ UNCHANGED <<call, handling, stamp, author, ran, touched, sent, answers>>

ApiNext ==
    \/ Arrive \/ requireAuthor \/ Handle \/ Replay \/ FindRecord \/ Reply \/ Throw
    \/ SessionChanges

ApiSpec == ApiInit /\ [][ApiNext]_apiVars

-----------------------------------------------------------------------------
(* What it guarantees *)

\* The one type invariant.
ApiTypeOK ==
    /\ signedIn \subseteq Account
    /\ handling \in {"socket", "auth", "handler", "running", "working", "done"}
    /\ stamp.metrics \in {NoCode, "client", "metrics"}
    /\ stamp.header \in {NoCode, "client", "header"}
    /\ stamp.handler \in {NoCode, "client", "header", "handler"}
    /\ author \in Account \cup {Nothing}
    /\ Cardinality(answers) <= 1
    /\ \A a \in answers : a.status \in {STATUS_BY_CODE[c] : c \in ApiErrorCode} \cup {200, 204}

\* A draft is edited, approved, rejected or published, and a run ended, only for the author
\* who owns it, whoever asks and whatever becomes of the session meanwhile.  Any author who
\* is signed in may submit a draft for review, read a history, or be answered with a
\* publication whose key is known: these ask for no owner.  Nobody else reaches any record
\* (routes.ts:259-332, auth.ts:29-46, drafting.ts:196-237, article-management.ts:213-218).
OwnerDecides ==
    \A t \in touched :
        /\ author \in Account /\ author = call.token
        /\ t.owner = author \/ t.op \in {"submitForReview", "replay"} \cup HistoryRoutes

\* Of what leaves for Forem everything is a legal page, a positive id or a path of two real
\* segments, by whichever door the request came and whatever default was filled in, but for
\* top: that is whatever number the client may give, negative or broken too, or 1 in place of
\* nonsense, and goes nowhere but to the list (discovery.ts:34-116, identifiers.ts:7-30,
\* routes.ts:28-31 and :56-58, forem-api-client.ts:46).
ForemGetsLegalCalls ==
    \A f \in sent :
        /\ DOMAIN f \subseteq {"op", "page", "per_page", "id", "path", "top"}
        /\ "page" \in DOMAIN f => /\ f.page \in {2 * i : i \in 1..100}
                                  /\ f.per_page \in {2 * i : i \in 1..1000}
        /\ "id" \in DOMAIN f => f.id > 0 /\ f.id % 2 = 0
        /\ "path" \in DOMAIN f => Len(f.path) = 2 /\ ".." \notin {f.path[1], f.path[2]}
        /\ "top" \in DOMAIN f => /\ f.top \in (TopGiven \ {Absent, Junk}) \cup {2}
                                 /\ f.op = "listArticles"

\* The id a client sends is the one everywhere: counter, header, use case and error body.
\* Without one only header and body agree, and a tool with them (routes.ts:9-26, :403-405;
\* index.ts:33-36).
IdTravelsWithRequest ==
    /\ \A a \in answers : a.code # NoCode => a.id = stamp.header
    /\ (call.id = "client" /\ handling = "running") =>
           stamp.metrics = "client" /\ stamp.header = "client" /\ stamp.handler = "client"
    /\ (call.door = "mcp" /\ handling = "running") => stamp.handler = stamp.header

=============================================================================
