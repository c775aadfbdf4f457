# dev-to-mcp in TLA+

Models of the program under `src/src`, an MCP server that drafts, reviews and
publishes articles on dev.to (Forem): what each part keeps, what its operations
do step by step, what may run between two of those steps, and what holds all the
same. TLC checks the models on small instances; TLAPS proves the central
properties for every instance. Paths below are relative to `src/`.

## 1. The system

One Node.js process per worker. Within a process every `await` is a point where
other calls run; between processes everything meets in Postgres, in Redis and at
the Forem API. Nearly every use case is a *sequence of separate database calls
without a transaction*, which is where most of the hazards come from.

| Component | State | Operations | Interacts with | What makes it correct |
|---|---|---|---|---|
| **Lifecycle policy** `core/policies/lifecycle.ts` | none (a table) | `findTransition`, `assertTransition`, `assertPublishAuthority` | asked by engine, publishing, drafting | agents and schedulers never get past the human gate |
| **Workflow engine** `core/use-cases/workflow-engine.ts`, `prisma-workflow-repository.ts`, `policies/scheduling.ts` | `workflow_runs` (state, attempt, lease), `workflow_transitions`, `no_publish_reports`, `audit_events`, `drafts.state` | `start`, `advance`, `recoverAndAdvance`, `recordNoPublish` | lifecycle; drafts table; audit log | one worker at a time under a lease; history explains state; human gate; abandoned work is resumed |
| **Scheduling** `core/use-cases/scheduling.ts`, `policies/cadence.ts` | `author_configs`, `workflow_runs` | `triggerRun`, `shouldRun`, `recordNoTopic` | engine, publishing (one table, one unique key) | "due" is answered for a cause; a run stays its author's |
| **Article management** `core/use-cases/article-management.ts`, `prisma-article-repository.ts` | `drafts`, `draft_versions`, `approvals`, publish rows in `workflow_runs`, the Forem article | `createArticleDraft`, `updateArticleDraft`, `recordApproval`, `publishArticle` | lifecycle, Forem publisher | what is published is what was approved; one publication per key |
| **Drafting** `core/use-cases/drafting.ts`, `policies/draft-linting.ts`, `policies/citations.ts` | same tables | `generateIdeas`, `generateDraft`, `persistDraft`, `editDraft`, `submitForReview` | generation provider, linting | only sound texts reach review; an answer of the provider is taken whole or refused |
| **MCP session registry** `mcp/session-registry.ts`, `index.ts` | map of sessions, map of teardowns | `register`, `getAndTouch`, `closeSession`, `cleanupExpired`, `dispose` | transports, HTTP server, signals | a session's server is released once; the process ends when asked to |
| **Dashboard sessions** `adapters/auth/session-store.ts` | Postgres row + Redis key | `create`, `validate`, `revoke` | REST authentication | a revoked or expired session is turned away |
| **Rate limiter** `adapters/cache/rate-limiter.ts` | Redis counters with a lifetime | `check` | Redis | never more than the limit per window, and nobody refused below it |
| **HTTP client** `lib/http-client.ts`, `policies/retry.ts` | none | `request`: attempts, backoff, timeout, body | every upstream | nothing is posted twice; every request ends |
| **Algolia search** `adapters/forem/devto-algolia-search.ts` | one promise of credentials, shared | `search` | HTTP client, dev.to's search page | a failed or old key is read anew, once per search |
| **Retrieval** `core/use-cases/retrieval.ts`; `ranking.ts`, `duplication.ts`, `gap-analysis.ts` | `article_snapshots`, `embeddings` | `ingest`, `hybridSearch`, `detectDuplication`, `analyzeContentGap` | embedding and judgment providers | vectors belong to their rows; the best found is listed; verdicts have a cause |
| **Request pipeline** `rest/*`, `mcp/server.ts`, `mcp/tool-*.ts`, `use-cases/discovery.ts` | `res.locals` of a request | all `/v1` routes and MCP tools | dashboard sessions, Forem reading client | what decides over a record runs for its owner; only legal pages, ids and paths go to Forem; ids travel |
| **The rest** | none or append-only | providers' JSON, audit sink, metrics, evals, configuration | | listed in `PROJECT.json`, with reasons |

Hard behaviours: leases that expire under a slow step; calls of one process that
share a `workerId`; writes outside the claim's advisory lock; crashes and failed
calls between two of several writes; read-then-write on drafts, approvals and
idempotency keys; a Forem call that may have acted although it failed, or act later; a cache
filled from a row that has changed; promises shared by calls that each may
forget them; teardowns that four callers may begin or join. All of them are
listed, at their lines, as `hazards` in `PROJECT.json`.

## 2. Modules

| Module | What it is |
|---|---|
| `Lifecycle` | `lifecycle.ts` as operators: the table and its predicates |
| `DraftLifecycle`, `PublishGate` | abstract: a lifecycle state moves only along the table; public only after released, released only after approved |
| `WorkflowEngine` | the engine over its repository, one action per `await` |
| `EngineProperties`, `EngineProofs`, `MCEngine` | its properties and the two refinements; TLAPS proofs; small instances |
| `ArticlePublishing` | drafts, versions, approvals, publish rows and the Forem articles; article management and drafting, one action per `await` |
| `ArticleProperties`, `ArticleProofs`, `MCArticles` | their properties; proofs; small instances |
| `SessionRegistry`, `SessionProperties` | MCP sessions from handshake to teardown and shutdown |
| `ApiRequests` | one request from the socket to its answer, REST or MCP, with discovery |
| `HttpClient` | requests with attempts over a network and a server that may act late |
| `MCGateways` | one instance of those three |
| `DashboardSessions`, `DashboardProperties` | sessions in Postgres behind Redis |
| `RateLimiter` | the fixed-window limiter and its Redis keys |
| `AlgoliaCredentials`, `AlgoliaProofs` | searches that share a promise of the key |
| `RetrievalIndex` | overlapping ingests |
| `Scheduling`, `ScheduleProofs` | cadence, last run, and the two writers of `workflow_runs` |
| `DraftPolicies` | lint verdicts, the two gates, what is taken from the generation provider |
| `RetrievalPolicies` | ranking, duplication, gap analysis and the three questions over them |
| `MCServices` | one instance of those seven |
| `GatewayProofs` | proofs of the session registry, the API and the HTTP client, and of `MCGateways` |
| `RedisProofs` | proofs of the dashboard sessions and the rate limiter |
| `ContentProofs` | proofs of the retrieval index, drafting's gates and retrieval's answers |
| `ServiceProofs` | the parts of `MCServices` put together |

`WorkflowEngine`, `ArticlePublishing` and `Scheduling` are three views of one
database: the first two write `drafts.state`, all three write `workflow_runs`. What
publishes do to the runs of the schedule is in `Scheduling`; the engine's blind write of
`drafts.state` is checked apart from publishing.

`MCGateways` and `MCServices` compose parts that share no state, each explored while the
others are at rest: running two of them side by side would only multiply their states.

### How `WorkflowEngine` corresponds to the code

*Threads and workers.* A `Thread` is a slot for one call of the engine, a `Worker`
a process with its `workerId` (`rest/compose.ts:150`), `WorkerOf` says which
process a slot is in. A crashed process that comes back has a fresh id and is
another `Worker`.

*Control.* `pc[t]` is the database call the thread will make next and `call[t]`
what its local variables hold; an action is that database call with the code up
to the next one. Rows read into a local variable go stale there exactly as in the
code: `advance` works from `call[t].row`, the row its claim returned.

| code | actions |
|---|---|
| `start` / `startRun` | `StartFind` (lookup by key), `StartCreate` (insert; the unique index decides a race), `StartAudit` |
| `recoverAndAdvance` | `RecoverBegin` (`listResumableRuns`), `RecoverNext`, then `advance` per run |
| `advance`: `claimRun` | `Advance`/`RecoverNext` read the clock; `ClaimRead` takes the advisory lock and reads, `ClaimWrite` is the conditional update; after a refusal `ReadRefused` reads the row once more for the report |
| `advance`: step and validation | `ExecuteReturns`, `ExecuteThrows` |
| `advance`: accepted | `RecordTransition`, `AdvanceDraft`, `CompleteRun`, `AuditStep` |
| `advance`: refused | `ReleaseLease`, `AuditReject` |
| `failRun` | `FailRun`, `FailDraft`, `AuditFail` |
| `recordNoPublish` | `NoPublishBegin`, `NoPublishReport`, `NoPublishDraft`, `NoPublishAudit` |
| environment | `Tick`, `DatabaseError`, `Crash` |

*Abstractions.* One clock for all processes. The transition log and the audit trail
are sets (nothing in the engine reads them back; their order is recovered from
the edges). Correlation ids, reasons, results, error texts and log lines are left
out. The order of `listResumableRuns` is free. Calls refused before they write
anything (an unknown run, another author's run, an illegal `recordNoPublish`) change no state and are no
actions. The attempt counter stops one above the maximum, the only value the code
compares it with. The step callback may return any `[to, actor]` of `StepOutcome`
or throw: in the repository only tests pass a callback.

*Bounds.* `MaxNow` (the clock stops), `MaxFaults` (crashes and failed database
calls together), the set `Run` (rows that can be created), two threads. They are
enough because every hazard of the engine needs at most two calls on one run, one
expiry (`MaxNow >= LEASE_DURATION_MS`) and one fault, or, for recovery, a list of two runs.

*`late`* is a history variable: it turns true when a call is still at work at the
end of its own lease. What the comments promise of leases holds as long as it is
false; `doc_advance_under_lease` shows a step recorded by a call that is late.

*Fairness* (`LiveSpec`): time passes; a call under way makes its next database
call (`WF`); the queue of a Postgres advisory lock is first come, first served
(`SF ClaimRead`); and somebody keeps calling `recoverAndAdvance` on a live worker
(`SF RecoverBegin`). The last is an assumption on the environment: the
repository itself has no timer that calls it, only its tests do.

### How `ArticlePublishing` corresponds to the code

*Calls.* A `Thread` is a slot for one call of a use case, in whatever process; `pc[t]`
is its next database call or request to Forem, `call[t]` what it still remembers.
A call that fails, loses its answer or dies with its process leaves its slot idle and
undoes nothing; the same author may then call again, with the same key or another.

| code | actions |
|---|---|
| `createArticleDraft` | `CreateRemote` (Forem first), `CreateDraft` (row and first version, one transaction) |
| `persistDraft` | `PersistDraft` (lint with the client's options, that is, a text in `Savable`; insert; no article) |
| `editDraft` | `EditDraft`, `AppendRead`, `AppendCommit` |
| `updateArticleDraft` | `UpdateBegin`, `UpdateRemote`, then `AppendRead`, `AppendCommit` if there is a new body |
| `appendVersion` | `AppendRead` (last number), `AppendCommit` (insert under the unique index, make current) |
| `submitForReview` | `SubmitBegin`, `SubmitLint`, `SubmitReady`, `SubmitAwait` |
| `recordApproval` | `ApproveBegin`, `ApproveVersion`, `CreateApproval`, `ApproveState` |
| `publishArticle` | `PublishBegin` (key), `PublishDraft`, `PublishVersion`, `PublishCheck` (approval, state, authority), `PublishingState`, `RecordPublishing`, `PublishRemote`, `PublishedState`, `RecordPublished` |
| environment | `Tick`, `Throw` (a database call or request fails, or the process dies), the lost answer in `Answered`, and `Put` and `LateEffect`: a PUT that timed out is kept in `abandoned` and may be carried out at any later moment, after a repetition that was answered or after the call has thrown |

*Abstractions.* A body is a markdown text and its SHA-256 hash at once (equal hashes stand for equal texts);
titles, tags and URLs are left out, an update without a body stands for an update of those. A version is its
number in its draft. A Forem article is named by the draft it was made for. `approvedAt` and `expiresAt` are
one clock reading. One author owns everything and has every capability: the checks that refuse a stranger
run before anything is written (they are in `ApiRequests`; `submitForReview` has none, and a stranger's is
the same action). `overlapped` is a history variable: it turns true when a call starts while another is
under way. What one author doing one thing at a time may rely on, failures included, is stated under
`~overlapped`; what holds without it is proved.

*What the code does that may surprise.* `updateArticleDraft` always sends
`published: false`, so any update of a published draft takes the article down while
the row stays `PUBLISHED` (metadata only) or returns to `DRAFTING`. `persistDraft`
makes drafts that have no article and can never be published. A row of a publish run
is written by an upsert on the key, so of two overlapping requests with one key and
different drafts the later one overwrites the row of the other. All
of this is in the model as it is in the code.

*Bounds.* `MaxVersions` (edits begin below it; two racing edits may pass it by one), `MaxNow`, `MaxFaults`;
one draft, one key, two calls at a time. Two versions tell an approved text from a later one; one tick is
enough for an approval to expire; one failure anywhere is what the retry hazards need, and one abandoned PUT
what a late request needs. Two drafts meet in the publish rows only. Deadlock is not checked: the
environment may stop calling, and the bounds end every behaviour.

*Fairness* (`LiveSpec`): `WF` of each call's next step. Database calls answer or
fail, and every request to Forem ends with an answer or a timeout
(`lib/http-client.ts`). Nobody is assumed to call again.

### How `SessionRegistry` corresponds to the code

A session is a random id, so a slot is used once. `closing[s]` is the await the
teardown promise of `s` is at, `origin[s]` who began it. `closeSession` runs up to its
first await in one step, for every session the caller names: the timer and `dispose` loop
without an await between. A teardown joins one that is under way; the transport's
`onclose` fires inside its `close()` and joins too, unless the entry is still in the map.

| code | actions |
|---|---|
| `POST /mcp` without / with an id | `Initialize`, `register` (in `onsessioninitialized`) / `getAndTouch` |
| `closeSession` | begun by `Delete`, `cleanupExpired`, `onclose`, `shutdown`; goes on in `TransportClosed`, `ResourceClosed`; fails in `CloseFails` |
| `dispose`, SIGTERM, SIGINT | `shutdown` (each may come once), `ProcessExits` |

`late` remembers sessions that registered after `dispose` looked at the map. *Fairness*:
transports and servers that close come to an end, the timer fires, time passes; no
request and no signal has to come, and closes may fail at any moment.
*Bounds*: two sessions (the hazard is one teardown joining another), a TTL of two ticks.

### How `ApiRequests` corresponds to the code

One request: `Arrive` (body parser, metrics), `requireAuthor`, `Handle` (arguments read and
checked, the use case started), then `FindRecord` if the request names a draft or run (or `Replay`, the
answer to a known publish key), `Reply` or `Throw`; `SessionChanges` between any two. `owner` is whose the
named record is; `PassesAuthor` says which handlers hand the author to the use case, `ChecksOwner` which use
cases compare, and `touched` what was read or changed of whom. `top` is a number of its own, which no one
checks. `stamp` holds
the three correlation ids the code works out. Numbers are counted in halves (3 is
1.5), so that a fraction is told from an integer; the numbers tried are the edges of every
check. What an author's use case does is in the other modules: here it ends in any way.

### How `HttpClient` corresponds to the code

`request`, `Retry`, `AttemptFails` (the abort of the timer or an error of `fetch`),
`Receive` (head; 204 has no body), `ReadBody` (no timer runs then). `Serve` and `Lose` are the
network: an attempt may be carried out after the client gave it up, once, and may be answered 5xx
although it was. PUT replaces the server's value, POST adds. *Fairness*: timers
fire and bodies end (undici's own body timeout). *Bounds*: two requests, so that a late
attempt of the first meets the second, of two attempts each
(`MAX_HTTP_ATTEMPTS` is 3 in the code: the third repeats the second).

### How `DashboardSessions` and `RateLimiter` correspond to the code

Every Postgres and Redis call is a step that may fail (`StoreError`, `RedisError`); Redis
keys are the time they expire, and may be lost at any moment (`CacheLoss`). Clocks tick in
fractions of a second, or of a window, because both parts round: `RemainingSeconds` is the
`Math.ceil` of the code. `raced` remembers the tokens that were revoked while
a validation was about to write the cache, `lag` the longest a SET was under way, `delayed` whether an INCR
came in a later window than its key names. *Bounds*: two callers and one token, for the races are between two
calls; `MaxClock` covers a lifetime and the second after it; two windows and a limit of one.

### How `AlgoliaCredentials` corresponds to the code

A promise is the number of the page read that settles it, `credentials` the one kept.
`loadCredentials` takes it or begins a read; `fetchCredentials` ends a read, and its
`.catch` forgets whatever is kept by then; `Loaded` and `Answered` are the two awaits of
`query`; `Refused` forgets and asks once more, in one step as in the code. `Rotate`
is the site. *Bounds*: three searches, two rotations, one failing read: one search to
be refused, one to renew the key, one to be caught in between.

### How `RetrievalIndex` and `Scheduling` correspond to the code

An ingest writes row after row (`Upsert`), embeds the texts that are not empty in one call
(`embed`) and stores vector after vector (`storeEmbedding`); any step may throw. What a provider answers is
a sequence of places: a vector that is left out moves those behind it one place forward, where they are taken
to be another text's, and an empty one is passed over. Two ingests run at once over two articles.

`triggerRun`, `resolveIdempotency` and `recordRun` are the writers of `workflow_runs` as far as the
cadence sees them; `ReadLastRun` and `shouldRun` are the two awaits of the status request,
with the clock read after both. Days are scaled: the intervals 1, 7 and 14 are 1, 2
and 3, which keeps their order and the edge at equality.

### How `DraftPolicies` and `RetrievalPolicies` correspond to the code

They have no state: a question is chosen, one step answers it, and the properties speak of every question of
the instance. A line of a text is the set of its marks (what the regular expressions look for) and of its
words; texts have up to three lines, enough for two paragraphs, or a claim with its support elsewhere.
Real-valued scores are integers on a scale that represents the weights of `DEFAULT_WEIGHTS` exactly and
keeps halves, thirds and the quotients of the instance; similarities are fractions. A client's prohibited
terms (`Term`), its threshold, the author's earlier articles (`Priors`) and every raw score are constants,
small in the instance and arbitrary in the proofs. The mark `openLink` is a link without a target, or with a
title behind it. The hits of the two searches, the providers' scores, failures and empty answers are inputs,
out of range ones included.

## 3. Runs

| run | shows |
|---|---|
| `engine_gate` | Two workers, one run with a draft, the whole table to publication, failure and back, leases of one tick that expire under the calls. Human gate, history, the draft's gate, the refinement of `PublishGate`. One attempt, so that the retry branch is the exhausted one; `engine_lease` has the other. |
| `engine_lease` | Leases of two ticks in three, a backoff, one crash or database error. No claim takes a running lease or leases a finished run; while no call is late, work is exclusive, only the holder moves the run, along the table only. |
| `engine_recover` | Two runs, keyed and not: recovery goes on past a refused run. |
| `engine_adopt` | Liveness of an abandoned lease (no symmetry, no view). |
| `articles_safe` | Two calls of any kind on a draft, two texts of which one has lint blockers, approvals that expire, one failure at any point or one PUT carried out late. Versions, approvals, publication, publish requests. |
| `articles_live` | Without failures a draft does not stay in `PUBLISHING`. |
| `gateways` | MCP sessions: released once, none lost by an orderly exit, idle ones leave, the process ends. Requests: only its owner edits, decides on or publishes a record; only legal calls leave. HTTP: a POST is carried out once, a confirmed write stands, every request ends. |
| `services` | Sessions, rate limit, shared credentials, index, schedule, texts and rankings; the most states are the dashboard's and the questions of retrieval. |
| `doc_*` | one disagreement between code and comment each; `findings` in `PROJECT.json` quote them |

`engine_gate`, `engine_lease` and `engine_recover` use the symmetry of the two
slots (with their workers) and a view without the audit trail, which no action
and no property of these runs reads; `articles_safe` uses the symmetry of the two calls
and a view without the texts at Forem, on which no action depends and which no property of this run reads.
`gateways` and `services` use neither. Deadlock is not checked where the environment may stop calling.

The properties of the runs are each broken by a mutant of the code listed in `PROJECT.json`.
History variables make the exceptions of the code part of a property
instead of hiding them: `late`, `raced`, `lag`, `delayed`, `overlapped`, `givenUp` and `joined` name the race
that a weaker promise is owed to, and the property says that nothing else costs it.

`LeaseWindowRespected` carries one exception, the code's own: a worker renewing its
own running lease compares `leaseUntil` and `state` only, so it does not notice a
failure in between whose retry time equals the old lease end.

## 4. Proofs

`EngineProofs` proves, for every set of threads, workers, runs and drafts, every
step callback and every policy value:

* `TypeSafe`: `TypeOK`. The inductive invariant adds `CallOK`: a call past its first steps has
  a run with a row, and a step that was accepted has an outcome.
* `JustifiedAlways`: the strengthening behind the rest. `HumanGate` is not inductive:
  a call acts on the row it read long ago, and `completeRun` writes whatever that row
  led to. `JustifiedInv` says that the log justifies not only the state of every run
  but also the state in every row a call still holds, and, once the transition is
  logged, the state it is about to write. The log only grows, so a justified
  snapshot stays justified however stale it is.
* `HumanGateHolds`, `HistoryHolds` and `SchedulerReachHolds` (a run that only the scheduler
  moved never gets beyond drafting) follow from it.
* `PublishGateImplemented`: every step of the engine is a step of `PublishGate` or
  leaves its three sets alone.
* `LeaseWindowHolds`: `ClaimInv` says that the lock is held by one call of a run, and what the row it read may have
  become since: calls outside the lock may have freed its lease, but made it nobody else's. The claim's
  conditional update compares `leaseUntil` and `state`, which the property's exception is about.
* `LeaseExclusiveHolds`, `AdvancedUnderLeaseHolds` and `RunFollowsTableHolds` share `LeaseInv`:
  as long as no call is late, a call at work has its run leased until the time it claimed and the
  row is as it left it. They assume `OneCallPerWorker`, and need it: a claim succeeds for
  the `workerId` that has the lease already, so of two calls of one process the first to end
  frees the lease the second still works under (`doc_terminal_is_final` shows what follows).
  The code does not keep two calls of a process from the same run; the hypothesis says for which
  deployments the lease does what its comment promises. The runs check the three for one call
  per worker as well.
* `DraftGateHolds`: the draft is written after the log and before the run, so `JustifiedInv` carries
  over; a failing call can only make a draft `FAILED` or `NO_PUBLISH`.
* `RecoveryIsIsolatedHolds`: the list of a recovery is the remaining runs but the one it is at.

`ArticleProofs` proves, for every set of calls, drafts, keys, texts and lifetimes and
without any bound on overlap or failures:

* `ArticleInv`: the inductive invariant `Inv`. `Data` relates the tables: a draft with a row has versions
  and the last is current, an approval names a version that exists and its hash, a draft that knows of an
  article has one, a public article belongs to an approved draft, and so does every abandoned PUT that would
  publish one. None of this is inductive alone, because calls act on what they read earlier: `Calls` says
  what each call still remembers at each `await` (`Fit`), for example that after `PublishCheck` its draft
  has an approval, and after `RecordPublishing` its key has a row. `Fit` survives the steps of the other
  calls because tables only grow (`Grown`, `FitKept`): approvals and versions are never changed or deleted,
  rows of publish runs never removed.
* `ArticleTypeSafe`, `LatestIsCurrentHolds`, `ApprovalKeepsItsTextHolds`,
  `PublicWasApprovedHolds` and `RequestIsRecordedHolds` follow from it.
* `ApprovedWasLintedHolds`, `RequestedOnceHolds` and `ReleasedAsApprovedHolds` speak of calls that
  do not overlap. `SequentialInv` holds until the first overlap, for any number of calls that fail,
  crash and are made again: at most one call is under way, so what it read still *is* so
  (`Recalls`), and what a broken-off call leaves behind is harmless, since a key is recorded before
  it is sent, a text is linted before its draft awaits approval, and any edit takes the draft back.

`GatewayProofs`, for any number of sessions and any TTL. The inductive invariant says what
the maps, the transports and `closing` allow of each other (`RegisteredIsOpen`: a session
in the map has an open transport and no teardown), and how often a session can
have been released at each await of its teardown; `ReleasedExactlyOnceHolds` follows because the first thing a
teardown does is to take the entry away from the others. `ExitLosesNoneHolds` needs what
one signal leaves behind: the map empty but for late sessions. `FailureIsContainedHolds`
reads off who began the teardown that failed.

Also there, for any number of requests and attempts: the attempts on the wire, carried out and given up are
numbered, each at most once on the wire; a POST never reaches `backoff` (`PostCarriedOutOnceHolds`,
`ConfirmedStandsHolds`, and three more on how requests end); and for any accounts, records, numbers and
paths `OwnerDecidesHolds` (what was touched was found with the author that `requireAuthor` took from the
token), `ForemGetsLegalCallsHolds` (the argument checks against what is sent) and
`IdTravelsWithRequestHolds`. `GatewaysTypeSafe` composes the three: a step of `MCGateways` is a step of each
part or leaves it alone.

`RedisProofs`, for any number of callers, tokens, failures and any clock resolution. Each
call remembers a row it read: the invariant bounds the expiry of a
Redis key by the row's expiry plus a second plus the longest lag of a SET
(`SessionDiesAtExpiryHolds`), and says that a revoked row whose key is still alive has
a fill under way or a race behind it (`RevokedComesBackOnlyByRaceHolds`, `RefusedForCauseHolds`).

Also there, the rate limiter for any window, limit and number of checks, with EXPIRE early,
late or never: `BudgetRespectedHolds`. As long as no call is delayed, the counter of a window is the
number of its INCRs until two windows after its beginning, so each grant of a window has a number
of its own among `1..LIMIT` (`CountedInWindow`); a set that maps one to one into that range has at
most `LIMIT` members, and a stretch of a window's length meets two windows. To say so, `grants` is the set
of the grants with their numbers.

`AlgoliaProofs`, for any number of searches. Promises only settle and are only added
(`Later`), so what is known of the one a search awaits stays known; the key of a second
query is at least as new as the refusal of the first (`RefusedTwiceForCauseHolds`,
`NoFailedReadKeptHolds`). A count of reads against refusals and failures
gives `ReadsAreAccountedForHolds` and `OneReadIsSharedHolds`.

`ScheduleProofs`, for any cadences, authors and keys: `AnsweredForCauseHolds` rests on the last run
as it was read covering every start of the author until another one joins;
`RunChangesHandsByRaceOnlyHolds` on the unique key.

`ContentProofs`, for batches, texts, answers and result lists of any length:

* `QuietIndexIsCurrentHolds`: an ingest that runs alone and has met no failure knows every row that is
  not current: each has an entry still to be embedded or stored, with the row's own text
  (`Covers`). When it is done nothing is ahead, so every row is current.
* `ReviewedTextIsSoundHolds`, for any options of the client: the two gates are compared check by check;
  `IdeasAllOrNothingHolds`.
* `BestFoundAreListedHolds`: the sort is not a recursive definition but a statement of where each
  element goes (`Place`: one more than the elements before it), so that the prover can reason
  about it: places of different elements differ, a one-to-one map of a finite range into itself is
  onto, and so `Ranked` is a permutation in the order of the scores. The two limits, of the
  repository's hits and of the list, are then about prefixes of permutations.
* `DuplicateForCauseHolds` (similarities as fractions, so comparing them multiplies; the closest of any
  number of earlier articles exists because a finite set of them has a best) and
  `ConfidenceFallsWithCoverageHolds`.

`ServiceProofs`: `ServicesTypeSafe` composes the parts of `MCServices` from their step lemmas.

Assumptions: the named `ASSUME`s of the modules (types of the constants, finite sets of titles, tags
and snapshots), and `OneCallPerWorker` where a theorem names it. One of
them, `BackoffAssumption` (`2^n` is a natural number), is arithmetic that TLAPS has no theory
for. *Only model-checked*: liveness, which is out of the prover's reach (`AbandonedLeaseAdopted`,
`PublishingSettles`, `IdleSessionsLeave`, `ShutdownExits`, `RequestEnds`). Every invariant and every
step property of the passing runs has its theorem. *Only proved*: the theorems without a
property in `PROJECT.json`; their invariants held in the instances above as well before they were
proved. Out of reach too is what `FoldLeft` and `FlattenSeq` compute in gap analysis (induction over
data): no theorem speaks of the themes and questions it lists.

## 5. Disagreements and surprises

The four `doc_*` runs: a step is recorded after its lease ran out; a terminal run is moved
again; a text goes public that was never approved (create, edit locally, approve the edit,
publish: Forem still has the first text); a draft whose publish request failed stays in
`PUBLISHING` and is refused by every later attempt.

Seen while modelling, plain from the code, and given no run:

* The loser of a race of two `start` calls with one key throws a unique violation
  (`prisma-workflow-repository.ts:87-97`) where `policies/scheduling.ts:58-59` promises the
  existing run. A request without a key has the empty one (`rest/routes.ts:341`), which is one key for
  all authors: the second such trigger finds the first author's run and creates none.
* The engine writes `drafts.state` without reading it (`workflow-engine.ts:233`), outside
  the table that `lifecycle.ts:33-35` calls complete. `recordNoPublish` never moves the run
  (`workflow-engine.ts:330` against the comment at 307-308), and an advance may go on beside it.
* A run that has used up its attempts keeps its state (`failRun` never writes
  `state`; `policies/scheduling.ts:8` says it stays `FAILED`), and is listed for
  recovery again. `failRun` keeps its backoff in `leaseUntil`, where a stale completion erases it.
  An error between the transition log and the audit call leaves a
  logged transition without an audit event (`workflow-engine.ts:63-64`).
* An approval is checked once: it may expire before the publish request leaves. REST gives
  it 1440 seconds by default, the schema speaks of `approvalTtlMinutes`.
* `submitForReview` and the two histories do not ask whose draft it is, and the answer to a known publish key
  comes before the question (`drafting.ts:196`, `routes.ts:322-332`, `article-management.ts:213`): any
  author who is signed in may use them. `OwnerDecides` names them. `persistDraft` lints with the client's options,
  `submitForReview` with the defaults, `editDraft` not at all. One citation or one marker
  anywhere waives every unsupported claim of a text, and closing fences are warned of. `[x]()` and
  `[x](u "t")` support a claim on their line (`draft-linting.ts:115`), but are no citation (`citations.ts:1`)
  and no broken link (`draft-linting.ts:49`).
* `top` goes from a request to Forem unchecked, negative or broken too (`routes.ts:56-58`,
  `forem-api-client.ts:46`).
* A PUT that timed out may be carried out after a later one: an old update takes a published article down or
  puts the old text back, an old publish makes a later text public.
* Vectors are matched by position, so a short answer of the provider stores another article's vector
  (`openai-compatible.ts:54`, `retrieval.ts:113-131`).
* A revoked session is let in again if a validation was about to fill the cache.
* The correlation id of a request without one is minted separately for the metrics, the
  header and the use case (`index.ts:34`, `routes.ts:11`, `routes.ts:403`), where the
  architecture document speaks of one; the metrics map grows with each. A POST without a JSON
  body fails on `undefined` and is answered 500. A body that does not parse meets an
  error handler that is registered before the routes, and is answered by Express.
* An analysis that reports full coverage has confidence 0, which `boundGapAnalysis` takes for no
  judgment and replaces by the count of the evidence. The title a duplication check names
  is the closest by words and tags, even when the judgment alone decided.
* `Retry-After` is parsed and not used. `ingest` is called by tests only.

## 6. Not modelled, and what is left

* The Angular dashboard (another program), the exchange of the GitHub code, the JSON of Forem and of the
  providers, prompts, the audit sink and metrics output, capability sets (the one author
  has all), the wrapping of untrusted text: no state that a later step depends on, or text only.
* `evals/harness.ts` and `config.ts`: an offline loop and the reading of the environment.
* Open: composing `WorkflowEngine` with `ArticlePublishing` over `drafts` (the engine's blind
  `setDraftState` beside a publication), and what may be promised of the leases when a process
  makes several calls at once.
