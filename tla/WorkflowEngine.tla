--------------------------- MODULE WorkflowEngine ---------------------------
(***************************************************************************)
(* The durable workflow engine (src/src/core/use-cases/workflow-engine.ts) *)
(* over its Postgres repository (prisma-workflow-repository.ts), with the  *)
(* retry and lease policy (policies/scheduling.ts).                        *)
(*                                                                         *)
(* A worker process runs several calls of the engine at once; a Thread is  *)
(* one such call slot and WorkerOf names the process, hence the workerId,  *)
(* it belongs to.  Every await of the source is a point where other        *)
(* threads run, so each database call is an action of its own; what the    *)
(* call remembers between two awaits is call[t].  One clock, now, stands   *)
(* for Date.now() of every process.                                        *)
(***************************************************************************)
EXTENDS Lifecycle, Integers, FiniteSets

CONSTANTS
    Thread,                \* call slots
    Worker,                \* worker processes (a restart is another worker)
    WorkerOf,              \* [Thread -> Worker]
    Run, Draft, Key,       \* row identities and idempotency keys
    None,                  \* the null of TypeScript and SQL
    StartInput,            \* the [key, draft] arguments start() is given
    StepOutcome,           \* the [to, actor] results a step callback may return
    LEASE_DURATION_MS, MAX_WORKFLOW_ATTEMPTS,
    BACKOFF_BASE_MS, BACKOFF_MAX_MS,
    MaxNow,                \* bound: the clock stops here
    MaxFaults              \* bound: crashes and failed database calls

ASSUME WorkerOfAssumption == WorkerOf \in [Thread -> Worker]
ASSUME NoneAssumption ==
    /\ None \notin Worker \cup Run \cup Draft \cup Key \cup DraftState \cup Nat
    /\ None \notin StepOutcome
ASSUME InputAssumption ==
    /\ StartInput \subseteq [key : Key \cup {None}, draft : Draft \cup {None}]
    /\ StepOutcome \subseteq [to : DraftState, actor : TransitionActor]
ASSUME PolicyAssumption ==
    /\ LEASE_DURATION_MS \in Nat \ {0}
    /\ MAX_WORKFLOW_ATTEMPTS \in Nat \ {0}
    /\ BACKOFF_BASE_MS \in Nat \ {0}
    /\ BACKOFF_MAX_MS \in Nat \ {0}
    /\ MaxNow \in Nat
    /\ MaxFaults \in Nat
\* Arithmetic the provers lack: they know no exponentiation.
ASSUME BackoffAssumption ==
    \A n \in 0..MAX_WORKFLOW_ATTEMPTS : 2 ^ n \in Nat

VARIABLES
    now,          \* Date.now()
    down,         \* the workers that have crashed
    faults,       \* crashes and database errors so far
    late,         \* has a call ever outlived its own lease?
    created,      \* the runs that have a row
    runs,         \* the workflow_runs table
    log,          \* the workflow_transitions table, as a set
    reports,      \* the runs with a row in no_publish_reports
    audit,        \* the engine's rows in audit_events, as a set
    draftState,   \* the state column of the drafts table
    pc,           \* where each thread is
    call          \* what each thread's call remembers

faultVars == <<down, faults, late>>
history   == <<log, reports, audit>>
vars == <<now, faultVars, created, runs, history, draftState, pc, call>>

-----------------------------------------------------------------------------
(* Policy: policies/scheduling.ts *)

hasAttemptsRemaining(attempt) == attempt < MAX_WORKFLOW_ATTEMPTS

\* Exponential backoff with a ceiling; attempt is 1-based.
backoffMs(attempt) ==
    LET exponential == BACKOFF_BASE_MS * 2 ^ (attempt - 1)
    IN  IF exponential < BACKOFF_MAX_MS THEN exponential ELSE BACKOFF_MAX_MS

\* attempt: { increment: 1 }.  The code only ever compares attempt with the
\* maximum, so counting stops one above it.
Incremented(attempt) ==
    IF attempt <= MAX_WORKFLOW_ATTEMPTS THEN attempt + 1 ELSE attempt

-----------------------------------------------------------------------------
(* Rows and calls *)

RunRow == [state      : DraftState,
           attempt    : Nat,
           leasedBy   : Worker \cup {None},
           leaseUntil : Nat \cup {None},
           draft      : Draft \cup {None},
           key        : Key \cup {None}]

NewRun(input) == [state |-> "RESEARCHING", attempt |-> 0, leasedBy |-> None,
                  leaseUntil |-> None, draft |-> input.draft,
                  key |-> input.key]

BlankRun == NewRun([draft |-> None, key |-> None])

Transition == [run : Run, from : DraftState, to : DraftState,
               actor : TransitionActor]

AuditEvent == [run  : Run,
               tool : {"workflow.start", "workflow.transition",
                       "workflow.transition.rejected", "workflow.failure",
                       "workflow.no_publish"},
               from : DraftState \cup {None},
               to   : DraftState \cup {None}]

\* todo: the runs a recoverAndAdvance loop still has to visit; nowMs: the time
\* the call read first; row: the row it read last; out: what the step returned.
Call == [run     : Run \cup {None},
         todo    : SUBSET Run,
         nowMs   : Nat,
         row     : RunRow,
         out     : StepOutcome \cup {None},
         retryAt : Nat \cup {None}]

IdleCall == [run |-> None, todo |-> {}, nowMs |-> 0, row |-> BlankRun,
             out |-> None, retryAt |-> None]

ClaimLabel == {"claim", "locked"}

\* The points of advance() between a successful claim and the call that gives
\* the lease back.
Holding == {"execute", "record", "draft", "complete", "fail", "release"}

Label == {"idle", "creating", "auditStart", "recover"} \cup ClaimLabel
         \cup Holding
         \cup {"refused", "auditStep", "failDraft", "auditFail", "auditReject",
               "report", "reportDraft", "auditReport", "down"}

Init ==
    /\ now = 0
    /\ down = {}
    /\ faults = 0
    /\ late = FALSE
    /\ created = {}
    /\ runs = [r \in Run |-> BlankRun]
    /\ log = {}
    /\ reports = {}
    /\ audit = {}
    /\ draftState = [d \in Draft |-> "DRAFTING"]
    /\ pc = [t \in Thread |-> "idle"]
    /\ call = [t \in Thread |-> IdleCall]

Goto(t, label) == pc' = [pc EXCEPT ![t] = label]
Remember(t, c) == call' = [call EXCEPT ![t] = c]

\* The call returns, or throws to its caller.
Return(t) == Goto(t, "idle") /\ Remember(t, IdleCall)

\* An advance() ends in a way recoverAndAdvance survives: on to the next run
\* of its list, if the call came from there.
Advanced(t) ==
    /\ Goto(t, IF call[t].todo = {} THEN "idle" ELSE "recover")
    /\ Remember(t, [IdleCall EXCEPT !.todo = call[t].todo])

Audit(t, tool, from, to) ==
    audit' = audit \cup
        {[run |-> call[t].run, tool |-> tool, from |-> from, to |-> to]}

-----------------------------------------------------------------------------
(* start *)

IdsLeft == Cardinality(Run \ created)
             > Cardinality({u \in Thread : pc[u] = "creating"})

\* The lookup by idempotency key that opens startRun.
StartFind(t, input) ==
    /\ pc[t] = "idle"
    /\ LET existing == {r \in created : input.key # None
                                        /\ runs[r].key = input.key}
       IN  \/ \E r \in existing :
                /\ Goto(t, "auditStart")
                /\ Remember(t, [IdleCall EXCEPT !.run = r])
           \/ /\ existing = {}
              /\ IdsLeft                                   \* bound: Run
              /\ Goto(t, "creating")
              /\ Remember(t, [IdleCall EXCEPT !.row = NewRun(input)])
    /\ UNCHANGED <<now, faultVars, created, runs, history, draftState>>

KeyTaken(key) == key # None /\ \E r \in created : runs[r].key = key

\* The insert; the unique index on the key makes the loser of a race throw.
StartCreate(t) ==
    /\ pc[t] = "creating"
    /\ \/ /\ KeyTaken(call[t].row.key)
          /\ Return(t)
          /\ UNCHANGED <<created, runs>>
       \/ /\ ~KeyTaken(call[t].row.key)
          /\ \E r \in Run \ created :
                /\ created' = created \cup {r}
                /\ runs' = [runs EXCEPT ![r] = call[t].row]
                /\ Goto(t, "auditStart")
                /\ Remember(t, [IdleCall EXCEPT !.run = r])
    /\ UNCHANGED <<now, faultVars, history, draftState>>

StartAudit(t) ==
    /\ pc[t] = "auditStart"
    /\ Audit(t, "workflow.start", None, None)
    /\ Return(t)
    /\ UNCHANGED <<now, faultVars, created, runs, log, reports, draftState>>

-----------------------------------------------------------------------------
(* recoverAndAdvance, and the claim that opens advance *)

\* Faulty variant: a lease is taken for expired one tick early.
ExpiredEarly(row, nowMs) == row.leaseUntil = None \/ row.leaseUntil <= nowMs + 1

Expired(row, nowMs) == row.leaseUntil = None \/ row.leaseUntil <= nowMs

\* Faulty variant: only runs nobody ever leased are listed.
listUnleasedRuns ==
    {r \in created : ~isTerminalState(runs[r].state) /\ runs[r].leaseUntil = None}

listResumableRuns ==
    {r \in created : ~isTerminalState(runs[r].state) /\ Expired(runs[r], now)}

\* The order of the list, by start time, is left free.
RecoverBegin(t) ==
    /\ pc[t] = "idle"
    /\ listResumableRuns # {}
    /\ Goto(t, "recover")
    /\ Remember(t, [IdleCall EXCEPT !.todo = listResumableRuns])
    /\ UNCHANGED <<now, faultVars, created, runs, history, draftState>>

\* advance(run) reads the clock before it asks for the lease.
BeginAdvance(t, r, todo) ==
    /\ Goto(t, "claim")
    /\ Remember(t, [IdleCall EXCEPT !.run = r, !.nowMs = now, !.todo = todo])
    /\ UNCHANGED <<now, faultVars, created, runs, history, draftState>>

RecoverNext(t) ==
    /\ pc[t] = "recover"
    /\ \E r \in call[t].todo : BeginAdvance(t, r, call[t].todo \ {r})

Advance(t, r) ==
    /\ pc[t] = "idle"
    /\ r \in created
    /\ BeginAdvance(t, r, {})

\* pg_advisory_xact_lock(runId): one claim transaction per run at a time.
LockFree(r) == \A u \in Thread : pc[u] = "locked" => call[u].run # r

\* Faulty variant: the claim looks at the state only.
RefusedTerminal(row, nowMs, w) == isTerminalState(row.state)

Refused(row, nowMs, w) ==
    \/ isTerminalState(row.state)
    \/ ~Expired(row, nowMs) /\ row.leasedBy # w

\* The claim transaction takes the lock and reads the row.
ClaimRead(t) ==
    LET row == runs[call[t].run] IN
    /\ pc[t] = "claim"
    /\ LockFree(call[t].run)
    /\ \/ /\ Refused(row, call[t].nowMs, WorkerOf[t])
          /\ Goto(t, "refused")
          /\ UNCHANGED call
       \/ /\ ~Refused(row, call[t].nowMs, WorkerOf[t])
          /\ Goto(t, "locked")
          /\ Remember(t, [call[t] EXCEPT !.row = row])
    /\ UNCHANGED <<now, faultVars, created, runs, history, draftState>>

\* A refused advance reads the run once more, for the state it reports.
ReadRefused(t) ==
    /\ pc[t] = "refused"
    /\ Advanced(t)
    /\ UNCHANGED <<now, faultVars, created, runs, history, draftState>>

\* Faulty variant: one column missing from the where clause below.
UnmovedState(row, read) == row.state = read.state

\* The where clause of the claim's conditional update.
Unmoved(row, read) ==
    row.leaseUntil = read.leaseUntil /\ row.state = read.state

\* Faulty variant: the lease ends where it begins.
LeasedForNothing(row, t) ==
    [row EXCEPT !.leasedBy = WorkerOf[t], !.leaseUntil = call[t].nowMs]

Leased(row, t) ==
    [row EXCEPT !.leasedBy = WorkerOf[t],
                !.leaseUntil = call[t].nowMs + LEASE_DURATION_MS]

\* ... and updates it if no call outside the lock has moved it meanwhile.  An
\* update of no row throws, through recoverAndAdvance too.
ClaimWrite(t) ==
    LET r   == call[t].run
        row == Leased(runs[r], t)
    IN
    /\ pc[t] = "locked"
    /\ \/ /\ Unmoved(runs[r], call[t].row)
          /\ runs' = [runs EXCEPT ![r] = row]
          /\ Goto(t, IF hasAttemptsRemaining(row.attempt)
                       THEN "execute" ELSE "fail")
          /\ Remember(t, [call[t] EXCEPT !.row = row])
       \/ /\ ~Unmoved(runs[r], call[t].row)
          /\ Return(t)
          /\ UNCHANGED runs
    /\ UNCHANGED <<now, faultVars, created, history, draftState>>

-----------------------------------------------------------------------------
(* advance, once the run is claimed.  Everything below works from the row    *)
(* the claim returned, call[t].row, and never reads the run again.           *)

\* The step callback returns; the transition it asks for is validated.
ExecuteReturns(t) ==
    /\ pc[t] = "execute"
    /\ \E out \in StepOutcome :
         /\ Goto(t, IF assertPublishAuthority(call[t].row.state, out.to, out.actor)
                      THEN "record" ELSE "release")
         /\ Remember(t, [call[t] EXCEPT !.out = out])
    /\ UNCHANGED <<now, faultVars, created, runs, history, draftState>>

\* The step callback throws.
ExecuteThrows(t) ==
    LET attempt == call[t].row.attempt + 1 IN
    /\ pc[t] = "execute"
    /\ Goto(t, "fail")
    /\ Remember(t, [call[t] EXCEPT !.retryAt =
            IF hasAttemptsRemaining(attempt)
              THEN now + backoffMs(attempt) ELSE None])
    /\ UNCHANGED <<now, faultVars, created, runs, history, draftState>>

\* A run without a draft skips every setDraftState.
IfDraft(t, label, otherwise) ==
    IF call[t].row.draft # None THEN label ELSE otherwise

setDraftState(t, state) ==
    draftState' = [draftState EXCEPT ![call[t].row.draft] = state]

\* Faulty variant: the transition is not logged.
RecordNothing(t) ==
    /\ pc[t] = "record"
    /\ Goto(t, IfDraft(t, "draft", "complete"))
    /\ UNCHANGED <<now, faultVars, created, runs, history, draftState, call>>

RecordTransition(t) ==
    /\ pc[t] = "record"
    /\ log' = log \cup {[run |-> call[t].run, from |-> call[t].row.state,
                         to |-> call[t].out.to, actor |-> call[t].out.actor]}
    /\ Goto(t, IfDraft(t, "draft", "complete"))
    /\ UNCHANGED <<now, faultVars, created, runs, reports, audit, draftState, call>>

AdvanceDraft(t) ==
    /\ pc[t] = "draft"
    /\ setDraftState(t, call[t].out.to)
    /\ Goto(t, "complete")
    /\ UNCHANGED <<now, faultVars, created, runs, history, call>>

\* The update names the run only: not the worker, the lease or the old state.
CompleteRun(t) ==
    /\ pc[t] = "complete"
    /\ runs' = [runs EXCEPT ![call[t].run] =
                  [@ EXCEPT !.state = call[t].out.to,
                            !.leasedBy = None, !.leaseUntil = None]]
    /\ Goto(t, "auditStep")
    /\ UNCHANGED <<now, faultVars, created, history, draftState, call>>

AuditStep(t) ==
    /\ pc[t] = "auditStep"
    /\ Audit(t, "workflow.transition", call[t].row.state, call[t].out.to)
    /\ Advanced(t)
    /\ UNCHANGED <<now, faultVars, created, runs, log, reports, draftState>>

\* A rejected transition: the lease goes back if it is still this worker's.
ReleaseLease(t) ==
    LET r == call[t].run IN
    /\ pc[t] = "release"
    /\ runs' = IF runs[r].leasedBy = WorkerOf[t]
                 THEN [runs EXCEPT ![r] = [@ EXCEPT !.leasedBy = None,
                                                    !.leaseUntil = None]]
                 ELSE runs
    /\ Goto(t, "auditReject")
    /\ UNCHANGED <<now, faultVars, created, history, draftState, call>>

\* Faulty variant: a policy rejection ends the whole recovery.
AuditRejectAndThrow(t) ==
    /\ pc[t] = "auditReject"
    /\ Audit(t, "workflow.transition.rejected", None, None)
    /\ Return(t)
    /\ UNCHANGED <<now, faultVars, created, runs, log, reports, draftState>>

AuditReject(t) ==
    /\ pc[t] = "auditReject"
    /\ Audit(t, "workflow.transition.rejected", None, None)
    /\ Advanced(t)
    /\ UNCHANGED <<now, faultVars, created, runs, log, reports, draftState>>

\* The lease column of a failed run holds its retry time, with no holder.  failRun's own
\* reading of the clock, the least retry time, is taken before it first waits, right after
\* the one that the retry time is reckoned from: the retry time is never below it.
RetryTime(t) ==
    IF hasAttemptsRemaining(call[t].row.attempt + 1) THEN call[t].retryAt ELSE None

Failed(row, t) ==
    [row EXCEPT !.attempt = Incremented(row.attempt),
                !.leasedBy = None, !.leaseUntil = RetryTime(t)]

FailRun(t) ==
    LET r == call[t].run IN
    /\ pc[t] = "fail"
    /\ runs' = [runs EXCEPT ![r] = Failed(runs[r], t)]
    /\ Goto(t, IfDraft(t, "failDraft", "auditFail"))
    /\ UNCHANGED <<now, faultVars, created, history, draftState, call>>

FailDraft(t) ==
    /\ pc[t] = "failDraft"
    /\ setDraftState(t, "FAILED")
    /\ Goto(t, "auditFail")
    /\ UNCHANGED <<now, faultVars, created, runs, history, call>>

AuditFail(t) ==
    /\ pc[t] = "auditFail"
    /\ Audit(t, "workflow.failure", None, None)
    /\ Advanced(t)
    /\ UNCHANGED <<now, faultVars, created, runs, log, reports, draftState>>

-----------------------------------------------------------------------------
(* recordNoPublish: takes no lease and never updates the run *)

NoPublishBegin(t, r, actor) ==
    /\ pc[t] = "idle"
    /\ r \in created
    /\ assertTransition(runs[r].state, "NO_PUBLISH", actor)
    /\ Goto(t, "report")
    /\ Remember(t, [IdleCall EXCEPT !.run = r, !.row = runs[r]])
    /\ UNCHANGED <<now, faultVars, created, runs, history, draftState>>

NoPublishReport(t) ==
    /\ pc[t] = "report"
    /\ reports' = reports \cup {call[t].run}
    /\ Goto(t, IfDraft(t, "reportDraft", "auditReport"))
    /\ UNCHANGED <<now, faultVars, created, runs, log, audit, draftState, call>>

NoPublishDraft(t) ==
    /\ pc[t] = "reportDraft"
    /\ setDraftState(t, "NO_PUBLISH")
    /\ Goto(t, "auditReport")
    /\ UNCHANGED <<now, faultVars, created, runs, history, call>>

NoPublishAudit(t) ==
    /\ pc[t] = "auditReport"
    /\ Audit(t, "workflow.no_publish", None, None)
    /\ Return(t)
    /\ UNCHANGED <<now, faultVars, created, runs, log, reports, draftState>>

-----------------------------------------------------------------------------
(* The environment: time, failing database calls, crashing workers *)

\* A call that has asked for the run, or holds it, within its lease time.
InTime(t, time) == pc[t] \in ClaimLabel \cup Holding
                     => time < call[t].nowMs + LEASE_DURATION_MS

Tick ==
    /\ now < MaxNow                                       \* bound: MaxNow
    /\ now' = now + 1
    /\ late' = (late \/ \E t \in Thread : ~InTime(t, now + 1))
    /\ UNCHANGED <<down, faults, created, runs, history, draftState, pc, call>>

\* A database call rejects.  Nothing catches it: the exception leaves advance
\* and recoverAndAdvance; a claim transaction rolls back.
DatabaseError(t) ==
    /\ pc[t] \notin {"idle", "down", "recover", "execute"}
    /\ faults < MaxFaults                                 \* bound: MaxFaults
    /\ faults' = faults + 1
    /\ Return(t)
    /\ UNCHANGED <<now, down, late, created, runs, history, draftState>>

\* A process dies; it comes back, if at all, with a fresh workerId.
Crash(w) ==
    /\ w \notin down
    /\ faults < MaxFaults                                 \* bound: MaxFaults
    /\ faults' = faults + 1
    /\ down' = down \cup {w}
    /\ pc' = [t \in Thread |-> IF WorkerOf[t] = w THEN "down" ELSE pc[t]]
    /\ call' = [t \in Thread |-> IF WorkerOf[t] = w THEN IdleCall ELSE call[t]]
    /\ UNCHANGED <<now, late, created, runs, history, draftState>>

-----------------------------------------------------------------------------

\* The next step of a call that is already under way.
Progress(t) ==
    \/ StartCreate(t) \/ StartAudit(t)
    \/ RecoverNext(t) \/ ClaimRead(t) \/ ReadRefused(t) \/ ClaimWrite(t)
    \/ ExecuteReturns(t) \/ ExecuteThrows(t)
    \/ RecordTransition(t) \/ AdvanceDraft(t) \/ CompleteRun(t) \/ AuditStep(t)
    \/ ReleaseLease(t) \/ AuditReject(t)
    \/ FailRun(t) \/ FailDraft(t) \/ AuditFail(t)
    \/ NoPublishReport(t) \/ NoPublishDraft(t) \/ NoPublishAudit(t)

Begin(t) ==
    \/ \E input \in StartInput : StartFind(t, input)
    \/ RecoverBegin(t)
    \/ \E r \in Run : Advance(t, r)
    \/ \E r \in Run, actor \in TransitionActor : NoPublishBegin(t, r, actor)

Next ==
    \/ \E t \in Thread : Progress(t) \/ Begin(t) \/ DatabaseError(t)
    \/ \E w \in Worker : Crash(w)
    \/ Tick

Spec == Init /\ [][Next]_vars

\* Time passes, calls under way go on (the database queues the waiters of an
\* advisory lock), and somebody keeps asking live workers for recovery.
Fairness ==
    /\ WF_vars(Tick)
    /\ \A t \in Thread : /\ WF_vars(Progress(t))
                         /\ SF_vars(ClaimRead(t))
                         /\ SF_vars(RecoverBegin(t))

LiveSpec == Spec /\ Fairness

=============================================================================
