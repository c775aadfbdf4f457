---------------------------- MODULE EngineProofs ----------------------------
(***************************************************************************)
(* Proofs about the workflow engine, for every set of threads, workers,    *)
(* runs and drafts, every step callback and every value of the policy.     *)
(***************************************************************************)
EXTENDS EngineProperties, TLAPS

-----------------------------------------------------------------------------
(* Type correctness *)

\* What the labels say of a call, beyond its type: a call past its first steps
\* has a run with a row, and a step that was accepted has an outcome.
Unbound == {"idle", "creating", "recover", "down"}
Accepted == {"record", "draft", "complete", "auditStep"}

CallOK ==
    \A t \in Thread :
        /\ pc[t] \notin Unbound => call[t].run \in created
        /\ call[t].todo \subseteq created
        /\ pc[t] \in Accepted => call[t].out \in StepOutcome

TypeInv == TypeOK /\ CallOK

\* The delay of a backoff is a number of milliseconds (policies/scheduling.ts:24-30).
LEMMA BackoffType ==
    ASSUME NEW a \in Nat, a + 1 < MAX_WORKFLOW_ATTEMPTS
    PROVE  backoffMs(a + 1) \in Nat
<1>1. a \in 0..MAX_WORKFLOW_ATTEMPTS
  BY PolicyAssumption
<1>2. 2 ^ a \in Nat
  BY <1>1, BackoffAssumption
<1>3. (a + 1) - 1 = a
  OBVIOUS
<1>. DEFINE p == 2 ^ a
<1>4. BACKOFF_BASE_MS * p \in Nat
  <2>. HIDE DEF p
  <2>1. p \in Nat
    BY <1>2 DEF p
  <2> QED BY <2>1, PolicyAssumption
<1>5. 2 ^ ((a + 1) - 1) = p
  BY <1>3
<1> QED BY <1>4, <1>5, PolicyAssumption DEF backoffMs

\* An idle call and a new row are well typed.
LEMMA IdleType == BlankRun \in RunRow /\ IdleCall \in Call
  BY NoneAssumption DEF BlankRun, NewRun, RunRow, IdleCall, Call, DraftState


\* What a step callback returns names a state and an actor.
LEMMA OutcomeType ==
    \A out \in StepOutcome : out.to \in DraftState /\ out.actor \in TransitionActor
  BY InputAssumption

\* A well-typed value for one thread's label and memory keeps the rest.
LEMMA CallStep ==
    ASSUME TypeInv, NEW t \in Thread, NEW label \in Label, NEW c \in Call,
           Goto(t, label), Remember(t, c),
           created \subseteq created',
           label \notin Unbound => c.run \in created',
           c.todo \subseteq created',
           label \in Accepted => c.out \in StepOutcome
    PROVE  /\ pc' \in [Thread -> Label]
           /\ call' \in [Thread -> Call]
           /\ CallOK'
<1>1. pc' \in [Thread -> Label] /\ call' \in [Thread -> Call]
  BY DEF TypeInv, TypeOK, Goto, Remember
<1>2. ASSUME NEW u \in Thread
      PROVE  /\ pc'[u] \notin Unbound => call'[u].run \in created'
             /\ call'[u].todo \subseteq created'
             /\ pc'[u] \in Accepted => call'[u].out \in StepOutcome
  <2>1. CASE u = t
    BY <2>1 DEF TypeInv, TypeOK, Goto, Remember
  <2>2. CASE u # t
    <3>1. pc'[u] = pc[u] /\ call'[u] = call[u]
      BY <2>2 DEF TypeInv, TypeOK, Goto, Remember
    <3> QED BY <3>1 DEF TypeInv, CallOK
  <2> QED BY <2>1, <2>2
<1> QED BY <1>1, <1>2 DEF CallOK

\* An advance that ends leaves a well-typed call behind.
LEMMA AdvancedStep ==
    ASSUME TypeInv, NEW t \in Thread, Advanced(t), created' = created
    PROVE  /\ pc' \in [Thread -> Label]
           /\ call' \in [Thread -> Call]
           /\ CallOK'
<1>. DEFINE c == [IdleCall EXCEPT !.todo = call[t].todo]
            label == IF call[t].todo = {} THEN "idle" ELSE "recover"
<1>1. c \in Call /\ c.todo = call[t].todo
  BY IdleType DEF TypeInv, TypeOK, Call, IdleCall
<1>2. call[t].todo \subseteq created
  BY DEF TypeInv, CallOK
<1>3. label \in Label /\ label \in Unbound
  BY DEF Label, Unbound
<1>4. label \notin Accepted
  BY DEF Accepted
<1>5. Goto(t, label) /\ Remember(t, c)
  BY DEF Advanced
<1>. HIDE DEF c, label
<1> QED BY <1>1, <1>2, <1>3, <1>4, <1>5, CallStep

LEMMA InitType == Init => TypeInv
<1>. SUFFICES ASSUME Init
              PROVE  TypeInv
  OBVIOUS
<1>1. late \in BOOLEAN
  BY DEF Init
<1>2. /\ now \in Nat /\ down \subseteq Worker /\ faults \in Nat
      /\ created \subseteq Run /\ runs \in [Run -> RunRow]
      /\ log \subseteq Transition /\ reports \subseteq Run
      /\ audit \subseteq AuditEvent /\ draftState \in [Draft -> DraftState]
  BY IdleType DEF Init, DraftState
<1>3. pc \in [Thread -> Label] /\ call \in [Thread -> Call]
  BY IdleType DEF Init, Label
<1>4. CallOK
  BY IdleType DEF Init, CallOK, Unbound, Accepted, ClaimLabel, Holding, IdleCall
<1> QED BY <1>1, <1>2, <1>3, <1>4 DEF TypeInv, TypeOK

\* Every action keeps the types (the labels of WorkflowEngine).
LEMMA NextType == TypeInv /\ [Next]_vars => TypeInv'
<1>. SUFFICES ASSUME TypeInv, [Next]_vars
              PROVE  TypeInv'
  OBVIOUS
<1>. USE DEF TypeInv, TypeOK, CallOK, Unbound, Accepted
<1>1. ASSUME NEW t \in Thread, NEW input \in StartInput, StartFind(t, input)
      PROVE  TypeInv'
  <2>1. NewRun(input) \in RunRow
    BY InputAssumption, NoneAssumption DEF NewRun, RunRow, DraftState
  <2>2. ASSUME NEW r \in created, Goto(t, "auditStart"),
               Remember(t, [IdleCall EXCEPT !.run = r])
        PROVE  TypeInv'
    <3>. DEFINE c == [IdleCall EXCEPT !.run = r]
    <3>1. c \in Call
      BY IdleType DEF Call
    <3>2. c.run = r /\ c.todo = {}
      BY DEF IdleCall
    <3>3. Remember(t, c)
      BY <2>2
    <3>. HIDE DEF c
    <3> QED BY <1>1, <2>2, <3>1, <3>2, <3>3, CallStep
            DEF StartFind, Label, history, faultVars
  <2>3. ASSUME Goto(t, "creating"),
               Remember(t, [IdleCall EXCEPT !.row = NewRun(input)])
        PROVE  TypeInv'
    <3>1. [IdleCall EXCEPT !.row = NewRun(input)] \in Call
      BY <2>1, IdleType DEF Call
    <3>2. [IdleCall EXCEPT !.row = NewRun(input)].todo = {}
      BY DEF IdleCall
    <3> QED BY <1>1, <2>3, <3>1, <3>2, CallStep DEF StartFind, Label, history, faultVars
  <2> QED BY <1>1, <2>2, <2>3 DEF StartFind
<1>2. ASSUME NEW t \in Thread, StartCreate(t)
      PROVE  TypeInv'
  <2>1. CASE Return(t) /\ UNCHANGED <<created, runs>>
    <3>1. IdleCall.todo = {}
      BY DEF IdleCall
    <3> QED BY <1>2, <2>1, <3>1, IdleType, CallStep
            DEF StartCreate, Return, Label, history, faultVars
  <2>2. ASSUME NEW r \in Run \ created,
               created' = created \cup {r},
               runs' = [runs EXCEPT ![r] = call[t].row],
               Goto(t, "auditStart"),
               Remember(t, [IdleCall EXCEPT !.run = r])
        PROVE  TypeInv'
    <3>. DEFINE c == [IdleCall EXCEPT !.run = r]
    <3>1. c \in Call
      BY IdleType DEF Call
    <3>2. c.run = r /\ c.todo = {}
      BY DEF IdleCall
    <3>3. call[t].row \in RunRow
      BY DEF Call
    <3>4. runs' \in [Run -> RunRow]
      BY <2>2, <3>3
    <3>5. Remember(t, c)
      BY <2>2
    <3>. HIDE DEF c
    <3> QED BY <1>2, <2>2, <3>1, <3>2, <3>4, <3>5, CallStep
            DEF StartCreate, Label, history, faultVars
  <2> QED BY <1>2, <2>1, <2>2 DEF StartCreate
<1>3. ASSUME NEW t \in Thread, StartAudit(t)
      PROVE  TypeInv'
  BY <1>3, IdleType
     DEF StartAudit, Audit, Return, AuditEvent, Goto, Remember, Label, Call, IdleCall, history, faultVars
<1>4. ASSUME NEW t \in Thread, RecoverBegin(t)
      PROVE  TypeInv'
  BY <1>4, IdleType
     DEF RecoverBegin, listResumableRuns, Goto, Remember, Label, Call, IdleCall, history, faultVars
<1>5. ASSUME NEW t \in Thread, NEW r \in created, NEW todo \in SUBSET created,
             BeginAdvance(t, r, todo)
      PROVE  TypeInv'
  <2>. DEFINE c == [IdleCall EXCEPT !.run = r, !.nowMs = now, !.todo = todo]
  <2>1. c \in Call
    BY IdleType DEF Call
  <2>2. c.run = r /\ c.todo = todo
    BY DEF IdleCall
  <2>3. Remember(t, c)
    BY <1>5 DEF BeginAdvance
  <2>. HIDE DEF c
  <2> QED BY <1>5, <2>1, <2>2, <2>3, CallStep
          DEF BeginAdvance, Label, ClaimLabel, history, faultVars
<1>6. ASSUME NEW t \in Thread, RecoverNext(t) \/ \E r \in Run : Advance(t, r)
      PROVE  TypeInv'
  BY <1>5, <1>6 DEF RecoverNext, Advance
<1>7. ASSUME NEW t \in Thread, ClaimRead(t)
      PROVE  TypeInv'
  <2>1. CASE Goto(t, "refused") /\ UNCHANGED call
    <3>1. Remember(t, call[t])
      BY <2>1 DEF Remember
    <3> QED BY <1>7, <2>1, <3>1, CallStep
            DEF ClaimRead, Label, Unbound, Accepted, history, faultVars
  <2>2. CASE Goto(t, "locked")
             /\ Remember(t, [call[t] EXCEPT !.row = runs[call[t].run]])
    <3>. DEFINE c == [call[t] EXCEPT !.row = runs[call[t].run]]
    <3>1. call[t].run \in created
      BY <1>7 DEF ClaimRead
    <3>2. c \in Call
      BY <3>1 DEF Call
    <3>3. c.run = call[t].run /\ c.todo = call[t].todo
      BY DEF Call
    <3>4. Remember(t, c)
      BY <2>2
    <3>. HIDE DEF c
    <3> QED BY <1>7, <2>2, <3>1, <3>2, <3>3, <3>4, CallStep
            DEF ClaimRead, Label, ClaimLabel, history, faultVars
  <2> QED BY <1>7, <2>1, <2>2 DEF ClaimRead
<1>8. ASSUME NEW t \in Thread, ClaimWrite(t)
      PROVE  TypeInv'
  <2>. DEFINE r == call[t].run
              row == Leased(runs[r], t)
              c == [call[t] EXCEPT !.row = row]
  <2>1. r \in created
    BY <1>8 DEF ClaimWrite
  <2>2. row \in RunRow
    <3>1. WorkerOf[t] \in Worker
      BY WorkerOfAssumption
    <3>2. call[t].nowMs + LEASE_DURATION_MS \in Nat
      BY PolicyAssumption DEF Call
    <3>3. runs[r] \in RunRow
      BY <2>1
    <3>. HIDE DEF r
    <3> QED BY <3>1, <3>2, <3>3 DEF Leased, RunRow
  <2>3. CASE /\ runs' = [runs EXCEPT ![r] = row]
             /\ Goto(t, IF hasAttemptsRemaining(row.attempt)
                          THEN "execute" ELSE "fail")
             /\ Remember(t, c)
    <3>1. c \in Call /\ c.run = r /\ c.todo = call[t].todo
      BY <2>2 DEF Call
    <3>2. runs' \in [Run -> RunRow]
      BY <2>2, <2>3
    <3>. DEFINE label == IF hasAttemptsRemaining(row.attempt)
                           THEN "execute" ELSE "fail"
    <3>3. label \in Label /\ label \notin Accepted
      BY DEF Label, Holding
    <3>4. Goto(t, label) /\ Remember(t, c)
      BY <2>3
    <3>5. UNCHANGED <<now, faultVars, created, history, draftState>>
      BY <1>8 DEF ClaimWrite
    <3>. HIDE DEF label, c, row, r
    <3>6. c.run \in created' /\ c.todo \subseteq created'
      BY <2>1, <3>1, <3>5
    <3>7. pc' \in [Thread -> Label] /\ call' \in [Thread -> Call] /\ CallOK'
      BY <3>1, <3>3, <3>4, <3>5, <3>6, CallStep
    <3> QED BY <3>2, <3>5, <3>7 DEF history, faultVars
  <2>4. CASE Return(t) /\ UNCHANGED runs
    <3>1. IdleCall.todo = {}
      BY DEF IdleCall
    <3> QED BY <1>8, <2>4, <3>1, IdleType, CallStep
            DEF ClaimWrite, Return, Label, history, faultVars
  <2> QED BY <1>8, <2>3, <2>4 DEF ClaimWrite
<1>9. ASSUME NEW t \in Thread, ExecuteReturns(t)
      PROVE  TypeInv'
  BY <1>9, IdleType
     DEF ExecuteReturns, Holding, Goto, Remember, Label, Call, IdleCall, history, faultVars
<1>10. ASSUME NEW t \in Thread, ExecuteThrows(t)
      PROVE  TypeInv'
  BY <1>10, IdleType, BackoffType
     DEF ExecuteThrows, Holding, hasAttemptsRemaining, RunRow, Goto, Remember, Label, Call, IdleCall, history, faultVars
<1>11. ASSUME NEW t \in Thread, RecordTransition(t)
      PROVE  TypeInv'
  BY <1>11, IdleType, InputAssumption
     DEF RecordTransition, IfDraft, Holding, Transition, RunRow, Goto, Remember, Label, Call, IdleCall, history, faultVars
<1>12. ASSUME NEW t \in Thread, AdvanceDraft(t)
       PROVE  TypeInv'
  <2>1. call[t].out.to \in DraftState
    BY <1>12, OutcomeType DEF AdvanceDraft
  <2>2. draftState' \in [Draft -> DraftState]
    BY <1>12, <2>1 DEF AdvanceDraft, setDraftState
  <2>3. Remember(t, call[t])
    BY <1>12 DEF AdvanceDraft, Remember
  <2> QED BY <1>12, <2>2, <2>3, CallStep
          DEF AdvanceDraft, Label, Holding, history, faultVars
<1>13. ASSUME NEW t \in Thread, CompleteRun(t)
      PROVE  TypeInv'
  <2>1. call[t].out.to \in DraftState /\ call[t].run \in created
    BY <1>13, OutcomeType DEF CompleteRun
  <2>2. runs' \in [Run -> RunRow]
    <3>1. [runs[call[t].run] EXCEPT !.state = call[t].out.to,
                                    !.leasedBy = None, !.leaseUntil = None] \in RunRow
      <4>1. runs[call[t].run] \in RunRow
        BY <2>1
      <4> QED BY <2>1, <4>1 DEF RunRow
    <3> QED BY <1>13, <3>1 DEF CompleteRun
  <2>3. Remember(t, call[t])
    BY <1>13 DEF CompleteRun, Remember
  <2> QED BY <1>13, <2>1, <2>2, <2>3, CallStep
          DEF CompleteRun, Label, Holding, history, faultVars
<1>14. ASSUME NEW t \in Thread, AuditStep(t)
       PROVE  TypeInv'
  <2>1. call[t].run \in Run /\ call[t].row.state \in DraftState
        /\ call[t].out.to \in DraftState
    BY <1>14, OutcomeType DEF AuditStep, Call, RunRow
  <2>2. audit' \subseteq AuditEvent
    BY <1>14, <2>1 DEF AuditStep, Audit, AuditEvent
  <2> QED BY <1>14, <2>2, AdvancedStep DEF AuditStep, faultVars
<1>15. ASSUME NEW t \in Thread, ReleaseLease(t)
      PROVE  TypeInv'
  <2>1. call[t].run \in created
    BY <1>15 DEF ReleaseLease
  <2>2. runs' \in [Run -> RunRow]
    <3>1. [runs[call[t].run] EXCEPT !.leasedBy = None, !.leaseUntil = None] \in RunRow
      <4>1. runs[call[t].run] \in RunRow
        BY <2>1
      <4> QED BY <4>1 DEF RunRow
    <3> QED BY <1>15, <3>1 DEF ReleaseLease
  <2>3. Remember(t, call[t])
    BY <1>15 DEF ReleaseLease, Remember
  <2> QED BY <1>15, <2>1, <2>2, <2>3, CallStep
          DEF ReleaseLease, Label, Holding, history, faultVars
<1>16. ASSUME NEW t \in Thread, AuditReject(t) \/ ReadRefused(t)
      PROVE  TypeInv'
  BY <1>16, AdvancedStep DEF AuditReject, ReadRefused, Audit, AuditEvent, Call, history, faultVars
<1>17. ASSUME NEW t \in Thread, FailRun(t)
       PROVE  TypeInv'
  <2>1. RetryTime(t) \in Nat \cup {None}
    BY DEF RetryTime, Call
  <2>2. call[t].run \in created
    BY <1>17 DEF FailRun
  <2>3. Incremented(runs[call[t].run].attempt) \in Nat
    BY <2>2 DEF Incremented, RunRow
  <2>4. Failed(runs[call[t].run], t) \in RunRow
    <3>1. runs[call[t].run] \in RunRow
      BY <2>2
    <3> QED BY <3>1, <2>1, <2>3 DEF Failed, RunRow
  <2>5. Remember(t, call[t])
    BY <1>17 DEF FailRun, Remember
  <2> QED BY <1>17, <2>2, <2>4, <2>5, CallStep
          DEF FailRun, IfDraft, Label, history, faultVars
<1>18. ASSUME NEW t \in Thread, FailDraft(t)
      PROVE  TypeInv'
  BY <1>18, IdleType
     DEF FailDraft, setDraftState, Holding, DraftState, Goto, Remember, Label, Call, IdleCall, history, faultVars
<1>19. ASSUME NEW t \in Thread, AuditFail(t)
      PROVE  TypeInv'
  BY <1>19, AdvancedStep DEF AuditFail, Audit, AuditEvent, Call, faultVars
<1>20. ASSUME NEW t \in Thread, NEW r \in Run, NEW a \in TransitionActor, NoPublishBegin(t, r, a)
      PROVE  TypeInv'
  BY <1>20, IdleType
     DEF NoPublishBegin, Goto, Remember, Label, Call, IdleCall, history, faultVars
<1>21. ASSUME NEW t \in Thread, NoPublishReport(t)
      PROVE  TypeInv'
  BY <1>21, IdleType
     DEF NoPublishReport, IfDraft, Goto, Remember, Label, Call, IdleCall, history, faultVars
<1>22. ASSUME NEW t \in Thread, NoPublishDraft(t)
      PROVE  TypeInv'
  BY <1>22, IdleType
     DEF NoPublishDraft, setDraftState, DraftState, Goto, Remember, Label, Call, IdleCall, history, faultVars
<1>23. ASSUME NEW t \in Thread, NoPublishAudit(t)
      PROVE  TypeInv'
  BY <1>23, IdleType
     DEF NoPublishAudit, Audit, Return, AuditEvent, Goto, Remember, Label, Call, IdleCall, history, faultVars
<1>24. ASSUME NEW t \in Thread, DatabaseError(t)
      PROVE  TypeInv'
  BY <1>24, IdleType
     DEF DatabaseError, Return, Goto, Remember, Label, Call, IdleCall, history, faultVars
<1>25. ASSUME NEW w \in Worker, Crash(w)
      PROVE  TypeInv'
  BY <1>25, IdleType DEF Crash, Label, Call, IdleCall, history
<1>26. CASE Tick
  BY <1>26 DEF Tick, history, faultVars
<1>27. CASE UNCHANGED vars
  BY <1>27 DEF vars, history, faultVars
<1> QED
  BY <1>1, <1>2, <1>3, <1>4, <1>5, <1>6, <1>7, <1>8, <1>9, <1>10, <1>11, <1>12, <1>13, <1>14, <1>15, <1>16, <1>17, <1>18, <1>19, <1>20, <1>21, <1>22, <1>23, <1>24, <1>25, <1>26, <1>27
     DEF Next, Progress, Begin

\* Every reachable state is well typed, and every call past its first steps works
\* on a run that has a row (WorkflowEngine, all actions).
THEOREM TypeCorrect == Spec => []TypeInv
<1>1. TypeInv /\ [Next]_vars => TypeInv'
  BY NextType
<1> QED BY InitType, <1>1, PTL DEF Spec

\* Every reachable state is well typed (all actions of WorkflowEngine).
THEOREM TypeSafe == Spec => []TypeOK
<1>1. TypeInv => TypeOK
  BY DEF TypeInv
<1> QED BY TypeCorrect, <1>1, PTL

-----------------------------------------------------------------------------
(* The human gate, the reach of the scheduler and the history of a run        *)
(*                                                                           *)
(* A state is justified for a run when the transition log explains it.  The   *)
(* log only grows, so a justification never lapses: that is why a worker that *)
(* writes a stale state, long after its lease, still writes a justified one.  *)

Reach == {"RESEARCHING", "IDEA_READY", "DRAFTING", "NO_PUBLISH"}

SchedulerOnly(r) == \A e \in log : e.run = r => e.actor = "SCHEDULER"

Explained(r, state) ==
    state # "RESEARCHING" => \E e \in log : e.run = r /\ e.to = state

Justified(r, state) ==
    /\ GateOpen(r, state)
    /\ SchedulerOnly(r) => state \in Reach
    /\ Explained(r, state)

CallJustified(t) ==
    /\ pc[t] \in Holding => Justified(call[t].run, call[t].row.state)
    /\ pc[t] = "record" => assertPublishAuthority(call[t].row.state,
                              call[t].out.to, call[t].out.actor)
    /\ pc[t] \in {"draft", "complete"} => Justified(call[t].run, call[t].out.to)
    /\ pc[t] = "creating" => call[t].row.state = "RESEARCHING"

JustifiedInv ==
    /\ \A r \in Run : Justified(r, runs[r].state)
    /\ \A t \in Thread : CallJustified(t)
    /\ \A e \in log : Explained(e.run, e.from)

\* The rows of the table, grouped by what the proofs tell apart
\* (lifecycle.ts:38-195).
LEMMA TableRows ==
    ASSUME NEW e \in LIFECYCLE_TRANSITIONS
    PROVE  \/ e.from \in {"RESEARCHING", "IDEA_READY"} /\ e.to \in Reach
           \/ e.from = "AWAITING_APPROVAL" /\ e.to \in {"APPROVED", "REJECTED"}
              /\ e.actors = {"AUTHOR"}
           \/ e.from = "APPROVED" /\ e.to \in {"PUBLISHING", "NO_PUBLISH"}
              /\ e.actors = {"AUTHOR"}
           \/ e.from = "PUBLISHING" /\ e.to \in {"PUBLISHED", "FAILED"}
              /\ "SCHEDULER" \notin e.actors
           \/ e.from = "FAILED" /\ e.to = "PUBLISHING" /\ e.actors = AuthorOrAgent
           \/ e.to \in {"DRAFT_READY", "AWAITING_APPROVAL", "DISCARDED",
                        "DRAFTING", "NO_PUBLISH"} /\ e.actors = AuthorOrAgent
<1>. DEFINE planner == AuthorOrAgent \cup {"SCHEDULER"}
            publisher == AuthorOrAgent \cup {"SYSTEM"}
<1>1. \/ e \in Edges("RESEARCHING", {"IDEA_READY", "NO_PUBLISH"}, planner, FALSE)
      \/ e \in Edges("IDEA_READY", {"DRAFTING", "NO_PUBLISH"}, planner, FALSE)
      \/ e \in Edges("DRAFTING", {"DRAFT_READY", "DISCARDED"}, AuthorOrAgent, FALSE)
      \/ e \in Edges("DRAFT_READY",
                     {"AWAITING_APPROVAL", "DISCARDED", "NO_PUBLISH"},
                     AuthorOrAgent, FALSE)
      \/ e \in Edges("AWAITING_APPROVAL", {"APPROVED", "REJECTED"}, {"AUTHOR"}, FALSE)
      \/ e \in Edges("AWAITING_APPROVAL", {"DRAFTING", "DISCARDED", "NO_PUBLISH"},
                     AuthorOrAgent, FALSE)
      \/ e \in Edges("REJECTED", {"DRAFTING", "DISCARDED"}, AuthorOrAgent, FALSE)
      \/ e \in Edges("APPROVED", {"DRAFTING", "DISCARDED"}, AuthorOrAgent, FALSE)
      \/ e \in Edges("APPROVED", {"PUBLISHING"}, {"AUTHOR"}, TRUE)
      \/ e \in Edges("APPROVED", {"NO_PUBLISH"}, {"AUTHOR"}, FALSE)
      \/ e \in Edges("PUBLISHING", {"PUBLISHED"}, publisher, TRUE)
      \/ e \in Edges("PUBLISHING", {"FAILED"}, publisher, FALSE)
      \/ e \in Edges("FAILED", {"PUBLISHING"}, AuthorOrAgent, TRUE)
      \/ e \in Edges("FAILED", {"DRAFTING", "DISCARDED"}, AuthorOrAgent, FALSE)
  BY DEF LIFECYCLE_TRANSITIONS
<1>2. "SCHEDULER" \notin publisher
  BY DEF AuthorOrAgent
<1>. HIDE DEF planner, publisher
<1> QED BY <1>1, <1>2 DEF Edges, Reach

\* What the table says of the edges into the states behind the gates, and of the
\* scheduler's edges (lifecycle.ts:38-195, 253-265).
LEMMA GateEdges ==
    ASSUME NEW from, NEW to, NEW actor, assertPublishAuthority(from, to, actor)
    PROVE  /\ to = "APPROVED" => from = "AWAITING_APPROVAL" /\ actor = "AUTHOR"
           /\ to = "PUBLISHING" => \/ from = "APPROVED" /\ actor = "AUTHOR"
                                  \/ from = "FAILED"
           /\ to \in {"PUBLISHED", "FAILED"} => from = "PUBLISHING"
           /\ actor = "SCHEDULER" /\ from \in Reach => to \in Reach
<1>1. PICK e \in LIFECYCLE_TRANSITIONS :
             e.from = from /\ e.to = to /\ actor \in e.actors
  BY DEF assertPublishAuthority, assertTransition, canTransition, findTransition
<1> QED BY <1>1, TableRows DEF AuthorOrAgent, Reach

\* A justification outlives every growth of the log.
LEMMA JustifiedForever ==
    ASSUME NEW r, NEW state, Justified(r, state), log \subseteq log'
    PROVE  Justified(r, state)'
  BY DEF Justified, GateOpen, HumanApproved, HumanReleased, SchedulerOnly, Explained

\* A transition the boundary let through, once logged, justifies its target.
LEMMA JustifiedStep ==
    ASSUME NEW r \in Run, NEW from, NEW to, NEW actor,
           assertPublishAuthority(from, to, actor),
           Justified(r, from),
           log' = log \cup {[run |-> r, from |-> from, to |-> to, actor |-> actor]}
    PROVE  Justified(r, to)'
<1>1. GateOpen(r, to)'
  BY GateEdges DEF Justified, GateOpen, HumanApproved, HumanReleased
<1>. DEFINE e == [run |-> r, from |-> from, to |-> to, actor |-> actor]
<1>0. e \in log' /\ e.run = r /\ e.to = to /\ e.actor = actor
  OBVIOUS
<1>2. ASSUME SchedulerOnly(r)'
      PROVE  to \in Reach
  <2>1. actor = "SCHEDULER"
    BY <1>0, <1>2 DEF SchedulerOnly
  <2>2. SchedulerOnly(r)
    BY <1>2 DEF SchedulerOnly
  <2> QED BY <2>1, <2>2, GateEdges DEF Justified
<1>3. Explained(r, to)'
  <2>. HIDE DEF e
  <2> QED BY <1>0 DEF Explained
<1> QED BY <1>1, <1>2, <1>3 DEF Justified

\* What one thread's step has to show.
LEMMA JustifiedFrame ==
    ASSUME JustifiedInv, NEW t \in Thread, log \subseteq log',
           \A u \in Thread \ {t} : pc'[u] = pc[u] /\ call'[u] = call[u],
           \A r \in Run : Justified(r, runs[r].state)',
           CallJustified(t)',
           \A e \in log' : e \in log \/ Explained(e.run, e.from)'
    PROVE  JustifiedInv'
<1>1. ASSUME NEW u \in Thread
      PROVE  CallJustified(u)'
  <2>1. CASE u = t
    BY <2>1
  <2>2. CASE u # t
    <3>1. pc'[u] = pc[u] /\ call'[u] = call[u]
      BY <2>2
    <3>2. CallJustified(u)
      BY DEF JustifiedInv
    <3> QED BY <3>1, <3>2, JustifiedForever DEF CallJustified
  <2> QED BY <2>1, <2>2
<1>2. ASSUME NEW e \in log'
      PROVE  Explained(e.run, e.from)'
  BY DEF JustifiedInv, Explained
<1> QED BY <1>1, <1>2 DEF JustifiedInv

\* The labels that CallJustified asks nothing of.
Elsewhere == Label \ (Holding \cup {"creating"})

\* Runs whose states do not change stay justified.
LEMMA JustifiedRunsKept ==
    ASSUME JustifiedInv, log \subseteq log',
           \A r \in Run : runs'[r].state = runs[r].state
    PROVE  \A r \in Run : Justified(r, runs[r].state)'
  BY JustifiedForever DEF JustifiedInv

\* A step of one thread that changes no state of a run, logs nothing and leaves
\* the thread outside the part of advance that holds the run.
LEMMA JustifiedOutside ==
    ASSUME TypeInv, JustifiedInv, NEW t \in Thread,
           NEW label \in Elsewhere, NEW c,
           Goto(t, label), Remember(t, c),
           log' = log, \A r \in Run : runs'[r].state = runs[r].state
    PROVE  JustifiedInv'
<1>1. pc'[t] = label
  BY DEF TypeInv, TypeOK, Goto, Elsewhere
<1>2. CallJustified(t)'
  BY <1>1 DEF CallJustified, Elsewhere, Holding
<1>3. \A u \in Thread \ {t} : pc'[u] = pc[u] /\ call'[u] = call[u]
  BY DEF TypeInv, TypeOK, Goto, Remember
<1> QED BY <1>2, <1>3, JustifiedRunsKept, JustifiedFrame

\* A step of one thread on the way through advance that changes no state of a run
\* and logs nothing.
LEMMA JustifiedInside ==
    ASSUME TypeInv, JustifiedInv, NEW t \in Thread,
           NEW label \in {"execute", "fail", "release"}, NEW c,
           Goto(t, label), Remember(t, c),
           Justified(c.run, c.row.state)',
           log' = log, \A r \in Run : runs'[r].state = runs[r].state
    PROVE  JustifiedInv'
<1>1. pc'[t] = label /\ call'[t] = c
  BY DEF TypeInv, TypeOK, Goto, Remember
<1>2. CallJustified(t)'
  BY <1>1 DEF CallJustified, Holding
<1>3. \A u \in Thread \ {t} : pc'[u] = pc[u] /\ call'[u] = call[u]
  BY DEF TypeInv, TypeOK, Goto, Remember
<1> QED BY <1>2, <1>3, JustifiedRunsKept, JustifiedFrame

LEMMA InitJustified == Init => JustifiedInv
  BY DEF Init, JustifiedInv, CallJustified, Justified, GateOpen, Explained,
     Holding, Reach, BlankRun, NewRun

\* Every action keeps every run, and every call that holds one, justified.
LEMMA NextJustified == TypeInv /\ JustifiedInv /\ [Next]_vars => JustifiedInv'
<1>. SUFFICES ASSUME TypeInv, JustifiedInv, [Next]_vars
              PROVE  JustifiedInv'
  OBVIOUS
<1>a. ASSUME NEW t \in Thread, Return(t) \/ Advanced(t), log' = log,
             \A r \in Run : runs'[r].state = runs[r].state
      PROVE  JustifiedInv'
  <2>1. {"idle", "recover"} \subseteq Elsewhere
    BY DEF Elsewhere, Label, Holding
  <2>2. PICK label, c : label \in Elsewhere /\ Goto(t, label) /\ Remember(t, c)
    BY <1>a, <2>1 DEF Return, Advanced
  <2> QED BY <1>a, <2>2, JustifiedOutside
<1>b. ASSUME NEW t \in Thread, UNCHANGED <<log, call>>,
             NEW label \in Elsewhere, Goto(t, label),
             \A r \in Run : runs'[r].state = runs[r].state
      PROVE  JustifiedInv'
  <2>1. Remember(t, call[t])
    BY <1>b DEF TypeInv, TypeOK, Remember
  <2> QED BY <1>b, <2>1, JustifiedOutside
<1>1. ASSUME NEW t \in Thread, NEW input \in StartInput, StartFind(t, input)
      PROVE  JustifiedInv'
  <2>1. UNCHANGED <<runs, log>>
    BY <1>1 DEF StartFind, history
  <2>2. ASSUME NEW c, Goto(t, "auditStart"), Remember(t, c)
        PROVE  JustifiedInv'
    <3>1. "auditStart" \in Elsewhere
      BY DEF Elsewhere, Label, Holding
    <3> QED BY <2>1, <2>2, <3>1, JustifiedOutside
  <2>3. CASE Goto(t, "creating")
             /\ Remember(t, [IdleCall EXCEPT !.row = NewRun(input)])
    <3>1. pc'[t] = "creating" /\ call'[t].row.state = "RESEARCHING"
      BY <2>3 DEF TypeInv, TypeOK, Goto, Remember, IdleCall, NewRun
    <3>2. CallJustified(t)'
      BY <3>1 DEF CallJustified, Holding
    <3>3. \A u \in Thread \ {t} : pc'[u] = pc[u] /\ call'[u] = call[u]
      BY <2>3 DEF TypeInv, TypeOK, Goto, Remember
    <3> QED BY <2>1, <3>2, <3>3, JustifiedRunsKept, JustifiedFrame
  <2> QED BY <1>1, <2>2, <2>3 DEF StartFind
<1>2. ASSUME NEW t \in Thread, StartCreate(t)
      PROVE  JustifiedInv'
  <2>1. CASE Return(t) /\ UNCHANGED <<created, runs>>
    BY <1>2, <2>1, <1>a DEF StartCreate, history
  <2>2. ASSUME NEW r \in Run \ created,
               runs' = [runs EXCEPT ![r] = call[t].row],
               Goto(t, "auditStart"),
               Remember(t, [IdleCall EXCEPT !.run = r])
        PROVE  JustifiedInv'
    <3>1. log' = log
      BY <1>2 DEF StartCreate, history
    <3>2. call[t].row.state = "RESEARCHING"
      BY <1>2 DEF StartCreate, JustifiedInv, CallJustified
    <3>3. \A q \in Run : Justified(q, runs[q].state)'
      <4>1. ASSUME NEW q \in Run
            PROVE  Justified(q, runs[q].state)'
        <5>1. CASE q = r
          <6>1. runs'[q].state = "RESEARCHING"
            BY <2>2, <3>2, <5>1 DEF TypeInv, TypeOK
          <6> QED BY <6>1 DEF Justified, GateOpen, Reach, Explained
        <5>2. CASE q # r
          <6>1. runs'[q] = runs[q]
            BY <2>2, <5>2 DEF TypeInv, TypeOK
          <6> QED BY <3>1, <6>1, JustifiedForever DEF JustifiedInv
        <5> QED BY <5>1, <5>2
      <4> QED BY <4>1
    <3>4. pc'[t] = "auditStart"
      BY <2>2 DEF TypeInv, TypeOK, Goto
    <3>5. CallJustified(t)'
      BY <3>4 DEF CallJustified, Holding
    <3>6. \A u \in Thread \ {t} : pc'[u] = pc[u] /\ call'[u] = call[u]
      BY <2>2 DEF TypeInv, TypeOK, Goto, Remember
    <3> QED BY <3>1, <3>3, <3>5, <3>6, JustifiedFrame
  <2> QED BY <1>2, <2>1, <2>2 DEF StartCreate
<1>3. ASSUME NEW t \in Thread, StartAudit(t) \/ NoPublishAudit(t) \/ DatabaseError(t)
      PROVE  JustifiedInv'
  BY <1>3, <1>a DEF StartAudit, NoPublishAudit, DatabaseError, history
<1>4. ASSUME NEW t \in Thread,
             AuditStep(t) \/ AuditReject(t) \/ AuditFail(t) \/ ReadRefused(t)
      PROVE  JustifiedInv'
  BY <1>4, <1>a DEF AuditStep, AuditReject, AuditFail, ReadRefused, history
<1>5. ASSUME NEW t \in Thread,
             RecoverBegin(t) \/ RecoverNext(t) \/ \E r \in Run : Advance(t, r)
      PROVE  JustifiedInv'
  <2>1. {"recover", "claim"} \subseteq Elsewhere
    BY DEF Elsewhere, Label, Holding, ClaimLabel
  <2>2. PICK label, c : label \in Elsewhere /\ Goto(t, label) /\ Remember(t, c)
    BY <1>5, <2>1 DEF RecoverBegin, RecoverNext, Advance, BeginAdvance
  <2>3. UNCHANGED <<runs, log>>
    BY <1>5 DEF RecoverBegin, RecoverNext, Advance, BeginAdvance, history
  <2> QED BY <2>2, <2>3, JustifiedOutside
<1>6. ASSUME NEW t \in Thread, ClaimRead(t)
      PROVE  JustifiedInv'
  <2>1. UNCHANGED <<runs, log>>
    BY <1>6 DEF ClaimRead, history
  <2>2. CASE Goto(t, "refused") /\ UNCHANGED call
    <3>1. "refused" \in Elsewhere
      BY DEF Elsewhere, Label, Holding
    <3> QED BY <2>1, <2>2, <3>1, <1>b
  <2>3. ASSUME NEW c, Goto(t, "locked"), Remember(t, c)
        PROVE  JustifiedInv'
    <3>1. "locked" \in Elsewhere
      BY DEF Elsewhere, Label, Holding, ClaimLabel
    <3> QED BY <2>1, <2>3, <3>1, JustifiedOutside
  <2> QED BY <1>6, <2>2, <2>3 DEF ClaimRead
<1>7. ASSUME NEW t \in Thread, ClaimWrite(t)
      PROVE  JustifiedInv'
  <2>. DEFINE r == call[t].run
              row == Leased(runs[r], t)
              c == [call[t] EXCEPT !.row = row]
  <2>1. log' = log /\ r \in Run
    BY <1>7 DEF ClaimWrite, history, TypeInv, TypeOK, CallOK, Unbound
  <2>2. CASE Return(t) /\ UNCHANGED runs
    BY <2>1, <2>2, <1>a
  <2>3. CASE /\ runs' = [runs EXCEPT ![r] = row]
             /\ Goto(t, IF hasAttemptsRemaining(row.attempt)
                          THEN "execute" ELSE "fail")
             /\ Remember(t, c)
    <3>1. row.state = runs[r].state
      BY <2>1 DEF Leased, TypeInv, TypeOK, RunRow
    <3>2. c.run = r /\ c.row = row
      BY DEF TypeInv, TypeOK, Call
    <3>3. PICK label \in {"execute", "fail"} : Goto(t, label)
      BY <2>3
    <3>4. PICK k : k = c
      OBVIOUS
    <3>. HIDE DEF c, row, r
    <3>5. \A q \in Run : runs'[q].state = runs[q].state
      BY <2>1, <2>3, <3>1 DEF TypeInv, TypeOK
    <3>6. Justified(k.run, k.row.state)
      BY <2>1, <3>1, <3>2, <3>4 DEF JustifiedInv
    <3>7. Justified(k.run, k.row.state)'
      BY <2>1, <3>6, JustifiedForever
    <3> QED BY <2>1, <2>3, <3>3, <3>4, <3>5, <3>7, JustifiedInside
  <2> QED BY <1>7, <2>2, <2>3 DEF ClaimWrite
<1>8. ASSUME NEW t \in Thread, ExecuteReturns(t)
      PROVE  JustifiedInv'
  <2>1. UNCHANGED <<runs, log>>
    BY <1>8 DEF ExecuteReturns, history
  <2>2. PICK out \in StepOutcome :
          /\ Goto(t, IF assertPublishAuthority(call[t].row.state, out.to, out.actor)
                       THEN "record" ELSE "release")
          /\ Remember(t, [call[t] EXCEPT !.out = out])
    BY <1>8 DEF ExecuteReturns
  <2>3. PICK k : k = [call[t] EXCEPT !.out = out]
    OBVIOUS
  <2>4. /\ k.run = call[t].run /\ k.row = call[t].row /\ k.out = out
        /\ call'[t] = k
    BY <2>2, <2>3 DEF TypeInv, TypeOK, Call, Remember
  <2>5. Justified(k.run, k.row.state)
    BY <1>8, <2>4 DEF ExecuteReturns, JustifiedInv, CallJustified, Holding
  <2>6. Justified(k.run, k.row.state)'
    BY <2>1, <2>5, JustifiedForever
  <2>7. CASE ~assertPublishAuthority(call[t].row.state, out.to, out.actor)
    BY <2>1, <2>2, <2>3, <2>6, <2>7, JustifiedInside
  <2>8. CASE assertPublishAuthority(call[t].row.state, out.to, out.actor)
    <3>1. pc'[t] = "record"
      BY <2>2, <2>8 DEF TypeInv, TypeOK, Goto
    <3>2. CallJustified(t)'
      BY <3>1, <2>4, <2>6, <2>8 DEF CallJustified
    <3>3. \A u \in Thread \ {t} : pc'[u] = pc[u] /\ call'[u] = call[u]
      BY <2>2 DEF TypeInv, TypeOK, Goto, Remember
    <3> QED BY <2>1, <3>2, <3>3, JustifiedRunsKept, JustifiedFrame
  <2> QED BY <2>7, <2>8
<1>9. ASSUME NEW t \in Thread, ExecuteThrows(t)
      PROVE  JustifiedInv'
  <2>1. UNCHANGED <<runs, log>>
    BY <1>9 DEF ExecuteThrows, history
  <2>2. PICK k : /\ Goto(t, "fail") /\ Remember(t, k)
                 /\ k.run = call[t].run /\ k.row = call[t].row
    BY <1>9 DEF ExecuteThrows, TypeInv, TypeOK, Call
  <2>3. Justified(k.run, k.row.state)
    BY <1>9, <2>2 DEF ExecuteThrows, JustifiedInv, CallJustified, Holding
  <2>4. Justified(k.run, k.row.state)'
    BY <2>1, <2>3, JustifiedForever
  <2> QED BY <2>1, <2>2, <2>4, JustifiedInside
<1>10. ASSUME NEW t \in Thread, RecordTransition(t)
       PROVE  JustifiedInv'
  <2>1. PICK r, from, to, actor :
          /\ r = call[t].run /\ from = call[t].row.state
          /\ to = call[t].out.to /\ actor = call[t].out.actor
    OBVIOUS
  <2>2. /\ r \in Run
        /\ UNCHANGED <<runs, call>>
        /\ log' = log \cup {[run |-> r, from |-> from, to |-> to, actor |-> actor]}
    BY <1>10, <2>1 DEF RecordTransition, TypeInv, TypeOK, CallOK, Unbound
  <2>3. pc' = [pc EXCEPT ![t] = "draft"] \/ pc' = [pc EXCEPT ![t] = "complete"]
    BY <1>10 DEF RecordTransition, IfDraft, Goto
  <2>4. Justified(r, from) /\ assertPublishAuthority(from, to, actor)
    BY <1>10, <2>1 DEF RecordTransition, JustifiedInv, CallJustified, Holding
  <2>5. Justified(r, to)'
    BY <2>2, <2>4, JustifiedStep
  <2>6. Justified(r, from)'
    BY <2>2, <2>4, JustifiedForever
  <2>7. pc'[t] \in {"draft", "complete"} /\ call'[t] = call[t]
    BY <2>2, <2>3 DEF TypeInv, TypeOK
  <2>8. CallJustified(t)'
    BY <2>1, <2>5, <2>6, <2>7 DEF CallJustified
  <2>9. \A e \in log' : e \in log \/ Explained(e.run, e.from)'
    BY <2>2, <2>6 DEF Justified
  <2>10. \A u \in Thread \ {t} : pc'[u] = pc[u] /\ call'[u] = call[u]
    BY <2>2, <2>3 DEF TypeInv, TypeOK
  <2>11. log \subseteq log'
    BY <2>2
  <2>12. \A q \in Run : Justified(q, runs[q].state)'
    BY <2>2, <2>11, JustifiedRunsKept
  <2> QED BY <2>8, <2>9, <2>10, <2>11, <2>12, JustifiedFrame
<1>11. ASSUME NEW t \in Thread, AdvanceDraft(t)
       PROVE  JustifiedInv'
  <2>1. UNCHANGED <<runs, log, call>> /\ Goto(t, "complete") /\ pc[t] = "draft"
    BY <1>11 DEF AdvanceDraft, history
  <2>2. pc'[t] = "complete"
    BY <2>1 DEF TypeInv, TypeOK, Goto
  <2>3. CallJustified(t)'
    BY <2>1, <2>2, JustifiedForever DEF JustifiedInv, CallJustified, Holding
  <2>4. \A u \in Thread \ {t} : pc'[u] = pc[u] /\ call'[u] = call[u]
    BY <2>1 DEF TypeInv, TypeOK, Goto
  <2> QED BY <2>1, <2>3, <2>4, JustifiedRunsKept, JustifiedFrame
<1>12. ASSUME NEW t \in Thread, CompleteRun(t)
       PROVE  JustifiedInv'
  <2>1. /\ log' = log /\ call' = call /\ Goto(t, "auditStep")
        /\ call[t].run \in Run /\ pc[t] = "complete"
    BY <1>12 DEF CompleteRun, history, TypeInv, TypeOK, CallOK, Unbound
  <2>2. PICK to : to = call[t].out.to
    OBVIOUS
  <2>3. /\ runs'[call[t].run].state = to
        /\ \A q \in Run \ {call[t].run} : runs'[q] = runs[q]
    BY <1>12, <2>1, <2>2 DEF CompleteRun, TypeInv, TypeOK, RunRow
  <2>4. ASSUME NEW q \in Run
        PROVE  Justified(q, runs[q].state)'
    <3>1. CASE q = call[t].run
      <4>1. Justified(q, to)
        BY <2>1, <2>2, <3>1 DEF JustifiedInv, CallJustified
      <4> QED BY <4>1, <2>1, <2>3, <3>1, JustifiedForever
    <3>2. CASE q # call[t].run
      BY <3>2, <2>1, <2>3, JustifiedForever DEF JustifiedInv
    <3> QED BY <3>1, <3>2
  <2>5. pc'[t] = "auditStep"
    BY <2>1 DEF TypeInv, TypeOK, Goto
  <2>6. CallJustified(t)'
    BY <2>5 DEF CallJustified, Holding
  <2>7. \A u \in Thread \ {t} : pc'[u] = pc[u] /\ call'[u] = call[u]
    BY <2>1 DEF TypeInv, TypeOK, Goto
  <2> QED BY <2>1, <2>4, <2>6, <2>7, JustifiedFrame
<1>13. ASSUME NEW t \in Thread, ReleaseLease(t)
       PROVE  JustifiedInv'
  <2>1. "auditReject" \in Elsewhere
    BY DEF Elsewhere, Label, Holding
  <2>2. \A r \in Run : runs'[r].state = runs[r].state
    BY <1>13 DEF ReleaseLease, TypeInv, TypeOK, RunRow
  <2> QED BY <1>13, <2>1, <2>2, <1>b DEF ReleaseLease, history
<1>14. ASSUME NEW t \in Thread, FailRun(t)
       PROVE  JustifiedInv'
  <2>1. {"failDraft", "auditFail"} \subseteq Elsewhere
    BY DEF Elsewhere, Label, Holding
  <2>2. \A r \in Run : runs'[r].state = runs[r].state
    BY <1>14 DEF FailRun, Failed, TypeInv, TypeOK, RunRow
  <2>3. PICK label \in Elsewhere : Goto(t, label)
    BY <1>14, <2>1 DEF FailRun, IfDraft
  <2> QED BY <1>14, <2>2, <2>3, <1>b DEF FailRun, history
<1>15. ASSUME NEW t \in Thread, FailDraft(t) \/ NoPublishReport(t) \/ NoPublishDraft(t)
       PROVE  JustifiedInv'
  <2>1. {"auditFail", "reportDraft", "auditReport"} \subseteq Elsewhere
    BY DEF Elsewhere, Label, Holding
  <2>2. PICK label \in Elsewhere : Goto(t, label)
    BY <1>15, <2>1 DEF FailDraft, NoPublishReport, NoPublishDraft, IfDraft
  <2> QED BY <1>15, <2>2, <1>b DEF FailDraft, NoPublishReport, NoPublishDraft, history
<1>16. ASSUME NEW t \in Thread, NEW r \in Run, NEW actor \in TransitionActor,
              NoPublishBegin(t, r, actor)
       PROVE  JustifiedInv'
  <2>1. "report" \in Elsewhere
    BY DEF Elsewhere, Label, Holding
  <2>2. PICK c : Goto(t, "report") /\ Remember(t, c)
    BY <1>16 DEF NoPublishBegin
  <2> QED BY <1>16, <2>1, <2>2, JustifiedOutside DEF NoPublishBegin, history
<1>17. ASSUME NEW w \in Worker, Crash(w)
       PROVE  JustifiedInv'
  <2>1. UNCHANGED <<runs, log>>
    BY <1>17 DEF Crash, history
  <2>2. ASSUME NEW u \in Thread
        PROVE  CallJustified(u)'
    <3>1. CASE WorkerOf[u] = w
      BY <1>17, <3>1 DEF Crash, CallJustified, Holding
    <3>2. CASE WorkerOf[u] # w
      BY <1>17, <3>2, <2>1, JustifiedForever DEF Crash, CallJustified, JustifiedInv
    <3> QED BY <3>1, <3>2
  <2>3. \A e \in log' : Explained(e.run, e.from)'
    BY <2>1 DEF JustifiedInv, Explained
  <2> QED BY <2>1, <2>2, <2>3, JustifiedRunsKept DEF JustifiedInv
<1>18. CASE Tick \/ UNCHANGED vars
  <2>1. UNCHANGED <<runs, log, pc, call>>
    BY <1>18 DEF Tick, vars, history
  <2>2. \A u \in Thread : CallJustified(u)'
    BY <2>1, JustifiedForever DEF CallJustified, JustifiedInv
  <2>3. \A e \in log' : Explained(e.run, e.from)'
    BY <2>1 DEF JustifiedInv, Explained
  <2> QED BY <2>1, <2>2, <2>3, JustifiedRunsKept DEF JustifiedInv
<1> QED
  BY <1>1, <1>2, <1>3, <1>4, <1>5, <1>6, <1>7, <1>8, <1>9, <1>10, <1>11,
     <1>12, <1>13, <1>14, <1>15, <1>16, <1>17, <1>18
     DEF Next, Progress, Begin

\* In every reachable state the transition log justifies the state of every run,
\* and the state every call is about to write (workflow-engine.ts:203, 224-243).
THEOREM JustifiedAlways == Spec => []JustifiedInv
<1>1. Init => TypeInv /\ JustifiedInv
  BY InitType, InitJustified
<1>2. TypeInv /\ JustifiedInv /\ [Next]_vars => (TypeInv /\ JustifiedInv)'
  BY NextType, NextJustified
<1> QED BY <1>1, <1>2, PTL DEF Spec

\* No run is at or past the approval or the publish boundary without the human
\* transitions in its log, whatever workers, leases, stalls and crashes do.
THEOREM HumanGateHolds == Spec => []HumanGate
<1>1. JustifiedInv => HumanGate
  BY DEF JustifiedInv, Justified, HumanGate
<1> QED BY JustifiedAlways, <1>1, PTL

\* A run moved by the scheduler alone never leaves research and drafting, except
\* to end unpublished (lifecycle.ts:32-37).
THEOREM SchedulerReachHolds == Spec => []SchedulerReach
<1>1. JustifiedInv => SchedulerReach
  BY DEF JustifiedInv, Justified, SchedulerReach, SchedulerOnly, Reach
<1> QED BY JustifiedAlways, <1>1, PTL

\* The log explains every run at every moment, so also after a crash between any
\* two database calls of advance (workflow-engine.ts:224-243).
THEOREM HistoryHolds == Spec => []HistoryExplainsRun
<1>1. TypeInv /\ JustifiedInv => HistoryExplainsRun
  BY DEF JustifiedInv, Justified, HistoryExplainsRun, Explained
<1> QED BY TypeCorrect, JustifiedAlways, <1>1, PTL

-----------------------------------------------------------------------------
(* The engine implements the publish gate *)

\* Only RecordTransition writes the log.
LEMMA LogSteps == [Next]_vars => log' = log \/ \E t \in Thread : RecordTransition(t)
<1>1. ASSUME NEW t \in Thread, Begin(t) PROVE log' = log
  BY <1>1 DEF Begin, StartFind, RecoverBegin, Advance, BeginAdvance, NoPublishBegin, history
<1>2. ASSUME NEW t \in Thread, Progress(t) PROVE log' = log \/ RecordTransition(t)
  BY <1>2 DEF Progress, StartCreate, StartAudit, RecoverNext, BeginAdvance, ClaimRead,
     ReadRefused, ClaimWrite, ExecuteReturns, ExecuteThrows, AdvanceDraft, CompleteRun, AuditStep, ReleaseLease,
     AuditReject, FailRun, FailDraft, AuditFail, NoPublishReport, NoPublishDraft,
     NoPublishAudit, history
<1>3. ASSUME NEW t \in Thread, DatabaseError(t) PROVE log' = log
  BY <1>3 DEF DatabaseError, history
<1>4. CASE Tick \/ (\E w \in Worker : Crash(w)) \/ UNCHANGED vars
  BY <1>4 DEF Crash, Tick, vars, history
<1> QED BY <1>1, <1>2, <1>3, <1>4 DEF Next

\* A logged transition passes at most one gate, and only behind the one before.
LEMMA GateStep ==
    ASSUME NEW r \in Run, NEW from, NEW to, NEW actor,
           assertPublishAuthority(from, to, actor),
           Justified(r, from),
           log' = log \cup {[run |-> r, from |-> from, to |-> to, actor |-> actor]}
    PROVE  [Gates!Next]_(Gates!gates)
<1>. DEFINE e == [run |-> r, from |-> from, to |-> to, actor |-> actor]
            approved == {q \in Run : HumanApproved(q)}
            released == {q \in Run : HumanReleased(q)}
            public == {q \in Run : \E f \in log : f.run = q /\ f.to = "PUBLISHED"}
<1>1. /\ from = "AWAITING_APPROVAL" /\ to = "APPROVED" /\ actor = "AUTHOR"
           => approved' = approved \cup {r}
      /\ ~(from = "AWAITING_APPROVAL" /\ to = "APPROVED" /\ actor = "AUTHOR")
           => approved' = approved
  BY DEF HumanApproved
<1>2. /\ from = "APPROVED" /\ to = "PUBLISHING" /\ actor = "AUTHOR"
           => released' = released \cup {r}
      /\ ~(from = "APPROVED" /\ to = "PUBLISHING" /\ actor = "AUTHOR")
           => released' = released
  BY DEF HumanReleased
<1>3. /\ to = "PUBLISHED" => public' = public \cup {r}
      /\ to # "PUBLISHED" => public' = public
  <2>1. e \in log' /\ e.run = r /\ e.to = to /\ \A f \in log' : f \in log \/ f = e
    OBVIOUS
  <2>2. log \subseteq log'
    OBVIOUS
  <2>. HIDE DEF e
  <2> QED BY <2>1, <2>2
<1>4. from = "APPROVED" => r \in approved
  BY DEF Justified, GateOpen
<1>5. to = "PUBLISHED" => r \in released
  BY GateEdges DEF Justified, GateOpen
<1>. HIDE DEF approved, released, public
<1>6. \/ approved' = approved \cup {r} /\ UNCHANGED <<released, public>>
      \/ r \in approved /\ released' = released \cup {r}
         /\ UNCHANGED <<approved, public>>
      \/ r \in released /\ public' = public \cup {r}
         /\ UNCHANGED <<approved, released>>
      \/ UNCHANGED <<approved, released, public>>
  BY <1>1, <1>2, <1>3, <1>4, <1>5
<1> QED BY <1>6 DEF approved, released, public, Gates!Next, Gates!Approve,
          Gates!Release, Gates!Publish, Gates!gates

\* The engine implements PublishGate: in time, release follows approval and
\* publication follows release, for every run (workflow-engine.ts:203, 224-231).
THEOREM PublishGateImplemented == Spec => ImplementsPublishGate
<1>1. Init => Gates!Init
  BY DEF Init, Gates!Init, HumanApproved, HumanReleased
<1>2. TypeInv /\ JustifiedInv /\ [Next]_vars => [Gates!Next]_(Gates!gates)
  <2>. SUFFICES ASSUME TypeInv, JustifiedInv, [Next]_vars
                PROVE  [Gates!Next]_(Gates!gates)
    OBVIOUS
  <2>1. CASE log' = log
    BY <2>1 DEF Gates!gates, HumanApproved, HumanReleased
  <2>2. ASSUME NEW t \in Thread, RecordTransition(t)
        PROVE  [Gates!Next]_(Gates!gates)
    <3>1. PICK r, from, to, actor :
            /\ r = call[t].run /\ from = call[t].row.state
            /\ to = call[t].out.to /\ actor = call[t].out.actor
      OBVIOUS
    <3>2. /\ r \in Run
          /\ log' = log \cup {[run |-> r, from |-> from, to |-> to, actor |-> actor]}
      BY <2>2, <3>1 DEF RecordTransition, TypeInv, TypeOK, CallOK, Unbound
    <3>3. Justified(r, from) /\ assertPublishAuthority(from, to, actor)
      BY <2>2, <3>1 DEF RecordTransition, JustifiedInv, CallJustified, Holding
    <3> QED BY <3>2, <3>3, GateStep
  <2> QED BY <2>1, <2>2, LogSteps
<1> QED BY <1>1, <1>2, TypeCorrect, JustifiedAlways, PTL
        DEF Spec, ImplementsPublishGate, Gates!Spec

-----------------------------------------------------------------------------
(* How a call moves, and who writes a run                                    *)

AtWork == {"locked"} \cup Holding

Stays(t)  == pc'[t] = pc[t] /\ call'[t] = call[t]
Leaves(t) == pc'[t] \notin ClaimLabel \cup Holding
Asks(t)   == /\ pc[t] \in {"idle", "recover"} /\ pc'[t] = "claim"
             /\ call'[t].nowMs = now /\ UNCHANGED <<now, runs, created, late>>
Works(t)  == /\ pc[t] \in Holding /\ pc'[t] \in Holding
             /\ call'[t].run = call[t].run /\ call'[t].nowMs = call[t].nowMs
             /\ call'[t].row = call[t].row
             /\ UNCHANGED <<now, runs, created, late>>

Steps(t) == Progress(t) \/ Begin(t) \/ DatabaseError(t)

\* A step of one call leaves the others where they are, and the clock alone
\* (WorkflowEngine, all actions of a thread).
LEMMA OthersStay ==
    ASSUME TypeInv, NEW t \in Thread, Steps(t)
    PROVE  /\ \A u \in Thread \ {t} : Stays(u)
           /\ UNCHANGED <<now, late>>
<1>. USE DEF TypeInv, TypeOK, Goto, Remember, Return, Advanced, Stays
<1>1. CASE StartCreate(t) \/ StartAudit(t) \/ RecoverNext(t)
  BY <1>1 DEF StartCreate, StartAudit, RecoverNext, BeginAdvance, faultVars
<1>2. CASE ClaimRead(t) \/ ReadRefused(t) \/ ClaimWrite(t)
  BY <1>2 DEF ClaimRead, ReadRefused, ClaimWrite, faultVars
<1>3. CASE ExecuteReturns(t) \/ ExecuteThrows(t)
  BY <1>3 DEF ExecuteReturns, ExecuteThrows, faultVars
<1>4. CASE RecordTransition(t) \/ AdvanceDraft(t) \/ CompleteRun(t) \/ AuditStep(t)
  BY <1>4 DEF RecordTransition, AdvanceDraft, CompleteRun, AuditStep, faultVars
<1>5. CASE ReleaseLease(t) \/ AuditReject(t) \/ FailRun(t) \/ FailDraft(t) \/ AuditFail(t)
  BY <1>5 DEF ReleaseLease, AuditReject, FailRun, FailDraft, AuditFail, faultVars
<1>6. CASE NoPublishReport(t) \/ NoPublishDraft(t) \/ NoPublishAudit(t)
  BY <1>6 DEF NoPublishReport, NoPublishDraft, NoPublishAudit, faultVars
<1>7. ASSUME NEW input \in StartInput, StartFind(t, input)
      PROVE  /\ \A u \in Thread \ {t} : Stays(u)
             /\ UNCHANGED <<now, late>>
  BY <1>7 DEF StartFind, faultVars
<1>8. CASE RecoverBegin(t) \/ \E r \in Run : Advance(t, r)
  BY <1>8 DEF RecoverBegin, Advance, BeginAdvance, faultVars
<1>9. CASE \E r \in Run, actor \in TransitionActor : NoPublishBegin(t, r, actor)
  BY <1>9 DEF NoPublishBegin, faultVars
<1>10. CASE DatabaseError(t)
  BY <1>10 DEF DatabaseError
<1> QED BY <1>1, <1>2, <1>3, <1>4, <1>5, <1>6, <1>7, <1>8, <1>9, <1>10
        DEF Steps, Progress, Begin

\* A call asks for a run, claims it in two steps, works on it with what it
\* remembers of it, or is done with it (workflow-engine.ts:145-300).
LEMMA MoverMoves ==
    ASSUME TypeInv, NEW t \in Thread, Steps(t)
    PROVE  Leaves(t) \/ Asks(t) \/ ClaimRead(t) \/ ClaimWrite(t) \/ Works(t)
<1>. USE DEF TypeInv, TypeOK, Goto, Remember, Return, Advanced, ClaimLabel, Holding
<1>1. CASE StartCreate(t) \/ StartAudit(t) \/ AuditStep(t) \/ AuditReject(t)
           \/ AuditFail(t) \/ NoPublishAudit(t) \/ DatabaseError(t) \/ ReadRefused(t)
  BY <1>1 DEF Leaves, StartCreate, StartAudit, AuditStep, AuditReject, AuditFail,
     NoPublishAudit, DatabaseError, ReadRefused
<1>2. CASE CompleteRun(t) \/ ReleaseLease(t) \/ FailRun(t) \/ FailDraft(t)
           \/ NoPublishReport(t) \/ NoPublishDraft(t)
  BY <1>2 DEF Leaves, CompleteRun, ReleaseLease, FailRun, FailDraft,
     NoPublishReport, NoPublishDraft, IfDraft
<1>3. ASSUME NEW input \in StartInput, StartFind(t, input)
      PROVE  Leaves(t)
  BY <1>3 DEF Leaves, StartFind
<1>4. CASE RecoverBegin(t)
  BY <1>4 DEF Leaves, RecoverBegin
<1>5. CASE \E r \in Run, actor \in TransitionActor : NoPublishBegin(t, r, actor)
  BY <1>5 DEF Leaves, NoPublishBegin
<1>6. ASSUME NEW r \in Run, NEW todo, BeginAdvance(t, r, todo),
             pc[t] \in {"idle", "recover"}
      PROVE  Asks(t)
  BY <1>6 DEF Asks, BeginAdvance, IdleCall, faultVars
<1>7. CASE RecoverNext(t) \/ \E r \in Run : Advance(t, r)
  BY <1>6, <1>7 DEF RecoverNext, Advance, Call
<1>8. CASE ExecuteReturns(t) \/ ExecuteThrows(t)
  BY <1>8 DEF Works, ExecuteReturns, ExecuteThrows, Call, faultVars
<1>9. CASE RecordTransition(t) \/ AdvanceDraft(t)
  BY <1>9 DEF Works, RecordTransition, AdvanceDraft, IfDraft, faultVars
<1> QED BY <1>1, <1>2, <1>3, <1>4, <1>5, <1>7, <1>8, <1>9
        DEF Steps, Progress, Begin

\* A run changes when it gets its row, when a claim takes it, or when a call gives it
\* back; recordNoPublish never touches it (prisma-workflow-repository.ts:60-245).
LEMMA RunWriters ==
    ASSUME TypeInv, NEW t \in Thread, Steps(t)
    PROVE  \/ UNCHANGED <<runs, created>>
           \/ StartCreate(t)
           \/ /\ ClaimWrite(t) \/ CompleteRun(t) \/ ReleaseLease(t) \/ FailRun(t)
              /\ UNCHANGED created
              /\ \A r \in Run : r # call[t].run => runs'[r] = runs[r]
<1>. USE DEF TypeInv, TypeOK
<1>1. CASE StartAudit(t) \/ RecoverNext(t) \/ ClaimRead(t) \/ ReadRefused(t)
           \/ ExecuteReturns(t) \/ ExecuteThrows(t) \/ RecordTransition(t)
           \/ AdvanceDraft(t) \/ AuditStep(t) \/ AuditReject(t)
           \/ FailDraft(t) \/ AuditFail(t)
           \/ NoPublishReport(t) \/ NoPublishDraft(t) \/ NoPublishAudit(t)
  BY <1>1 DEF StartAudit, RecoverNext, BeginAdvance, ClaimRead, ReadRefused, ExecuteReturns,
     ExecuteThrows, RecordTransition, AdvanceDraft, AuditStep, AuditReject, FailDraft,
     AuditFail, NoPublishReport, NoPublishDraft, NoPublishAudit
<1>2. CASE Begin(t) \/ DatabaseError(t)
  BY <1>2 DEF Begin, StartFind, RecoverBegin, Advance, BeginAdvance, NoPublishBegin,
     DatabaseError
<1>3. CASE ClaimWrite(t) \/ CompleteRun(t) \/ ReleaseLease(t) \/ FailRun(t)
  BY <1>3 DEF ClaimWrite, CompleteRun, ReleaseLease, FailRun
<1> QED BY <1>1, <1>2, <1>3 DEF Steps, Progress

-----------------------------------------------------------------------------
(* The claim                                                                 *)
(*                                                                           *)
(* What a claim has read stays true to the row in one respect: nobody else    *)
(* can take the lease while it holds the advisory lock.                       *)

ClaimOK(t) ==
    /\ pc[t] \in ClaimLabel => call[t].nowMs <= now
    /\ pc[t] = "locked" =>
         /\ ~Refused(call[t].row, call[t].nowMs, WorkerOf[t])
         /\ runs[call[t].run].leasedBy \in {call[t].row.leasedBy, None}

LockExclusive ==
    \A t, u \in Thread :
        (pc[t] = "locked" /\ pc[u] = "locked" /\ call[t].run = call[u].run) => t = u

ClaimInv == LockExclusive /\ \A t \in Thread : ClaimOK(t)

\* What the claim's first step does: it takes the lock and reads the row, or refuses.
LEMMA ClaimReads ==
    ASSUME TypeInv, NEW t \in Thread, ClaimRead(t)
    PROVE  \/ Leaves(t)
           \/ /\ pc[t] = "claim" /\ pc'[t] = "locked" /\ LockFree(call[t].run)
              /\ call'[t].run = call[t].run /\ call'[t].nowMs = call[t].nowMs
              /\ call'[t].row = runs[call[t].run]
              /\ ~Refused(runs[call[t].run], call[t].nowMs, WorkerOf[t])
<1>. USE DEF TypeInv, TypeOK, Goto, Remember, ClaimLabel, Holding
<1>1. CASE Goto(t, "refused")
  BY <1>1 DEF Leaves
<1>2. CASE ~Goto(t, "refused")
  BY <1>2 DEF ClaimRead, Call
<1> QED BY <1>1, <1>2

\* The writers of a run other than a claim leave it without a holder.
LEMMA LeaseGivenBack ==
    ASSUME TypeInv, NEW t \in Thread, NEW r \in Run,
           CompleteRun(t) \/ ReleaseLease(t) \/ FailRun(t)
    PROVE  runs'[r].leasedBy \in {runs[r].leasedBy, None}
<1>1. call[t].run \in Run /\ runs[r] \in RunRow
  BY DEF TypeInv, TypeOK, CallOK, Unbound, CompleteRun, ReleaseLease, FailRun
<1>2. PICK row \in RunRow : row = runs[r]
  BY <1>1
<1>3. runs \in [Run -> RunRow]
  BY DEF TypeInv, TypeOK
<1>4. CASE CompleteRun(t)
  BY <1>1, <1>2, <1>3, <1>4 DEF CompleteRun, RunRow
<1>5. CASE ReleaseLease(t)
  BY <1>1, <1>2, <1>3, <1>5 DEF ReleaseLease, RunRow
<1>6. CASE FailRun(t)
  BY <1>1, <1>2, <1>3, <1>6 DEF FailRun, Failed, RunRow
<1> QED BY <1>4, <1>5, <1>6

LEMMA InitClaim == Init => ClaimInv
  BY DEF Init, ClaimInv, LockExclusive, ClaimOK, ClaimLabel

\* Every action keeps what a claim relies on: the lock is exclusive, and whoever else
\* writes the run can only take the holder away.
LEMMA NextClaim == TypeInv /\ ClaimInv /\ [Next]_vars => ClaimInv'
<1>. SUFFICES ASSUME TypeInv, ClaimInv, [Next]_vars
              PROVE  ClaimInv'
  OBVIOUS
<1>1. ASSUME NEW t \in Thread, Steps(t)
      PROVE  ClaimInv'
  <2>1. \A u \in Thread \ {t} : Stays(u) /\ UNCHANGED <<now, late>>
    BY <1>1, OthersStay
  <2>2. LockExclusive'
    <3>1. CASE pc'[t] # "locked"
      BY <2>1, <3>1 DEF ClaimInv, LockExclusive, Stays
    <3>2. CASE pc'[t] = "locked"
      <4>1. ~Leaves(t) /\ ~Asks(t) /\ ~Works(t)
        BY <3>2 DEF Leaves, Asks, Works, ClaimLabel, Holding
      <4>2. ~ClaimWrite(t)
        BY <3>2 DEF ClaimWrite, Return, Goto, TypeInv, TypeOK
      <4>3. LockFree(call[t].run) /\ call'[t].run = call[t].run
        BY <1>1, <4>1, <4>2, MoverMoves, ClaimReads
      <4> QED BY <2>1, <4>3 DEF LockFree, ClaimInv, LockExclusive, Stays
    <3> QED BY <3>1, <3>2
  <2>3. ClaimOK(t)'
    <3>1. CASE Leaves(t) \/ Works(t)
      BY <3>1 DEF Leaves, Works, ClaimOK, ClaimLabel, Holding
    <3>2. CASE Asks(t)
      BY <3>2 DEF Asks, ClaimOK, TypeInv, TypeOK
    <3>3. CASE ClaimRead(t) /\ ~Leaves(t)
      <4>1. runs' = runs /\ now' = now
        BY <3>3 DEF ClaimRead
      <4> QED BY <3>3, <4>1, ClaimReads DEF ClaimInv, ClaimOK, ClaimLabel
    <3>4. CASE ClaimWrite(t)
      BY <3>4 DEF ClaimWrite, ClaimOK, ClaimLabel, Return, Goto, TypeInv, TypeOK
    <3> QED BY <1>1, <3>1, <3>2, <3>3, <3>4, MoverMoves
  <2>4. ASSUME NEW u \in Thread \ {t}
        PROVE  ClaimOK(u)'
    <3>1. pc'[u] = pc[u] /\ call'[u] = call[u] /\ now' = now
      BY <2>1 DEF Stays
    <3>2. CASE pc[u] = "locked"
      <4>1. call[u].run \in created /\ created \subseteq Run
        BY <3>2 DEF TypeInv, TypeOK, CallOK, Unbound
      <4>2. runs'[call[u].run].leasedBy \in {runs[call[u].run].leasedBy, None}
        <5>1. CASE UNCHANGED <<runs, created>>
          BY <5>1
        <5>2. CASE StartCreate(t)
          BY <4>1, <5>2 DEF StartCreate, TypeInv, TypeOK
        <5>3. CASE ClaimWrite(t)
          <6>1. call[u].run # call[t].run
            BY <5>3, <3>2 DEF ClaimWrite, ClaimInv, LockExclusive
          <6> QED BY <5>3, <6>1, <4>1, <1>1, RunWriters DEF ClaimWrite, TypeInv, TypeOK
        <5>4. CASE CompleteRun(t) \/ ReleaseLease(t) \/ FailRun(t)
          BY <4>1, <5>4, LeaseGivenBack
        <5> QED BY <1>1, <5>1, <5>2, <5>3, <5>4, RunWriters
      <4> QED BY <3>1, <3>2, <4>2 DEF ClaimInv, ClaimOK
    <3>3. CASE pc[u] # "locked"
      BY <3>1, <3>3 DEF ClaimInv, ClaimOK
    <3> QED BY <3>2, <3>3
  <2> QED BY <2>2, <2>3, <2>4 DEF ClaimInv
<1>2. ASSUME NEW w \in Worker, Crash(w)
      PROVE  ClaimInv'
  <2>1. \A u \in Thread : pc'[u] = "down" \/ Stays(u)
    BY <1>2 DEF Crash, Stays
  <2>2. UNCHANGED <<runs, now>>
    BY <1>2 DEF Crash
  <2> QED BY <2>1, <2>2 DEF Stays, ClaimInv, LockExclusive, ClaimOK, ClaimLabel
<1>3. CASE Tick
  <2>1. now' = now + 1 /\ UNCHANGED <<runs, pc, call>>
    BY <1>3 DEF Tick
  <2>2. ASSUME NEW u \in Thread, call[u].nowMs <= now
        PROVE  call[u].nowMs <= now + 1
    BY <2>2 DEF TypeInv, TypeOK, Call
  <2> QED BY <2>1, <2>2 DEF ClaimInv, LockExclusive, ClaimOK
<1>4. CASE UNCHANGED vars
  BY <1>4 DEF vars, ClaimInv, LockExclusive, ClaimOK
<1> QED BY <1>1, <1>2, <1>3, <1>4 DEF Next, Steps

\* In every reachable state a claim that has read its row may still take it: only
\* the where clause of its update can stop it (prisma-workflow-repository.ts:147-165).
THEOREM ClaimAlways == Spec => []ClaimInv
<1>1. Init => TypeInv /\ ClaimInv
  BY InitType, InitClaim
<1>2. TypeInv /\ ClaimInv /\ [Next]_vars => (TypeInv /\ ClaimInv)'
  BY NextType, NextClaim
<1> QED BY <1>1, <1>2, PTL DEF Spec

\* A lease, or the backoff of a failed run, that has time left is taken by nobody but its
\* holder, whatever calls outside the advisory lock do (prisma-workflow-repository.ts:147-165).
THEOREM LeaseWindowHolds == Spec => LeaseWindowRespected
<1>. DEFINE Window(t, r) ==
        (/\ pc[t] = "locked" /\ pc'[t] # "locked" /\ call[t].run = r
         /\ runs'[r] # runs[r] /\ runs[r].leasedBy # WorkerOf[t])
          => \/ Expired(runs[r], now)
             \/ runs[r].leasedBy = None /\ call[t].row.leasedBy = WorkerOf[t]
<1>1. TypeInv /\ ClaimInv /\ [Next]_vars => [\A t \in Thread, r \in Run : Window(t, r)]_vars
  <2>. SUFFICES ASSUME TypeInv, ClaimInv, Next, NEW t \in Thread, NEW r \in Run,
                       pc[t] = "locked", pc'[t] # "locked", call[t].run = r,
                       runs'[r] # runs[r], runs[r].leasedBy # WorkerOf[t]
                PROVE  \/ Expired(runs[r], now)
                       \/ runs[r].leasedBy = None /\ call[t].row.leasedBy = WorkerOf[t]
    BY DEF Window
  <2>1. ~Tick /\ ~(\E w \in Worker : Crash(w))
    BY DEF Tick, Crash
  <2>2. PICK u \in Thread : Steps(u)
    BY <2>1 DEF Next, Steps
  <2>3. u = t
    BY <2>2, OthersStay DEF Stays
  <2>4. ClaimWrite(t) \/ StartCreate(t) \/ CompleteRun(t) \/ ReleaseLease(t) \/ FailRun(t)
    BY <2>2, <2>3, RunWriters
  <2>5. ClaimWrite(t)
    BY <2>4 DEF StartCreate, CompleteRun, ReleaseLease, FailRun
  <2>6. Unmoved(runs[r], call[t].row)
    BY <2>5 DEF ClaimWrite
  <2>7. ~Refused(call[t].row, call[t].nowMs, WorkerOf[t]) /\ call[t].nowMs <= now
        /\ runs[r].leasedBy \in {call[t].row.leasedBy, None}
    BY DEF ClaimInv, ClaimOK, ClaimLabel
  <2>8. CASE Expired(call[t].row, call[t].nowMs)
    <3>1. runs[r].leaseUntil = None \/ runs[r].leaseUntil <= call[t].nowMs
      BY <2>6, <2>8 DEF Unmoved, Expired
    <3>2. runs[r].leaseUntil \in Nat \cup {None} /\ call[t].nowMs \in Nat /\ now \in Nat
      BY DEF TypeInv, TypeOK, RunRow, Call
    <3> QED BY <2>7, <3>1, <3>2 DEF Expired
  <2>9. CASE call[t].row.leasedBy = WorkerOf[t]
    BY <2>7, <2>9
  <2> QED BY <2>7, <2>8, <2>9 DEF Refused
<1> QED BY <1>1, TypeCorrect, ClaimAlways, PTL DEF Spec, LeaseWindowRespected

-----------------------------------------------------------------------------
(* Work under a lease                                                        *)
(*                                                                           *)
(* A lease tells processes apart, not the calls of one process: what the     *)
(* comments promise of it takes a process that makes one call at a time.     *)

OneCallPerWorker == \A t, u \in Thread : WorkerOf[t] = WorkerOf[u] => t = u

\* A call that has asked for a run, or works on it, has lease time left.
Timely(t) ==
    pc[t] \in ClaimLabel \cup Holding =>
        /\ call[t].nowMs <= now
        /\ now < call[t].nowMs + LEASE_DURATION_MS

\* The run a call works on is leased to its worker, and in the state it remembers.
Held(t) ==
    pc[t] \in Holding =>
        /\ runs[call[t].run].leasedBy = WorkerOf[t]
        /\ runs[call[t].run].leaseUntil = call[t].nowMs + LEASE_DURATION_MS
        /\ runs[call[t].run].state = call[t].row.state

Alone ==
    \A t, u \in Thread :
        (pc[t] \in AtWork /\ pc[u] \in AtWork /\ call[t].run = call[u].run) => t = u

LeaseOK == Alone /\ \A t \in Thread : Timely(t) /\ Held(t)

LeaseInv == ~late => LeaseOK

\* While its lease runs, a run that is worked on is refused to every other worker.
LEMMA HeldIsRefused ==
    ASSUME TypeInv, LeaseOK, OneCallPerWorker, NEW t \in Thread, NEW u \in Thread, t # u,
           pc[t] = "claim", pc[u] \in Holding, call[t].run = call[u].run
    PROVE  Refused(runs[call[t].run], call[t].nowMs, WorkerOf[t])
<1>1. /\ runs[call[t].run].leasedBy = WorkerOf[u]
      /\ runs[call[t].run].leaseUntil = call[u].nowMs + LEASE_DURATION_MS
  BY DEF LeaseOK, Held
<1>2. now < call[u].nowMs + LEASE_DURATION_MS /\ call[t].nowMs <= now
  BY DEF LeaseOK, Timely, ClaimLabel
<1>3. /\ call[u].nowMs \in Nat /\ call[t].nowMs \in Nat /\ now \in Nat
      /\ LEASE_DURATION_MS \in Nat /\ None \notin Nat
  BY PolicyAssumption, NoneAssumption DEF TypeInv, TypeOK, Call
<1>4. ~Expired(runs[call[t].run], call[t].nowMs)
  BY <1>1, <1>2, <1>3 DEF Expired
<1>5. WorkerOf[u] # WorkerOf[t]
  BY DEF OneCallPerWorker
<1> QED BY <1>1, <1>4, <1>5 DEF Refused

LEMMA InitLease == Init => LeaseInv
  BY DEF Init, LeaseInv, LeaseOK, Alone, Timely, Held, AtWork, ClaimLabel, Holding

\* What a claim's second step leaves: the run leased to the worker, and its row
\* remembered; or the call is over.
LEMMA ClaimWrites ==
    ASSUME TypeInv, NEW t \in Thread, ClaimWrite(t)
    PROVE  /\ pc[t] = "locked" /\ call[t].run \in created
           /\ \/ Leaves(t) /\ UNCHANGED runs
              \/ /\ pc'[t] \in Holding
                 /\ call'[t].run = call[t].run /\ call'[t].nowMs = call[t].nowMs
                 /\ runs'[call[t].run] = Leased(runs[call[t].run], t)
                 /\ call'[t].row = Leased(runs[call[t].run], t)
<1>. USE DEF TypeInv, TypeOK, Goto, Remember
<1>1. pc[t] = "locked" /\ call[t].run \in created
  BY DEF ClaimWrite, CallOK, Unbound
<1>2. CASE Return(t) /\ UNCHANGED runs
  BY <1>1, <1>2 DEF Return, Leaves, ClaimLabel, Holding
<1>3. CASE ~(Return(t) /\ UNCHANGED runs)
  <2>. DEFINE row == Leased(runs[call[t].run], t)
  <2>1. /\ runs' = [runs EXCEPT ![call[t].run] = row]
        /\ Goto(t, IF hasAttemptsRemaining(row.attempt) THEN "execute" ELSE "fail")
        /\ Remember(t, [call[t] EXCEPT !.row = row])
    BY <1>3 DEF ClaimWrite
  <2>2. call[t] \in Call
    OBVIOUS
  <2>. HIDE DEF row
  <2>3. runs'[call[t].run] = row /\ pc'[t] \in {"execute", "fail"}
    BY <1>1, <2>1
  <2>4. call'[t] = [call[t] EXCEPT !.row = row]
    BY <2>1
  <2>5. call'[t].run = call[t].run /\ call'[t].nowMs = call[t].nowMs /\ call'[t].row = row
    BY <2>2, <2>4 DEF Call
  <2> QED BY <1>1, <2>3, <2>5 DEF row, Holding
<1> QED BY <1>2, <1>3

\* As long as no call is late, at most one call works on a run, and under its own
\* lease: a claim cannot take the run from under it (all actions of a call).
LEMMA StepLease ==
    ASSUME TypeInv, LeaseOK, OneCallPerWorker, NEW t \in Thread, Steps(t)
    PROVE  LeaseOK'
<1>1. \A u \in Thread \ {t} : Stays(u) /\ UNCHANGED <<now, late>>
  BY OthersStay
<1>2. CASE Leaves(t)
  <2>1. Timely(t)' /\ Held(t)'
    BY <1>2 DEF Leaves, Timely, Held
  <2>2. Alone'
    BY <1>1, <1>2 DEF Leaves, Alone, AtWork, LeaseOK, Stays, ClaimLabel
  <2>3. ASSUME NEW u \in Thread \ {t}
        PROVE  Timely(u)' /\ Held(u)'
    <3>1. pc'[u] = pc[u] /\ call'[u] = call[u] /\ now' = now
      BY <1>1 DEF Stays
    <3>2. Timely(u)'
      BY <3>1 DEF LeaseOK, Timely
    <3>3. CASE pc[u] \in Holding
      <4>1. call[u].run \in created /\ created \subseteq Run
        BY <3>3 DEF TypeInv, TypeOK, CallOK, Unbound, Holding
      <4>2. runs'[call[u].run] = runs[call[u].run]
        <5>1. CASE StartCreate(t)
          BY <4>1, <5>1 DEF StartCreate, TypeInv, TypeOK
        <5>2. CASE ClaimWrite(t)
          BY <5>2, <1>2, ClaimWrites DEF Leaves
        <5>3. CASE CompleteRun(t) \/ ReleaseLease(t) \/ FailRun(t)
          <6>1. pc[t] \in Holding
            BY <5>3 DEF CompleteRun, ReleaseLease, FailRun, Holding
          <6>2. call[u].run # call[t].run
            BY <3>3, <6>1 DEF LeaseOK, Alone, AtWork
          <6>3. ~StartCreate(t)
            BY <6>1 DEF StartCreate, Holding
          <6> QED BY <4>1, <6>2, <6>3, RunWriters
        <5> QED BY <5>1, <5>2, <5>3, RunWriters
      <4> QED BY <3>1, <3>2, <3>3, <4>2 DEF LeaseOK, Held
    <3>4. CASE pc[u] \notin Holding
      BY <3>1, <3>2, <3>4 DEF Held
    <3> QED BY <3>3, <3>4
  <2> QED BY <2>1, <2>2, <2>3 DEF LeaseOK
<1>3. CASE Asks(t)
  <2>1. runs' = runs
    BY <1>3 DEF Asks
  <2>2. Alone'
    BY <1>1, <1>3 DEF Asks, Alone, AtWork, Holding, LeaseOK, Stays
  <2>3. Timely(t)' /\ Held(t)'
    BY <1>3, PolicyAssumption DEF Asks, Timely, Held, Holding, TypeInv, TypeOK
  <2>4. \A u \in Thread \ {t} : Timely(u)' /\ Held(u)'
    BY <1>1, <2>1 DEF Stays, LeaseOK, Timely, Held
  <2> QED BY <2>2, <2>3, <2>4 DEF LeaseOK
<1>4. CASE ClaimRead(t) /\ ~Leaves(t)
  <2>1. runs' = runs
    BY <1>4 DEF ClaimRead
  <2>2. /\ pc[t] = "claim" /\ pc'[t] = "locked" /\ LockFree(call[t].run)
        /\ call'[t].run = call[t].run /\ call'[t].nowMs = call[t].nowMs
        /\ ~Refused(runs[call[t].run], call[t].nowMs, WorkerOf[t])
    BY <1>4, ClaimReads
  <2>3. \A u \in Thread \ {t} : pc[u] \in AtWork => call[u].run # call[t].run
    BY <2>2, HeldIsRefused DEF AtWork, LockFree
  <2>4. Alone'
    BY <1>1, <2>2, <2>3 DEF Alone, LeaseOK, Stays
  <2>5. Timely(t)' /\ Held(t)'
    BY <1>4, <2>2 DEF Timely, Held, LeaseOK, ClaimLabel, Holding, ClaimRead
  <2>6. \A u \in Thread \ {t} : Timely(u)' /\ Held(u)'
    BY <1>1, <2>1 DEF Stays, LeaseOK, Timely, Held
  <2> QED BY <2>4, <2>5, <2>6, <1>1 DEF LeaseOK
<1>5. CASE ClaimWrite(t) /\ ~Leaves(t)
  <2>1. /\ pc[t] = "locked" /\ call[t].run \in created /\ pc'[t] \in Holding
        /\ call'[t].run = call[t].run /\ call'[t].nowMs = call[t].nowMs
        /\ runs'[call[t].run] = Leased(runs[call[t].run], t)
        /\ call'[t].row = Leased(runs[call[t].run], t)
    BY <1>5, ClaimWrites
  <2>2. now' = now
    BY <1>5 DEF ClaimWrite
  <2>3. Alone'
    BY <1>1, <2>1 DEF Alone, LeaseOK, Stays, AtWork
  <2>4. Timely(t)'
    BY <2>1, <2>2 DEF LeaseOK, Timely, ClaimLabel
  <2>5. runs[call[t].run] \in RunRow
    BY <2>1 DEF TypeInv, TypeOK
  <2>6. Held(t)'
    BY <2>1, <2>5 DEF Held, Leased, RunRow
  <2>7. ASSUME NEW u \in Thread \ {t}
        PROVE  Timely(u)' /\ Held(u)'
    <3>1. pc'[u] = pc[u] /\ call'[u] = call[u]
      BY <1>1 DEF Stays
    <3>2. pc[u] \in Holding => call[u].run # call[t].run /\ call[u].run \in Run
      BY <2>1 DEF LeaseOK, Alone, AtWork, TypeInv, TypeOK, CallOK, Unbound, Holding
    <3>3. pc[u] \in Holding => runs'[call[u].run] = runs[call[u].run]
      BY <3>2, <1>5 DEF ClaimWrite, TypeInv, TypeOK
    <3> QED BY <2>2, <3>1, <3>3 DEF LeaseOK, Timely, Held
  <2> QED BY <2>3, <2>4, <2>6, <2>7 DEF LeaseOK
<1>6. CASE Works(t)
  <2>1. runs' = runs /\ now' = now
    BY <1>6 DEF Works
  <2>2. Alone'
    BY <1>1, <1>6 DEF Works, Alone, LeaseOK, Stays, AtWork
  <2>3. Timely(t)' /\ Held(t)'
    BY <1>6, <2>1 DEF Works, LeaseOK, Timely, Held
  <2>4. \A u \in Thread \ {t} : Timely(u)' /\ Held(u)'
    BY <1>1, <2>1 DEF Stays, LeaseOK, Timely, Held
  <2> QED BY <2>2, <2>3, <2>4 DEF LeaseOK
<1> QED BY <1>2, <1>3, <1>4, <1>5, <1>6, MoverMoves

\* Time makes a call late, and a crash ends calls; nothing else can disturb a lease.
LEMMA NextLease ==
    ASSUME TypeInv, LeaseInv, OneCallPerWorker, [Next]_vars
    PROVE  LeaseInv'
<1>. SUFFICES ASSUME ~late'
              PROVE  LeaseOK'
  BY DEF LeaseInv
<1>1. ASSUME NEW t \in Thread, Steps(t)
      PROVE  LeaseOK'
  BY <1>1, OthersStay, StepLease DEF LeaseInv
<1>2. ASSUME NEW w \in Worker, Crash(w)
      PROVE  LeaseOK'
  <2>1. \A u \in Thread : pc'[u] = "down" \/ Stays(u)
    BY <1>2 DEF Crash, Stays
  <2>2. UNCHANGED <<runs, now, late>>
    BY <1>2 DEF Crash
  <2>3. LeaseOK
    BY <2>2 DEF LeaseInv
  <2>4. Alone'
    BY <2>1, <2>3 DEF LeaseOK, Alone, Stays, AtWork, Holding
  <2> QED BY <2>1, <2>2, <2>3, <2>4
          DEF Stays, LeaseOK, Timely, Held, ClaimLabel, Holding
<1>3. CASE Tick
  <2>1. now' = now + 1 /\ UNCHANGED <<runs, pc, call>>
    BY <1>3 DEF Tick
  <2>2. ~late /\ \A u \in Thread : InTime(u, now + 1)
    BY <1>3 DEF Tick
  <2>3. LeaseOK
    BY <2>2 DEF LeaseInv
  <2>4. \A u \in Thread : Timely(u)'
    BY <2>1, <2>2, <2>3 DEF InTime, LeaseOK, Timely, TypeInv, TypeOK, Call
  <2> QED BY <2>1, <2>3, <2>4 DEF LeaseOK, Alone, Held
<1>4. CASE UNCHANGED vars
  BY <1>4 DEF vars, faultVars, LeaseInv, LeaseOK, Alone, Timely, Held
<1> QED BY <1>1, <1>2, <1>3, <1>4 DEF Next, Steps

\* As long as no call is late, leases are exclusive (all actions).
THEOREM LeaseAlways ==
    ASSUME OneCallPerWorker
    PROVE  Spec => []LeaseInv
<1>1. Init => TypeInv /\ LeaseInv
  BY InitType, InitLease
<1>2. TypeInv /\ LeaseInv /\ [Next]_vars => (TypeInv /\ LeaseInv)'
  BY NextType, NextLease
<1> QED BY <1>1, <1>2, PTL DEF Spec

\* Two workers are never both at work on one run as long as no call has outlived its
\* lease, if a process makes one call at a time (ports/workflow-repository.ts:128-129).
THEOREM LeaseExclusiveHolds ==
    ASSUME OneCallPerWorker
    PROVE  Spec => []LeaseExclusive
<1>1. LeaseInv => LeaseExclusive
  BY DEF LeaseInv, LeaseOK, Alone, AtWork, LeaseExclusive
<1> QED BY <1>1, LeaseAlways, PTL

-----------------------------------------------------------------------------
(* What a call at work remembers of its run                                  *)

\* The step it is about to log, or has logged, passed the publish boundary; the draft is
\* the run's.
WorkOK(t) ==
    /\ pc[t] \in {"record", "draft", "complete"} =>
         assertPublishAuthority(call[t].row.state, call[t].out.to, call[t].out.actor)
    /\ pc[t] \in Holding => call[t].row.draft = runs[call[t].run].draft

WorkInv ==
    /\ \A t \in Thread : WorkOK(t)
    /\ \A r \in Run \ created : runs[r].state = "RESEARCHING"

\* A step passes the boundary when the callback returns, and is not changed after.
LEMMA StepIsPermitted ==
    ASSUME TypeInv, WorkInv, NEW t \in Thread, Steps(t),
           pc'[t] \in {"record", "draft", "complete"}
    PROVE  assertPublishAuthority(call'[t].row.state, call'[t].out.to, call'[t].out.actor)
<1>. USE DEF TypeInv, TypeOK, Goto, Remember
<1>1. ~Leaves(t) /\ ~Asks(t) /\ ~ClaimRead(t) /\ ~ClaimWrite(t)
  BY DEF Leaves, Asks, ClaimLabel, Holding, ClaimRead, ClaimWrite, Advanced, Return
<1>2. Works(t)
  BY <1>1, MoverMoves
<1>3. CASE pc[t] = "execute"
  <2>1. ~Begin(t) /\ ~DatabaseError(t)
    BY <1>3 DEF Begin, StartFind, RecoverBegin, Advance, NoPublishBegin, DatabaseError
  <2>2. ExecuteReturns(t) \/ ExecuteThrows(t)
    BY <1>3, <2>1 DEF Steps, Progress, StartCreate, StartAudit, RecoverNext, ClaimRead,
       ReadRefused, ClaimWrite, RecordTransition, AdvanceDraft, CompleteRun, AuditStep,
       ReleaseLease, AuditReject, FailRun, FailDraft, AuditFail, NoPublishReport, NoPublishDraft,
       NoPublishAudit
  <2>3. ExecuteReturns(t)
    BY <2>2 DEF ExecuteThrows
  <2>4. PICK out \in StepOutcome :
          /\ Goto(t, IF assertPublishAuthority(call[t].row.state, out.to, out.actor)
                       THEN "record" ELSE "release")
          /\ Remember(t, [call[t] EXCEPT !.out = out])
    BY <2>3 DEF ExecuteReturns
  <2>5. assertPublishAuthority(call[t].row.state, out.to, out.actor)
    BY <2>4
  <2>6. call'[t].row = call[t].row /\ call'[t].out = out
    BY <2>4 DEF Call
  <2> QED BY <2>5, <2>6
<1>4. CASE pc[t] # "execute"
  <2>1. pc[t] \in Holding
    BY <1>2 DEF Works
  <2>2. ~Begin(t) /\ ~DatabaseError(t)
    BY <2>1, <1>2 DEF Works, Begin, StartFind, RecoverBegin, Advance, NoPublishBegin,
       DatabaseError, Return, Holding
  <2>3. RecordTransition(t) \/ AdvanceDraft(t)
    <3>1. ~CompleteRun(t) /\ ~ReleaseLease(t) /\ ~FailRun(t)
      BY <2>1 DEF CompleteRun, ReleaseLease, FailRun, IfDraft
    <3> QED BY <1>4, <2>1, <2>2, <3>1 DEF Steps, Progress, StartCreate, StartAudit,
         RecoverNext, ClaimRead, ReadRefused, ClaimWrite, ExecuteReturns, ExecuteThrows, AuditStep,
         AuditReject, FailDraft, AuditFail, NoPublishReport, NoPublishDraft,
         NoPublishAudit, Holding
  <2>4. call' = call /\ pc[t] \in {"record", "draft"}
    BY <2>3 DEF RecordTransition, AdvanceDraft
  <2> QED BY <2>4 DEF WorkInv, WorkOK
<1> QED BY <1>3, <1>4

\* No write changes the draft of a run that has its row, and only a completed step
\* changes its state (prisma-workflow-repository.ts:60-245).
LEMMA RowsKeep ==
    ASSUME TypeInv, NEW t \in Thread, Steps(t), NEW r \in created
    PROVE  /\ r \in created'
           /\ runs'[r].draft = runs[r].draft
           /\ runs'[r].state = runs[r].state
                \/ /\ CompleteRun(t) /\ call[t].run = r
                   /\ runs'[r].state = call[t].out.to
<1>. USE DEF TypeInv, TypeOK
<1>1. CASE UNCHANGED <<runs, created>>
  BY <1>1
<1>2. CASE StartCreate(t)
  BY <1>2 DEF StartCreate
<1>3. CASE ClaimWrite(t) \/ CompleteRun(t) \/ ReleaseLease(t) \/ FailRun(t)
  <2>1. PICK row \in RunRow : row = runs[r]
    OBVIOUS
  <2>2. created' = created /\ call[t].run \in Run
    BY <1>3 DEF ClaimWrite, CompleteRun, ReleaseLease, FailRun, CallOK, Unbound
  <2>3. CASE ClaimWrite(t)
    <3>1. runs' = runs \/ runs'[call[t].run] = Leased(runs[call[t].run], t)
      BY <2>3, ClaimWrites
    <3>2. \A q \in Run : q # call[t].run => runs'[q] = runs[q]
      BY <2>3, <2>2 DEF ClaimWrite
    <3>3. Leased(row, t).draft = row.draft /\ Leased(row, t).state = row.state
      BY DEF Leased, RunRow
    <3>4. runs'[r] = row \/ runs'[r] = Leased(row, t)
      BY <2>1, <3>1, <3>2
    <3> QED BY <2>1, <2>2, <3>3, <3>4
  <2>4. CASE CompleteRun(t)
    BY <2>1, <2>2, <2>4 DEF CompleteRun, RunRow
  <2>5. CASE ReleaseLease(t)
    BY <2>1, <2>2, <2>5 DEF ReleaseLease, RunRow
  <2>6. CASE FailRun(t)
    BY <2>1, <2>2, <2>6 DEF FailRun, Failed, RunRow
  <2> QED BY <1>3, <2>3, <2>4, <2>5, <2>6
<1> QED BY <1>1, <1>2, <1>3, RunWriters

LEMMA InitWork == Init => WorkInv
  BY DEF Init, WorkInv, WorkOK, Holding, BlankRun, NewRun

\* Rows are new in the state the table begins with, and what a call remembers of its run
\* stays so (all actions).
LEMMA NextWork == TypeInv /\ JustifiedInv /\ WorkInv /\ [Next]_vars => WorkInv'
<1>. SUFFICES ASSUME TypeInv, JustifiedInv, WorkInv, [Next]_vars
              PROVE  WorkInv'
  OBVIOUS
<1>1. ASSUME NEW t \in Thread, Steps(t)
      PROVE  WorkInv'
  <2>1. \A u \in Thread \ {t} : Stays(u)
    BY <1>1, OthersStay
  <2>2. ASSUME NEW u \in Thread, pc[u] \in Holding
        PROVE  call[u].run \in created /\ runs'[call[u].run].draft = runs[call[u].run].draft
    <3>1. call[u].run \in created
      BY <2>2 DEF TypeInv, CallOK, Unbound, Holding
    <3> QED BY <3>1, <1>1, RowsKeep
  <2>3. ASSUME NEW u \in Thread \ {t}
        PROVE  WorkOK(u)'
    BY <2>1, <2>2 DEF Stays, WorkInv, WorkOK
  <2>4. ASSUME pc'[t] \in Holding
        PROVE  call'[t].row.draft = runs'[call'[t].run].draft
    <3>1. ~Leaves(t) /\ ~Asks(t)
      BY <2>4 DEF Leaves, Asks, Holding
    <3>2. ~(ClaimRead(t))
      BY <2>4, <3>1, ClaimReads DEF Holding
    <3>3. CASE Works(t)
      BY <3>3, <2>2 DEF Works, WorkInv, WorkOK
    <3>4. CASE ClaimWrite(t)
      BY <3>1, <3>4, ClaimWrites
    <3> QED BY <1>1, <3>1, <3>2, <3>3, <3>4, MoverMoves
  <2>5. WorkOK(t)'
    BY <1>1, <2>4, StepIsPermitted DEF WorkOK
  <2>6. ASSUME NEW r \in Run \ created'
        PROVE  runs'[r].state = "RESEARCHING"
    <3>1. r \notin created
      BY <1>1, RowsKeep
    <3>2. CASE StartCreate(t)
      BY <2>6, <3>1, <3>2 DEF StartCreate, WorkInv, TypeInv, TypeOK
    <3>3. CASE ClaimWrite(t) \/ CompleteRun(t) \/ ReleaseLease(t) \/ FailRun(t)
      <4>1. call[t].run \in created
        BY <3>3 DEF ClaimWrite, CompleteRun, ReleaseLease, FailRun, TypeInv, CallOK, Unbound
      <4>2. ~StartCreate(t)
        BY <3>3 DEF StartCreate, ClaimWrite, CompleteRun, ReleaseLease, FailRun
      <4> QED BY <1>1, <3>1, <4>1, <4>2, RunWriters DEF WorkInv
    <3> QED BY <1>1, <3>1, <3>2, <3>3, RunWriters DEF WorkInv
  <2> QED BY <2>3, <2>5, <2>6 DEF WorkInv
<1>2. ASSUME NEW w \in Worker, Crash(w)
      PROVE  WorkInv'
  <2>1. \A u \in Thread : pc'[u] = "down" \/ Stays(u)
    BY <1>2 DEF Crash, Stays
  <2>2. UNCHANGED <<runs, created>>
    BY <1>2 DEF Crash
  <2> QED BY <2>1, <2>2 DEF Stays, WorkInv, WorkOK, Holding
<1>3. CASE Tick \/ UNCHANGED vars
  BY <1>3 DEF Tick, vars, WorkInv, WorkOK
<1> QED BY <1>1, <1>2, <1>3 DEF Next, Steps

\* In every reachable state a call at work is about to write a permitted step of its own
\* run's draft (workflow-engine.ts:196-234).
THEOREM WorkAlways == Spec => [](TypeInv /\ JustifiedInv /\ WorkInv)
<1>1. Init => TypeInv /\ JustifiedInv /\ WorkInv
  BY InitType, InitJustified, InitWork
<1>2. TypeInv /\ JustifiedInv /\ WorkInv /\ [Next]_vars => (TypeInv /\ JustifiedInv /\ WorkInv)'
  BY NextType, NextJustified, NextWork
<1> QED BY <1>1, <1>2, PTL DEF Spec

-----------------------------------------------------------------------------
(* Moves under a lease, along the table *)

\* The state of a run that has its row changes by a completed step only.
LEMMA MoveIsCompleted ==
    ASSUME TypeInv, Next, NEW r \in created, runs'[r].state # runs[r].state
    PROVE  \E t \in Thread : /\ CompleteRun(t) /\ call[t].run = r
                             /\ runs'[r].state = call[t].out.to
<1>1. ~Tick /\ ~\E w \in Worker : Crash(w)
  BY DEF Tick, Crash
<1>2. PICK t \in Thread : Steps(t)
  BY <1>1 DEF Next, Steps
<1> QED BY <1>2, RowsKeep

\* A run is only moved by the worker that has it leased, as long as no call is late
\* (workflow-engine.ts:61), if a process makes one call at a time.
THEOREM AdvancedUnderLeaseHolds ==
    ASSUME OneCallPerWorker
    PROVE  Spec => AdvancedUnderLease
<1>1. TypeInv /\ LeaseInv /\ [Next]_vars => [~late => MovedUnderLease]_vars
  <2>. SUFFICES ASSUME TypeInv, LeaseInv, Next, ~late, NEW r \in created,
                       runs'[r].state # runs[r].state
                PROVE  \E t \in Thread : /\ pc'[t] # pc[t]
                                         /\ call[t].run = r
                                         /\ runs[r].leasedBy = WorkerOf[t]
                                         /\ ~Expired(runs[r], now)
    BY DEF MovedUnderLease
  <2>1. PICK t \in Thread : CompleteRun(t) /\ call[t].run = r
    BY MoveIsCompleted
  <2>2. pc[t] = "complete" /\ pc'[t] # pc[t]
    BY <2>1 DEF CompleteRun, Goto, TypeInv, TypeOK
  <2>3. Timely(t) /\ Held(t)
    BY DEF LeaseInv, LeaseOK
  <2>4. /\ runs[r].leasedBy = WorkerOf[t]
        /\ runs[r].leaseUntil = call[t].nowMs + LEASE_DURATION_MS
        /\ now < call[t].nowMs + LEASE_DURATION_MS
    BY <2>1, <2>2, <2>3 DEF Timely, Held, Holding
  <2>5. call[t].nowMs \in Nat /\ now \in Nat /\ LEASE_DURATION_MS \in Nat /\ None \notin Nat
    BY PolicyAssumption, NoneAssumption DEF TypeInv, TypeOK, Call
  <2>6. ~Expired(runs[r], now)
    BY <2>4, <2>5 DEF Expired
  <2> QED BY <2>1, <2>2, <2>4, <2>6
<1> QED BY <1>1, TypeCorrect, LeaseAlways, PTL DEF Spec, AdvancedUnderLease

\* Every run moves along an edge of the lifecycle table or not at all, as long as no
\* call is late (lifecycle.ts:32-37), if a process makes one call at a time.
THEOREM RunFollowsTableHolds ==
    ASSUME OneCallPerWorker
    PROVE  Spec => RunFollowsTable
<1>1. /\ TypeInv /\ JustifiedInv /\ WorkInv /\ LeaseInv /\ [Next]_vars
      => [late \/ Lifecycles!Next \/ UNCHANGED stateOf]_vars
  <2>. SUFFICES ASSUME TypeInv, JustifiedInv, WorkInv, LeaseInv, Next, ~late,
                       stateOf' # stateOf
                PROVE  Lifecycles!Next
    OBVIOUS
  <2>1. PICK r \in Run : runs'[r].state # runs[r].state
    BY DEF stateOf
  <2>2. PICK t \in Thread : Steps(t)
    <3>1. ~Tick /\ ~\E w \in Worker : Crash(w)
      BY <2>1 DEF Tick, Crash
    <3> QED BY <3>1 DEF Next, Steps
  <2>3. r \in created
    <3>. SUFFICES ASSUME r \notin created
                  PROVE  FALSE
      OBVIOUS
    <3>1. runs[r].state = "RESEARCHING"
      BY DEF WorkInv
    <3>2. CASE StartCreate(t)
      <4>1. call[t].row.state = "RESEARCHING"
        BY <3>2 DEF StartCreate, JustifiedInv, CallJustified
      <4> QED BY <2>1, <3>1, <3>2, <4>1 DEF StartCreate, TypeInv, TypeOK
    <3>3. CASE ClaimWrite(t) \/ CompleteRun(t) \/ ReleaseLease(t) \/ FailRun(t)
      <4>1. call[t].run \in created
        BY <3>3 DEF ClaimWrite, CompleteRun, ReleaseLease, FailRun, TypeInv, CallOK, Unbound
      <4>2. ~StartCreate(t)
        BY <3>3 DEF StartCreate, ClaimWrite, CompleteRun, ReleaseLease, FailRun
      <4> QED BY <2>1, <2>2, <4>1, <4>2, RunWriters
    <3> QED BY <2>1, <2>2, <3>2, <3>3, RunWriters
  <2>4. PICK u \in Thread : CompleteRun(u) /\ call[u].run = r
    BY <2>1, <2>3, MoveIsCompleted
  <2>5. pc[u] = "complete" /\ runs[r].state = call[u].row.state
    BY <2>4 DEF CompleteRun, LeaseInv, LeaseOK, Held, Holding
  <2>6. PICK e \in LIFECYCLE_TRANSITIONS : e.from = runs[r].state /\ e.to = call[u].out.to
    BY <2>5 DEF WorkInv, WorkOK, assertPublishAuthority, assertTransition, canTransition,
       findTransition
  <2>7. stateOf' = [stateOf EXCEPT ![r] = e.to]
    BY <2>4, <2>6 DEF CompleteRun, stateOf, TypeInv, TypeOK, RunRow
  <2>8. stateOf[r] = runs[r].state
    BY DEF stateOf
  <2> QED BY <2>6, <2>7, <2>8 DEF Lifecycles!Next, Lifecycles!Move,
        Lifecycles!LIFECYCLE_TRANSITIONS, LIFECYCLE_TRANSITIONS, Lifecycles!Edges, Edges,
        Lifecycles!AuthorOrAgent, AuthorOrAgent
<1> QED BY <1>1, WorkAlways, LeaseAlways, PTL DEF Spec, RunFollowsTable

-----------------------------------------------------------------------------
(* The gate of the draft *)

\* Three actions write the state of a draft, and only an accepted step of a run writes
\* one behind the gate.
LEMMA DraftWriters ==
    ASSUME TypeInv, [Next]_vars, draftState' # draftState
    PROVE  \E t \in Thread :
              /\ Steps(t) /\ UNCHANGED <<runs, created>> /\ log' = log
              /\ \/ AdvanceDraft(t)
                 \/ \A d \in Draft : \/ draftState'[d] = draftState[d]
                                     \/ draftState'[d] \in {"FAILED", "NO_PUBLISH"}
<1>1. ~Tick /\ ~(\E w \in Worker : Crash(w)) /\ ~UNCHANGED vars
  BY DEF Tick, Crash, vars
<1>2. PICK t \in Thread : Steps(t)
  BY <1>1 DEF Next, Steps
<1>3. AdvanceDraft(t) \/ FailDraft(t) \/ NoPublishDraft(t)
  <2>1. ~Begin(t) /\ ~DatabaseError(t)
    BY DEF Begin, StartFind, RecoverBegin, Advance, BeginAdvance, NoPublishBegin,
       DatabaseError
  <2> QED BY <1>2, <2>1 DEF Steps, Progress, StartCreate, StartAudit, RecoverNext,
       BeginAdvance, ClaimRead, ReadRefused, ClaimWrite, ExecuteReturns, ExecuteThrows,
       RecordTransition, CompleteRun, AuditStep, ReleaseLease, AuditReject, FailRun, AuditFail,
       NoPublishReport, NoPublishAudit
<1>4. UNCHANGED <<runs, created>> /\ log' = log
  BY <1>3 DEF AdvanceDraft, FailDraft, NoPublishDraft, history
<1>5. CASE FailDraft(t) \/ NoPublishDraft(t)
  BY <1>2, <1>4, <1>5 DEF FailDraft, NoPublishDraft, setDraftState, TypeInv, TypeOK
<1> QED BY <1>2, <1>3, <1>4, <1>5

LEMMA InitDraftGate == Init => DraftGate
  BY DEF Init, DraftGate

\* The draft moves behind the gate only after its run did in the log, and runs keep
\* their drafts (all actions).
LEMMA NextDraftGate ==
    TypeInv /\ JustifiedInv /\ WorkInv /\ DraftGate /\ [Next]_vars => DraftGate'
<1>. SUFFICES ASSUME TypeInv, JustifiedInv, WorkInv, DraftGate, [Next]_vars
              PROVE  DraftGate'
  OBVIOUS
<1>1. ASSUME NEW d \in Draft, NEW r \in created, runs[r].draft = d, HumanApproved(r)
      PROVE  r \in created' /\ runs'[r].draft = d /\ HumanApproved(r)'
  <2>1. log \subseteq log'
    BY LogSteps DEF RecordTransition, vars, history
  <2>2. HumanApproved(r)'
    BY <1>1, <2>1 DEF HumanApproved
  <2>3. r \in created' /\ runs'[r].draft = runs[r].draft
    <3>1. CASE \E t \in Thread : Steps(t)
      BY <3>1, RowsKeep
    <3>2. CASE Tick \/ (\E w \in Worker : Crash(w)) \/ UNCHANGED vars
      BY <3>2 DEF Tick, Crash, vars
    <3> QED BY <3>1, <3>2 DEF Next, Steps
  <2> QED BY <1>1, <2>2, <2>3
<1>2. CASE draftState' = draftState
  BY <1>1, <1>2 DEF DraftGate
<1>3. CASE draftState' # draftState
  <2>1. PICK t \in Thread :
              /\ Steps(t) /\ UNCHANGED <<runs, created>> /\ log' = log
              /\ \/ AdvanceDraft(t)
                 \/ \A d \in Draft : \/ draftState'[d] = draftState[d]
                                     \/ draftState'[d] \in {"FAILED", "NO_PUBLISH"}
    BY <1>3, DraftWriters
  <2>2. CASE AdvanceDraft(t)
    <3>. SUFFICES ASSUME NEW d \in Draft,
                         draftState'[d] \in {"APPROVED", "PUBLISHING", "PUBLISHED"}
                  PROVE  \E r \in created' : runs'[r].draft = d /\ HumanApproved(r)'
      BY DEF DraftGate
    <3>1. CASE draftState'[d] = draftState[d]
      <4>1. PICK r \in created : runs[r].draft = d /\ HumanApproved(r)
        BY <3>1 DEF DraftGate
      <4> QED BY <4>1, <1>1
    <3>2. CASE draftState'[d] # draftState[d]
      <4>1. pc[t] = "draft" /\ call[t].row.draft = d /\ draftState'[d] = call[t].out.to
        BY <2>2, <3>2 DEF AdvanceDraft, setDraftState, TypeInv, TypeOK
      <4>2. call[t].run \in created /\ runs[call[t].run].draft = d
        BY <4>1 DEF WorkInv, WorkOK, Holding, TypeInv, CallOK, Unbound
      <4>3. HumanApproved(call[t].run)
        BY <4>1 DEF JustifiedInv, CallJustified, Justified, GateOpen
      <4> QED BY <4>2, <4>3, <1>1
    <3> QED BY <3>1, <3>2
  <2>3. CASE \A d \in Draft : \/ draftState'[d] = draftState[d]
                              \/ draftState'[d] \in {"FAILED", "NO_PUBLISH"}
    BY <1>1, <2>3 DEF DraftGate
  <2> QED BY <2>1, <2>2, <2>3
<1> QED BY <1>2, <1>3

\* No draft is approved, publishing or published by the engine unless a human approved a
\* run of it, although the draft is written before the run and in no transaction with it
\* (workflow-engine.ts:232-234).
THEOREM DraftGateHolds == Spec => []DraftGate
<1>1. Init => DraftGate
  BY InitDraftGate
<1>2. TypeInv /\ JustifiedInv /\ WorkInv /\ DraftGate /\ [Next]_vars => DraftGate'
  BY NextDraftGate
<1> QED BY <1>1, <1>2, WorkAlways, PTL DEF Spec

-----------------------------------------------------------------------------
(* Recovery *)

\* A call that is not part of a recovery has no list to lose.
Listless == {"idle", "creating", "auditStart", "report", "reportDraft", "auditReport"}

TodoInv == \A t \in Thread : pc[t] \in Listless => call[t].todo = {}

\* A call carries its list through an advance, and drops it only where it throws.
LEMMA ListKept ==
    ASSUME TypeInv, TodoInv, NEW t \in Thread, Steps(t)
    PROVE  /\ pc'[t] \in Listless => call'[t].todo = {}
           /\ \/ call[t].todo \subseteq call'[t].todo \cup {call'[t].run}
              \/ pc[t] = "locked" \/ faults' # faults
<1>. USE DEF TypeInv, TypeOK, Goto, Remember, Listless
<1>0. IdleCall.todo = {} /\ \A s : [IdleCall EXCEPT !.todo = s].todo = s
  BY DEF IdleCall
<1>1. CASE StartCreate(t) \/ StartAudit(t) \/ NoPublishAudit(t)
  BY <1>0, <1>1 DEF StartCreate, StartAudit, NoPublishAudit, Return, TodoInv, IdleCall
<1>2. CASE RecoverNext(t) \/ \E r \in Run : Advance(t, r)
  <2>1. PICK r \in Run, todo \in SUBSET Run : /\ BeginAdvance(t, r, todo) /\ call[t].todo \subseteq todo \cup {r}
    <3>1. call[t].todo \in SUBSET Run
      BY DEF Call
    <3>2. CASE RecoverNext(t)
      <4>1. PICK r \in call[t].todo : BeginAdvance(t, r, call[t].todo \ {r})
        BY <3>2 DEF RecoverNext
      <4>2. r \in Run /\ call[t].todo \subseteq (call[t].todo \ {r}) \cup {r}
        BY <3>1
      <4>3. call[t].todo \ {r} \in SUBSET Run
        BY <3>1
      <4> QED BY <4>1, <4>2, <4>3
    <3>3. CASE \E r \in Run : Advance(t, r)
      <4>1. pc[t] = "idle" /\ \E r \in Run : BeginAdvance(t, r, {})
        BY <3>3 DEF Advance
      <4>2. call[t].todo = {}
        BY <4>1 DEF TodoInv
      <4> QED BY <4>1, <4>2
    <3> QED BY <1>2, <3>2, <3>3
  <2>. DEFINE c == [IdleCall EXCEPT !.run = r, !.nowMs = now, !.todo = todo]
  <2>2. c.run = r /\ c.todo = todo
    BY DEF IdleCall
  <2>3. pc'[t] = "claim" /\ call'[t] = c
    BY <2>1 DEF BeginAdvance
  <2> QED BY <2>1, <2>2, <2>3
<1>3. CASE ClaimRead(t)
  <2>1. CASE Goto(t, "refused") /\ UNCHANGED call
    BY <2>1
  <2>2. CASE ~Goto(t, "refused")
    BY <1>3, <2>2 DEF ClaimRead, Call
  <2> QED BY <1>3, <2>1, <2>2 DEF ClaimRead
<1>4. CASE ClaimWrite(t)
  <2>1. CASE Return(t)
    BY <1>0, <1>4, <2>1 DEF Return, ClaimWrite
  <2>2. CASE ~Return(t)
    BY <1>4, <2>2, ClaimWrites DEF ClaimWrite, Holding
  <2> QED BY <2>1, <2>2
<1>5. CASE ExecuteReturns(t) \/ ExecuteThrows(t)
  BY <1>5 DEF ExecuteReturns, ExecuteThrows, Call
<1>6. CASE RecordTransition(t) \/ AdvanceDraft(t) \/ CompleteRun(t) \/ ReleaseLease(t)
           \/ FailRun(t) \/ FailDraft(t)
  BY <1>6 DEF RecordTransition, AdvanceDraft, CompleteRun, ReleaseLease, FailRun,
     FailDraft, IfDraft
<1>7. CASE AuditStep(t) \/ AuditReject(t) \/ AuditFail(t) \/ ReadRefused(t)
  BY <1>0, <1>7 DEF AuditStep, AuditReject, AuditFail, ReadRefused, Advanced
<1>8. CASE NoPublishReport(t) \/ NoPublishDraft(t)
  BY <1>8 DEF NoPublishReport, NoPublishDraft, IfDraft, TodoInv
<1>9. ASSUME NEW input \in StartInput, StartFind(t, input)
      PROVE  call[t].todo = {} /\ call'[t].todo = {}
  BY <1>9 DEF StartFind, TodoInv, IdleCall
<1>10. CASE RecoverBegin(t)
  BY <1>0, <1>10 DEF RecoverBegin, TodoInv
<1>11. CASE \E r \in Run, actor \in TransitionActor : NoPublishBegin(t, r, actor)
  BY <1>11 DEF NoPublishBegin, TodoInv, IdleCall
<1>12. CASE DatabaseError(t)
  BY <1>0, <1>12 DEF DatabaseError, Return
<1> QED BY <1>1, <1>2, <1>3, <1>4, <1>5, <1>6, <1>7, <1>8, <1>9, <1>10, <1>11, <1>12
        DEF Steps, Progress, Begin

\* The lists of calls through every step of the engine (all actions).
LEMMA NextTodo == TypeInv /\ TodoInv /\ [Next]_vars => TodoInv'
<1>. SUFFICES ASSUME TypeInv, TodoInv, [Next]_vars
              PROVE  TodoInv'
  OBVIOUS
<1>1. ASSUME NEW t \in Thread, Steps(t)
      PROVE  TodoInv'
  <2>1. \A u \in Thread \ {t} : Stays(u)
    BY <1>1, OthersStay
  <2> QED BY <1>1, <2>1, ListKept DEF TodoInv, Stays
<1>2. CASE \E w \in Worker : Crash(w)
  BY <1>2 DEF Crash, TodoInv, Listless
<1>3. CASE Tick \/ UNCHANGED vars
  BY <1>3 DEF Tick, vars, TodoInv
<1> QED BY <1>1, <1>2, <1>3 DEF Next, Steps

\* A recovery gives up a run of its list only to a database error, a crash, or a claim
\* whose row moved: a rejected or failed step never costs another run its turn
\* (workflow-engine.ts:276-277, 285-302).
THEOREM RecoveryIsIsolatedHolds == Spec => RecoveryIsIsolated
<1>1. Init => TodoInv
  BY DEF Init, TodoInv, IdleCall
<1>2. TypeInv /\ TodoInv /\ [Next]_vars => TodoInv'
  BY NextTodo
<1>3. TypeInv /\ TodoInv /\ [Next]_vars
        => [\A t \in Thread :
              ~ (call[t].todo \subseteq call'[t].todo \cup {call'[t].run})
                => pc[t] = "locked" \/ faults' # faults]_vars
  <2>. SUFFICES ASSUME TypeInv, TodoInv, Next, NEW t \in Thread,
                       ~ (call[t].todo \subseteq call'[t].todo \cup {call'[t].run})
                PROVE  pc[t] = "locked" \/ faults' # faults
    OBVIOUS
  <2>1. CASE Tick
    BY <2>1 DEF Tick
  <2>2. CASE \E w \in Worker : Crash(w)
    BY <2>2 DEF Crash, TypeInv, TypeOK
  <2>3. ASSUME NEW u \in Thread, Steps(u)
        PROVE  pc[t] = "locked" \/ faults' # faults
    <3>1. u = t
      BY <2>3, OthersStay DEF Stays
    <3> QED BY <2>3, <3>1, ListKept
  <2> QED BY <2>1, <2>2, <2>3 DEF Next, Steps
<1> QED BY <1>1, <1>2, <1>3, TypeCorrect, PTL DEF Spec, RecoveryIsIsolated

=============================================================================
