-------------------------- MODULE EngineProperties --------------------------
(***************************************************************************)
(* What the workflow engine guarantees, and what its comments say it does. *)
(***************************************************************************)
EXTENDS WorkflowEngine

\* The one type invariant.
TypeOK ==
    /\ now \in Nat
    /\ down \subseteq Worker
    /\ faults \in Nat
    /\ late \in BOOLEAN
    /\ created \subseteq Run
    /\ runs \in [Run -> RunRow]
    /\ log \subseteq Transition
    /\ reports \subseteq Run
    /\ audit \subseteq AuditEvent
    /\ draftState \in [Draft -> DraftState]
    /\ pc \in [Thread -> Label]
    /\ call \in [Thread -> Call]

-----------------------------------------------------------------------------
(* The human gate *)

\* A human approved the run, and a human released it to be published.
HumanApproved(r) ==
    [run |-> r, from |-> "AWAITING_APPROVAL", to |-> "APPROVED",
     actor |-> "AUTHOR"] \in log
HumanReleased(r) ==
    [run |-> r, from |-> "APPROVED", to |-> "PUBLISHING",
     actor |-> "AUTHOR"] \in log

\* What the log must hold before a run may be in a state.
GateOpen(r, state) ==
    /\ state \in {"APPROVED", "PUBLISHING", "PUBLISHED", "FAILED"}
         => HumanApproved(r)
    /\ state \in {"PUBLISHING", "PUBLISHED", "FAILED"} => HumanReleased(r)

\* No run is ever in a state at or past the approval, or at or past the publish
\* boundary, unless the log shows that a human actor took it through: however
\* many workers race, stall past their lease or crash, and although completeRun
\* overwrites whatever it finds (workflow-engine.ts:203, 224-243).
HumanGate == \A r \in Run : GateOpen(r, runs[r].state)

\* A draft the engine has moved to APPROVED, PUBLISHING or PUBLISHED belongs to a
\* run a human approved (workflow-engine.ts:232-234: the draft is written before
\* the run, and not in one transaction with it).
DraftGate ==
    \A d \in Draft :
        draftState[d] \in {"APPROVED", "PUBLISHING", "PUBLISHED"}
          => \E r \in created : runs[r].draft = d /\ HumanApproved(r)

\* A run that only the scheduler ever moved has at most prepared a draft: it is
\* never shown for approval, approved, published, rejected or discarded
\* (lifecycle.ts:32-37; the scheduler prepares, it does not decide).
SchedulerReach ==
    \A r \in Run :
        (\A e \in log : e.run = r => e.actor = "SCHEDULER")
          => runs[r].state \in
               {"RESEARCHING", "IDEA_READY", "DRAFTING", "NO_PUBLISH"}

-----------------------------------------------------------------------------
(* History *)

\* A run's state is never ahead of the transition log: the edge into it was
\* logged first, with the edge's own source state logged or initial, so a crash
\* anywhere in advance leaves a history that explains every row
\* (workflow-engine.ts:224-243; ports/workflow-repository.ts:128-130).
HistoryExplainsRun ==
    \A r \in Run :
        /\ runs[r].state # "RESEARCHING"
             => \E e \in log : e.run = r /\ e.to = runs[r].state
        /\ \A e \in log : (e.run = r /\ e.from # "RESEARCHING")
             => \E f \in log : f.run = r /\ f.to = e.from

-----------------------------------------------------------------------------
(* Leases *)

\* While a lease, or the backoff of a failed run, has time left, no worker but
\* its holder claims the run, whatever the calls outside the claim's lock do
\* between the claim's read and its update (prisma-workflow-repository.ts:147-165).
\* One exception is the code's own: a worker that renews its own running lease
\* does not notice a failure in between whose retry time is that lease's end.
LeaseWindowRespected ==
    [][\A t \in Thread, r \in Run :
         (/\ pc[t] = "locked" /\ pc'[t] # "locked" /\ call[t].run = r
          /\ runs'[r] # runs[r] /\ runs[r].leasedBy # WorkerOf[t])
           => \/ Expired(runs[r], now)
              \/ runs[r].leasedBy = None /\ call[t].row.leasedBy = WorkerOf[t]]_vars

\* As long as no call has outlived its lease, two workers are never both at work
\* on one run (ports/workflow-repository.ts:128-129, "so two workers cannot hold
\* the same lease").
LeaseExclusive ==
    ~late => \A t, u \in Thread :
                (/\ pc[t] \in Holding /\ pc[u] \in Holding
                 /\ call[t].run = call[u].run)
                  => WorkerOf[t] = WorkerOf[u]

\* A run changes state only by the worker whose lease on it is still running.
MovedUnderLease ==
    \A r \in created :
        runs'[r].state # runs[r].state =>
           \E t \in Thread : /\ pc'[t] # pc[t]
                             /\ call[t].run = r
                             /\ runs[r].leasedBy = WorkerOf[t]
                             /\ ~Expired(runs[r], now)

\* As long as no call has outlived its lease, "a run is only advanced while its
\* lease is held" (workflow-engine.ts:61).
AdvancedUnderLease == [][~late => MovedUnderLease]_vars

\* ... and that without the condition on the calls, as the comment has it.
AlwaysAdvancedUnderLease == [][MovedUnderLease]_vars

\* recoverAndAdvance gives up a run of its list only to a database error or to
\* the exception of a claim whose row moved: a policy rejection of one run never
\* costs another its turn (workflow-engine.ts:276-277, 285-302).
RecoveryIsIsolated ==
    [][\A t \in Thread :
         ~ (call[t].todo \subseteq call'[t].todo \cup {call'[t].run})
           => pc[t] = "locked" \/ faults' # faults]_vars

\* A lease a crashed worker left behind is taken over or given back, once
\* its time has come within the modelled horizon (workflow-engine.ts:272-278).
AbandonedLeaseAdopted ==
    \A r \in Run :
        (/\ runs[r].leasedBy \in down
         /\ runs[r].leaseUntil <= MaxNow
         /\ down # Worker)
          ~> runs[r].leasedBy \notin down \/ down = Worker

-----------------------------------------------------------------------------
(* The lifecycle table as an abstract specification *)

stateOf == [r \in Run |-> runs[r].state]

Lifecycles == INSTANCE DraftLifecycle
    WITH Thing <- Run, Start <- "RESEARCHING",
         stage <- stateOf

\* As long as no call has outlived its lease, every run moves along an edge of
\* the table or not at all (lifecycle.ts:32-37).
RunFollowsTable == [][late \/ Lifecycles!Next \/ UNCHANGED stateOf]_vars

\* A finished run stays finished (lifecycle.ts:197, "States from which no
\* further transition is permitted").
TerminalIsFinal ==
    [][\A r \in created : isTerminalState(runs[r].state)
         => runs'[r].state = runs[r].state]_vars

Gates == INSTANCE PublishGate
    WITH approved <- {r \in Run : HumanApproved(r)},
         released <- {r \in Run : HumanReleased(r)},
         public   <- {r \in Run : \E e \in log : e.run = r /\ e.to = "PUBLISHED"}

\* The engine implements the publish gate: publication follows a human release,
\* which follows a human approval, in that order in time.
ImplementsPublishGate == Gates!Spec

=============================================================================
