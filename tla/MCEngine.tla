------------------------------ MODULE MCEngine ------------------------------
(***************************************************************************)
(* Small instances of the workflow engine for TLC.                         *)
(***************************************************************************)
EXTENDS EngineProperties, TLC

CONSTANTS t1, t2, w1, w2, d1, k1

\* Each call slot in a process of its own, or both in one process.
OwnWorker  == t1 :> w1 @@ t2 :> w2
OneWorker  == t1 :> w1 @@ t2 :> w1

Out(to, actor) == [to |-> to, actor |-> actor]

\* The way to publication, the way to fail there, and three refusals: a scheduler
\* that completes a draft, one that releases it, an agent that approves it.
ToPublication ==
    {Out("IDEA_READY", "SCHEDULER"), Out("DRAFTING", "SCHEDULER"),
     Out("DRAFT_READY", "AGENT"), Out("AWAITING_APPROVAL", "AGENT"),
     Out("APPROVED", "AUTHOR"), Out("PUBLISHING", "AUTHOR"),
     Out("PUBLISHED", "SYSTEM"), Out("FAILED", "SYSTEM"),
     Out("DRAFT_READY", "SCHEDULER"), Out("PUBLISHING", "SCHEDULER"),
     Out("APPROVED", "AGENT")}

\* A short life with one good and one terminal end.
ShortLife ==
    {Out("IDEA_READY", "SCHEDULER"), Out("NO_PUBLISH", "SCHEDULER"),
     Out("APPROVED", "AGENT")}

\* The two call slots are interchangeable, with their processes.
Swap == {t1 :> t2 @@ t2 :> t1 @@ w1 :> w2 @@ w2 :> w1}

\* No action reads the audit trail and no property of the runs that use this
\* view does: states that differ only there are one state.
WithoutAudit ==
    <<now, faultVars, created, runs, log, reports, draftState, pc, call>>

\* One step ends a run.
OneStep == {Out("NO_PUBLISH", "SCHEDULER")}

\* One step ends a run, or the step asks for what the table refuses.
OneStepOrRefusal == OneStep \cup {Out("APPROVED", "AGENT")}

OnDraft    == {[key |-> None, draft |-> d1]}
WithoutDraft == {[key |-> None, draft |-> None]}
Keyed      == {[key |-> k1, draft |-> None]}
KeyedOrNot == Keyed \cup WithoutDraft

=============================================================================
