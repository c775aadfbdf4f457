------------------------------- MODULE MCServices -------------------------------
(***************************************************************************)
(* Small instances of the parts whose promises are safety only: dashboard  *)
(* sessions, the rate limiter, the Algolia search, the retrieval index,    *)
(* the schedule, and the policies of drafting and retrieval.  They share   *)
(* no state (their Redis keys have prefixes of their own), so each is      *)
(* explored with the others at rest.                                       *)
(***************************************************************************)
EXTENDS DashboardProperties, RateLimiter, AlgoliaCredentials, RetrievalIndex,
        Scheduling, DraftPolicies, RetrievalPolicies

CONSTANTS c1, c2, tok, q1, q2, q3, i1, i2, g1, g2, ada, eve, k1, k2, a1, a2, a3

VARIABLE service

services == {"dashboard", "limiter", "algolia", "index", "schedule", "drafts", "retrieval"}
servicesVars == <<service, dashVars, limitVars, searchVars, indexVars, scheduleVars, draftVars,
                  policyVars>>

ServicesInit ==
    /\ service \in services
    /\ DashInit /\ LimitInit /\ SearchInit /\ IndexInit
    /\ ScheduleInit
    /\ service # "schedule" => cadence = [a \in Author |-> "Daily"]
    /\ IF service = "drafts" THEN DraftInit
       ELSE draftAsked = [ask |-> "nothing"] /\ draftAnswer = {}
    /\ IF service = "retrieval" THEN PolicyInit
       ELSE question = [ask |-> "nothing"] /\ returned = {}

ServicesNext ==
    /\ UNCHANGED service
    /\ \/ /\ service = "dashboard" /\ DashNext
          /\ UNCHANGED <<limitVars, searchVars, indexVars, scheduleVars, draftVars, policyVars>>
       \/ /\ service = "limiter" /\ LimitNext
          /\ UNCHANGED <<dashVars, searchVars, indexVars, scheduleVars, draftVars, policyVars>>
       \/ /\ service = "algolia" /\ SearchNext
          /\ UNCHANGED <<dashVars, limitVars, indexVars, scheduleVars, draftVars, policyVars>>
       \/ /\ service = "index" /\ IndexNext
          /\ UNCHANGED <<dashVars, limitVars, searchVars, scheduleVars, draftVars, policyVars>>
       \/ /\ service = "schedule" /\ ScheduleNext
          /\ UNCHANGED <<dashVars, limitVars, searchVars, indexVars, draftVars, policyVars>>
       \/ /\ service = "drafts" /\ DraftNext
          /\ UNCHANGED <<dashVars, limitVars, searchVars, indexVars, scheduleVars, policyVars>>
       \/ /\ service = "retrieval" /\ PolicyNext
          /\ UNCHANGED <<dashVars, limitVars, searchVars, indexVars, scheduleVars, draftVars>>

ServicesSpec == ServicesInit /\ [][ServicesNext]_servicesVars

\* The one type invariant: that of every part.
ServicesTypeOK ==
    DashTypeOK /\ LimitTypeOK /\ SearchTypeOK /\ IndexTypeOK /\ ScheduleTypeOK

ScaledDays == [daily |-> 1, weekly |-> 2, biweekly |-> 3]

Lines == {Blank, Line({"claim"}, {}), Line({"link"}, {}), Line({"badLink", "claim"}, {}),
          Line({"openLink", "claim"}, {}), Line({"reference", "claim"}, {}), Line({"verify"}, {}),
          Line({"bareFence"}, {}), Line({"injection"}, {}), Line({"rival"}, {}),
          Line({"experience"}, {}), Line({"long"}, {"w1"}), Line({"long"}, {"w1", "w2"})}
Texts == SeqOf(Lines, 3)

Facts ==
    (a1 :> [published |-> {}, comments |-> 0, reactions |-> 1, tags |-> <<"js", "go">>, engaged |-> 9])
    @@ (a2 :> [published |-> {}, comments |-> 1, reactions |-> 0, tags |-> <<"go", "JS">>, engaged |-> 9])
    @@ (a3 :> [published |-> {1}, comments |-> -1, reactions |-> 2, tags |-> <<"go", "rs">>, engaged |-> 98])
Limits == {NoLimit, 0, 1, 5}
TopicLists == {<<>>, <<"GO", "js">>}
Written == SeqOf(Work, 2)
RawScores == 1..3
Similarities == {-6, 5}
Judgments == -1..(LEVELS + 1)

=============================================================================
