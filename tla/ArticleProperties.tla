--------------------------- MODULE ArticleProperties ---------------------------
(***************************************************************************)
(* What drafting, approving and publishing guarantee, and what the         *)
(* documentation says they do.                                             *)
(***************************************************************************)
EXTENDS ArticlePublishing

\* The one type invariant.
TypeOK ==
    /\ now \in Nat /\ faults \in Nat /\ overlapped \in BOOLEAN
    /\ created \subseteq Draft
    /\ drafts \in [Draft -> DraftRow]
    /\ versions \in [Draft -> Seq(Body)]
    /\ approvals \subseteq Approval
    /\ publishRuns \in [Key -> PublishRun \cup {None}]
    /\ remote \in [Draft -> Article \cup {None}]
    /\ abandoned \subseteq Write /\ sent \subseteq Key
    /\ pc \in [Thread -> Label]
    /\ call \in [Thread -> Call]

-----------------------------------------------------------------------------
(* Versions *)

\* However many edits race, none is lost: the current version of a draft is the
\* last one that was appended (prisma-article-repository.ts:111-140, where the
\* number is read and inserted under no lock but a unique index).
LatestIsCurrent == \A d \in created : drafts[d].current = Len(versions[d])

\* An approval stands for the very text it was given for, for good: versions
\* are only ever appended (article-management.ts:329-334 compares the hashes).
ApprovalKeepsItsText ==
    \A a \in approvals : /\ a.version \in 1..Len(versions[a.draft])
                         /\ versions[a.draft][a.version] = a.hash

-----------------------------------------------------------------------------
(* Approval *)

IsPublic(d) == remote[d] # None /\ remote[d].published

HumanApproved(d) ==
    \E a \in approvals : a.draft = d /\ a.decision = "APPROVED"

\* No article is public that its author never approved in some version, however
\* the calls overlap, wherever they break off, and whichever request is carried out
\* long after its call gave up (article-management.ts:225-253).
PublicWasApproved == \A d \in Draft : IsPublic(d) => HumanApproved(d)

\* When calls do not overlap, a draft enters PUBLISHING only along an edge of the
\* table and with its current version approved: no edit or rejection since, and no
\* failure between the writes of an earlier call, gets past the checks
\* (article-management.ts:225-243, 300-336).
ReleasedAsApproved ==
    [][~overlapped => \A d \in Draft :
         (drafts[d].state # "PUBLISHING" /\ drafts'[d].state = "PUBLISHING") =>
            /\ assertPublishAuthority(drafts[d].state, "PUBLISHING", "AUTHOR")
            /\ \E a \in ApprovalsOf(d, drafts[d].current) : a.decision = "APPROVED"]_vars

\* When calls do not overlap, an approved text has passed the linter, although
\* drafts are created and edited without it (drafting.ts:190-191, "so a blocked
\* draft cannot reach approval").
ApprovedWasLinted ==
    ~overlapped => \A a \in approvals : a.decision = "APPROVED" => a.hash \in Clean

-----------------------------------------------------------------------------
(* Publish requests *)

\* A publish request that left for Forem has left a row with its key, so a repeat
\* after any failure is refused or replayed (article-management.ts:236-243, 280-297).
RequestIsRecorded == \A key \in sent : publishRuns[key] # None

\* When calls do not overlap, no key is sent to Forem a second time.
RequestedOnce ==
    ~overlapped => \A t \in Thread : pc[t] = "forem" => call[t].key \notin sent

\* As long as nothing fails, no draft stays in PUBLISHING: whoever set it there
\* goes on to PUBLISHED, or an edit has taken the draft back.
PublishingSettles ==
    \A d \in Draft :
        drafts[d].state = "PUBLISHING" ~> drafts[d].state # "PUBLISHING" \/ faults > 0

-----------------------------------------------------------------------------
(* What comments and documents say and the code does not keep *)

\* What goes public is a text its author approved (docs/explanation/
\* domain-language.md:43, "authorization to publish one exact Draft version and
\* content hash").
PublicTextIsApproved ==
    [][\A d \in Draft : (~IsPublic(d) /\ IsPublic(d)') =>
         \E a \in approvals : /\ a.draft = d
                              /\ a.decision = "APPROVED"
                              /\ a.hash = remote'[d].body]_vars

\* Between calls a draft whose publish request has failed can be published again: it is
\* not left in PUBLISHING (lifecycle.ts:176, "Recoverable failure may retry the exact
\* same approved version").
FailedPublishIsRetryable ==
    (\A t \in Thread : pc[t] = "idle")
        => \A key \in sent : drafts[publishRuns[key].draft].state # "PUBLISHING"

=============================================================================
