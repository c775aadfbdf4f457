--------------------------- MODULE ArticlePublishing ---------------------------
(***************************************************************************)
(* Drafting, approving and publishing one's articles: the use cases of     *)
(* src/src/core/use-cases/article-management.ts and drafting.ts over their *)
(* Postgres repository (prisma-article-repository.ts) and the Forem API.   *)
(*                                                                         *)
(* A Thread is a slot for one call of a use case.  Every await of the      *)
(* source is a point where other calls run, so every database call and     *)
(* every request to Forem is an action of its own, and call[t] is what the *)
(* call still remembers.  A body stands for a markdown text and for its    *)
(* SHA-256 hash alike.  A draft's Forem article is named by the draft.     *)
(* All calls are the owner's and authorized; what is refused before        *)
(* anything is written changes no state and is no action.                  *)
(***************************************************************************)
EXTENDS Lifecycle, Integers, Sequences, FiniteSets

CONSTANTS
    Thread, Draft, Key,
    Body,                  \* markdown texts
    Clean,                 \* those without lint blockers
    Savable,               \* those without blockers under some options of the client
    Ttl,                   \* the approval lifetimes an author asks for
    None,
    MaxVersions,           \* bound: edits begin below this many versions
    MaxNow,                \* bound: the clock stops here
    MaxFaults              \* bound: failed database calls and requests

ASSUME CleanAssumption == Clean \subseteq Savable /\ Savable \subseteq Body
ASSUME NullAssumption == None \notin Body \cup Key \cup Draft
ASSUME NumberAssumption ==
    /\ Ttl \subseteq Nat
    /\ MaxVersions \in Nat /\ MaxNow \in Nat /\ MaxFaults \in Nat

VARIABLES
    now,          \* the clock of the processes and of the database
    faults,       \* failed calls so far
    overlapped,   \* were two calls ever under way at the same time?
    created,      \* the drafts that have a row
    drafts,       \* the drafts table
    versions,     \* the draft_versions table: the bodies, by version number
    approvals,    \* the approvals table
    publishRuns,  \* workflow_runs rows that publishArticle wrote, by key
    remote,       \* the articles at Forem
    abandoned,    \* the PUTs that timed out and may still be carried out
    sent,         \* the keys under which a publish request left for Forem
    pc, call

tables == <<created, drafts, versions, approvals, publishRuns>>
forem  == <<remote, abandoned, sent>>
vars   == <<now, faults, overlapped, tables, forem, pc, call>>

-----------------------------------------------------------------------------

DraftRow == [state : DraftState, current : Nat, onForem : BOOLEAN]

NewDraft(onForem) == [state |-> "DRAFTING", current |-> 1, onForem |-> onForem]

Approval == [draft : Draft, version : Nat, hash : Body,
             decision : {"APPROVED", "REJECTED"},
             decidedAt : Nat, expiresAt : Nat]

PublishRun == [draft : Draft, state : {"PUBLISHING", "PUBLISHED"}]

Article == [body : Body, published : BOOLEAN]

\* What a PUT asks for; one without a body leaves the text alone.
Write == [draft : Draft, body : Body \cup {None}, published : BOOLEAN]

ASSUME NoRowAssumption == None \notin PublishRun \cup Article

\* state and version: what the call read of the draft, or the decision it records.
Call == [draft : Draft \cup {None}, body : Body \cup {None},
         key : Key \cup {None}, state : DraftState, version : Nat]

IdleCall == [draft |-> None, body |-> None, key |-> None,
             state |-> "DRAFTING", version |-> 0]

Label == {"idle", "create", "updateRemote", "append", "appended",
          "decide", "approve", "decided", "lint", "ready", "await",
          "publish", "publishVersion", "publishCheck", "publishing",
          "recordPublishing", "forem", "published", "recordPublished"}

Init ==
    /\ now = 0 /\ faults = 0 /\ overlapped = FALSE
    /\ created = {}
    /\ drafts = [d \in Draft |-> NewDraft(FALSE)]
    /\ versions = [d \in Draft |-> <<>>]
    /\ approvals = {}
    /\ publishRuns = [k \in Key |-> None]
    /\ remote = [d \in Draft |-> None]
    /\ abandoned = {} /\ sent = {}
    /\ pc = [t \in Thread |-> "idle"]
    /\ call = [t \in Thread |-> IdleCall]

-----------------------------------------------------------------------------

Goto(t, label) == pc' = [pc EXCEPT ![t] = label]
Remember(t, c) == call' = [call EXCEPT ![t] = c]
Return(t)      == Goto(t, "idle") /\ Remember(t, IdleCall)

\* A call starts.
Begin(t, label, c) ==
    /\ pc[t] = "idle"
    /\ overlapped' = (overlapped \/ \E u \in Thread : pc[u] # "idle")
    /\ Goto(t, label)
    /\ Remember(t, c)

\* On to the next await with nothing new to remember.
Continue(t, label) == Goto(t, label) /\ UNCHANGED call

\* A request to Forem was carried out; its answer comes back, or it is lost and
\* the call throws.
Answered(t, answer) ==
    \/ answer /\ UNCHANGED faults
    \/ /\ faults < MaxFaults                              \* bound: MaxFaults
       /\ faults' = faults + 1
       /\ Return(t)

Written(w) ==
    [remote EXCEPT ![w.draft] = [body |-> IF w.body = None THEN @.body ELSE w.body,
                                 published |-> w.published]]

\* A PUT.  An attempt that timed out is repeated, and may still be carried out when a
\* later one has been answered, or when the call has thrown because none was.
Put(t, w, answer) ==
    \/ /\ remote' = Written(w)
       /\ Answered(t, answer)
       /\ UNCHANGED abandoned
    \/ /\ faults < MaxFaults                              \* bound: MaxFaults
       /\ faults' = faults + 1
       /\ abandoned' = abandoned \cup {w}
       /\ \/ remote' = Written(w) /\ answer
          \/ UNCHANGED remote /\ Return(t)

setDraftState(d, state) == drafts' = [drafts EXCEPT ![d].state = state]

-----------------------------------------------------------------------------
(* New drafts *)

Fresh(d) == d \notin created /\ remote[d] = None

InsertDraft(d, body, onForem) ==
    /\ created' = created \cup {d}
    /\ drafts' = [drafts EXCEPT ![d] = NewDraft(onForem)]
    /\ versions' = [versions EXCEPT ![d] = <<body>>]

\* createArticleDraft asks Forem first ...
CreateRemote(t, d, body) ==
    /\ pc[t] = "idle"
    /\ Fresh(d)
    /\ remote' = [remote EXCEPT ![d] = [body |-> body, published |-> FALSE]]
    /\ Answered(t, /\ Goto(t, "create")
                   /\ Remember(t, [IdleCall EXCEPT !.draft = d, !.body = body]))
    /\ overlapped' = (overlapped \/ \E u \in Thread : pc[u] # "idle")
    /\ UNCHANGED <<now, tables, abandoned, sent>>

\* ... and then inserts draft and first version in one transaction.
CreateDraft(t) ==
    /\ pc[t] = "create"
    /\ InsertDraft(call[t].draft, call[t].body, TRUE)
    /\ Return(t)
    /\ UNCHANGED <<now, faults, overlapped, approvals, publishRuns, forem>>

\* persistDraft: a draft without an article, if its body passes the linter with the
\* options that the client sends: own prohibited terms, and whether the author vouches for
\* first-person experience.
PersistDraft(t, d, body) ==
    /\ pc[t] = "idle"
    /\ Fresh(d)
    /\ body \in Savable
    /\ InsertDraft(d, body, FALSE)
    /\ UNCHANGED <<now, faults, overlapped, approvals, publishRuns, forem, pc, call>>

-----------------------------------------------------------------------------
(* Editing *)

\* editDraft edits the draft in whatever state it is.
EditDraft(t, d, body) ==
    /\ d \in created
    /\ Len(versions[d]) < MaxVersions                     \* bound: MaxVersions
    /\ Begin(t, "append", [IdleCall EXCEPT !.draft = d, !.body = body])
    /\ UNCHANGED <<now, faults, tables, forem>>

\* updateArticleDraft, with a new body or with new metadata only.
UpdateBegin(t, d, body) ==
    /\ d \in created
    /\ drafts[d].onForem
    /\ Len(versions[d]) < MaxVersions                     \* bound: MaxVersions
    /\ Begin(t, "updateRemote", [IdleCall EXCEPT !.draft = d, !.body = body])
    /\ UNCHANGED <<now, faults, tables, forem>>

\* The request always carries published: false.
UpdateRemote(t) ==
    LET d == call[t].draft  body == call[t].body IN
    /\ pc[t] = "updateRemote"
    /\ Put(t, [draft |-> d, body |-> body, published |-> FALSE],
           IF body = None THEN Return(t) ELSE Continue(t, "append"))
    /\ UNCHANGED <<now, overlapped, tables, sent>>

\* appendVersion reads the last version number ...
AppendRead(t) ==
    /\ pc[t] = "append"
    /\ Goto(t, "appended")
    /\ Remember(t, [call[t] EXCEPT !.version = Len(versions[call[t].draft]) + 1])
    /\ UNCHANGED <<now, faults, overlapped, tables, forem>>

\* Faulty variant: no unique index on (draft, version).
NumberUnchecked(t) == TRUE

NumberFree(t) == call[t].version > Len(versions[call[t].draft])

\* ... inserts the next one and makes it current, in one transaction.  If the
\* number has been taken meanwhile the unique index makes the call throw.
AppendCommit(t) ==
    LET d == call[t].draft IN
    /\ pc[t] = "appended"
    /\ \/ /\ NumberFree(t)
          /\ versions' = [versions EXCEPT ![d] = Append(@, call[t].body)]
          /\ drafts' = [drafts EXCEPT ![d].current = call[t].version,
                                      ![d].state = "DRAFTING"]
       \/ ~NumberFree(t) /\ UNCHANGED <<versions, drafts>>
    /\ Return(t)
    /\ UNCHANGED <<now, faults, overlapped, created, approvals, publishRuns, forem>>

-----------------------------------------------------------------------------
(* Review and approval *)

\* submitForReview reads the draft's state ...
SubmitBegin(t, d) ==
    /\ d \in created
    /\ \/ drafts[d].state = "DRAFTING"
       \/ assertTransition(drafts[d].state, "AWAITING_APPROVAL", "AGENT")
    /\ Begin(t, "lint", [IdleCall EXCEPT !.draft = d, !.state = drafts[d].state])
    /\ UNCHANGED <<now, faults, tables, forem>>

\* Faulty variant: the linter's verdict is not heeded.
SubmitUnlinted(t) ==
    /\ pc[t] = "lint"
    /\ Continue(t, IF call[t].state = "DRAFTING" THEN "ready" ELSE "await")
    /\ UNCHANGED <<now, faults, overlapped, tables, forem>>

\* ... then the current version, which it lints ...
SubmitLint(t) ==
    LET d == call[t].draft IN
    /\ pc[t] = "lint"
    /\ IF versions[d][drafts[d].current] \in Clean
         THEN Continue(t, IF call[t].state = "DRAFTING" THEN "ready" ELSE "await")
         ELSE Return(t)
    /\ UNCHANGED <<now, faults, overlapped, tables, forem>>

\* ... and moves the draft, whatever has become of it, in one step or in two.
SubmitReady(t) ==
    /\ pc[t] = "ready"
    /\ setDraftState(call[t].draft, "DRAFT_READY")
    /\ Continue(t, "await")
    /\ UNCHANGED <<now, faults, overlapped, created, versions, approvals,
                   publishRuns, forem>>

SubmitAwait(t) ==
    /\ pc[t] = "await"
    /\ setDraftState(call[t].draft, "AWAITING_APPROVAL")
    /\ Return(t)
    /\ UNCHANGED <<now, faults, overlapped, created, versions, approvals,
                   publishRuns, forem>>

\* recordApproval reads the draft; the decision is legal from the state it read.
ApproveBegin(t, d, decision) ==
    /\ d \in created
    /\ assertTransition(drafts[d].state, decision, "AUTHOR")
    /\ Begin(t, "decide", [IdleCall EXCEPT !.draft = d, !.state = decision])
    /\ UNCHANGED <<now, faults, tables, forem>>

\* The version it binds to is the current one when it gets to read it.
ApproveVersion(t) ==
    /\ pc[t] = "decide"
    /\ Goto(t, "approve")
    /\ Remember(t, [call[t] EXCEPT !.version = drafts[call[t].draft].current])
    /\ UNCHANGED <<now, faults, overlapped, tables, forem>>

\* Faulty variant: the hash is that of the version current by now.
CreateApprovalLateHash(t) ==
    LET c == call[t] IN
    /\ pc[t] = "approve"
    /\ \E ttl \in Ttl :
         approvals' = approvals \cup
           {[draft |-> c.draft, version |-> c.version,
             hash |-> versions[c.draft][drafts[c.draft].current],
             decision |-> c.state, decidedAt |-> now, expiresAt |-> now + ttl]}
    /\ Continue(t, "decided")
    /\ UNCHANGED <<now, faults, overlapped, created, drafts, versions,
                   publishRuns, forem>>

CreateApproval(t) ==
    LET c == call[t] IN
    /\ pc[t] = "approve"
    /\ \E ttl \in Ttl :
         approvals' = approvals \cup
           {[draft |-> c.draft, version |-> c.version,
             hash |-> versions[c.draft][c.version],
             decision |-> c.state, decidedAt |-> now, expiresAt |-> now + ttl]}
    /\ Continue(t, "decided")
    /\ UNCHANGED <<now, faults, overlapped, created, drafts, versions,
                   publishRuns, forem>>

ApproveState(t) ==
    /\ pc[t] = "decided"
    /\ setDraftState(call[t].draft, call[t].state)
    /\ Return(t)
    /\ UNCHANGED <<now, faults, overlapped, created, versions, approvals,
                   publishRuns, forem>>

-----------------------------------------------------------------------------
(* Publishing *)

\* publishArticle finds no run with its key, else it replays or refuses.
PublishBegin(t, d, key) ==
    /\ publishRuns[key] = None
    /\ Begin(t, "publish", [IdleCall EXCEPT !.draft = d, !.key = key])
    /\ UNCHANGED <<now, faults, tables, forem>>

\* Three reads: the draft, its current version, the version's last approval.
PublishDraft(t) ==
    LET d == call[t].draft IN
    /\ pc[t] = "publish"
    /\ IF d \in created /\ drafts[d].onForem
         THEN /\ Goto(t, "publishVersion")
              /\ Remember(t, [call[t] EXCEPT !.state = drafts[d].state])
         ELSE Return(t)
    /\ UNCHANGED <<now, faults, overlapped, tables, forem>>

PublishVersion(t) ==
    /\ pc[t] = "publishVersion"
    /\ Goto(t, "publishCheck")
    /\ Remember(t, [call[t] EXCEPT !.version = drafts[call[t].draft].current])
    /\ UNCHANGED <<now, faults, overlapped, tables, forem>>

ApprovalsOf(d, version) ==
    {a \in approvals : a.draft = d /\ a.version = version}

\* The approval of a version; the database may break a tie in decidedAt either way.
ApprovalForVersion(d, version) ==
    {a \in ApprovalsOf(d, version) :
        \A b \in ApprovalsOf(d, version) : b.decidedAt <= a.decidedAt}

ApprovalValid(a, version, hash) ==
    /\ a.decision = "APPROVED"
    /\ a.expiresAt > now
    /\ a.version = version
    /\ a.hash = hash

\* The states that count are the draft's when it was read, before the approval.
isPublishableState(state) == state \in {"APPROVED", "FAILED"}

\* Faulty variants: nothing is checked, or the approval only.
PublishUnchecked(t) ==
    /\ pc[t] = "publishCheck"
    /\ Continue(t, "publishing")
    /\ UNCHANGED <<now, faults, overlapped, tables, forem>>

PublishCheckApproval(t) ==
    LET c == call[t] IN
    /\ pc[t] = "publishCheck"
    /\ \E a \in ApprovalForVersion(c.draft, c.version) :
         ApprovalValid(a, c.version, versions[c.draft][c.version])
    /\ Continue(t, "publishing")
    /\ UNCHANGED <<now, faults, overlapped, tables, forem>>

PublishCheck(t) ==
    LET c == call[t] IN
    /\ pc[t] = "publishCheck"
    /\ \/ /\ \E a \in ApprovalForVersion(c.draft, c.version) :
               ApprovalValid(a, c.version, versions[c.draft][c.version])
          /\ isPublishableState(c.state)
          /\ assertPublishAuthority(c.state, "PUBLISHING", "AUTHOR")
          /\ Continue(t, "publishing")
       \/ /\ \/ ApprovalForVersion(c.draft, c.version) = {}
             \/ \E a \in ApprovalForVersion(c.draft, c.version) :
                  ~ApprovalValid(a, c.version, versions[c.draft][c.version])
             \/ ~isPublishableState(c.state)
          /\ Return(t)
    /\ UNCHANGED <<now, faults, overlapped, tables, forem>>

PublishingState(t) ==
    /\ pc[t] = "publishing"
    /\ setDraftState(call[t].draft, "PUBLISHING")
    /\ Continue(t, "recordPublishing")
    /\ UNCHANGED <<now, faults, overlapped, created, versions, approvals,
                   publishRuns, forem>>

\* An upsert: a row the key has meanwhile is overwritten.
recordRun(t, state) ==
    publishRuns' = [publishRuns EXCEPT ![call[t].key] =
                      [draft |-> call[t].draft, state |-> state]]

\* Faulty variant: the run is recorded only once the article is out.
RecordPublishingLate(t) ==
    /\ pc[t] = "recordPublishing"
    /\ Continue(t, "forem")
    /\ UNCHANGED <<now, faults, overlapped, tables, forem>>

RecordPublishing(t) ==
    /\ pc[t] = "recordPublishing"
    /\ recordRun(t, "PUBLISHING")
    /\ Continue(t, "forem")
    /\ UNCHANGED <<now, faults, overlapped, created, drafts, versions, approvals, forem>>

\* Forem makes public what it has; the request carries no text.
PublishRemote(t) ==
    /\ pc[t] = "forem"
    /\ Put(t, [draft |-> call[t].draft, body |-> None, published |-> TRUE],
           Continue(t, "published"))
    /\ sent' = sent \cup {call[t].key}
    /\ UNCHANGED <<now, overlapped, tables>>

\* Faulty variant: the draft keeps its state.
PublishedUnmarked(t) ==
    /\ pc[t] = "published"
    /\ Continue(t, "recordPublished")
    /\ UNCHANGED <<now, faults, overlapped, tables, forem>>

PublishedState(t) ==
    /\ pc[t] = "published"
    /\ setDraftState(call[t].draft, "PUBLISHED")
    /\ Continue(t, "recordPublished")
    /\ UNCHANGED <<now, faults, overlapped, created, versions, approvals,
                   publishRuns, forem>>

RecordPublished(t) ==
    /\ pc[t] = "recordPublished"
    /\ recordRun(t, "PUBLISHED")
    /\ Return(t)
    /\ UNCHANGED <<now, faults, overlapped, created, drafts, versions, approvals, forem>>

-----------------------------------------------------------------------------
(* The environment *)

Tick ==
    /\ now < MaxNow                                       \* bound: MaxNow
    /\ now' = now + 1
    /\ UNCHANGED <<faults, overlapped, tables, forem, pc, call>>

\* A database call or a request fails without effect, or the process dies: the
\* call is gone, and nothing is undone.
Throw(t) ==
    /\ pc[t] # "idle"
    /\ faults < MaxFaults                                 \* bound: MaxFaults
    /\ faults' = faults + 1
    /\ Return(t)
    /\ UNCHANGED <<now, overlapped, tables, forem>>

\* Forem carries out a PUT that nobody waits for any more.
LateEffect ==
    \E w \in abandoned :
        /\ remote' = Written(w)
        /\ abandoned' = abandoned \ {w}
        /\ UNCHANGED <<now, faults, overlapped, tables, sent, pc, call>>

-----------------------------------------------------------------------------

Start(t) ==
    \E d \in Draft :
        \/ \E body \in Body :
             CreateRemote(t, d, body) \/ PersistDraft(t, d, body) \/ EditDraft(t, d, body)
        \/ \E body \in Body \cup {None} : UpdateBegin(t, d, body)
        \/ SubmitBegin(t, d)
        \/ \E decision \in {"APPROVED", "REJECTED"} : ApproveBegin(t, d, decision)
        \/ \E key \in Key : PublishBegin(t, d, key)

Progress(t) ==
    \/ CreateDraft(t) \/ UpdateRemote(t) \/ AppendRead(t) \/ AppendCommit(t)
    \/ SubmitLint(t) \/ SubmitReady(t) \/ SubmitAwait(t)
    \/ ApproveVersion(t) \/ CreateApproval(t) \/ ApproveState(t)
    \/ PublishDraft(t) \/ PublishVersion(t) \/ PublishCheck(t)
    \/ PublishingState(t) \/ RecordPublishing(t) \/ PublishRemote(t)
    \/ PublishedState(t) \/ RecordPublished(t)

Next ==
    \/ \E t \in Thread : Start(t) \/ Progress(t) \/ Throw(t)
    \/ Tick \/ LateEffect

Spec == Init /\ [][Next]_vars

\* Calls under way go on: every request is answered or times out.
LiveSpec == Spec /\ \A t \in Thread : WF_vars(Progress(t))

=============================================================================
