----------------------------- MODULE ArticleProofs -----------------------------
(***************************************************************************)
(* Proofs about drafting and publishing, for every set of threads, drafts, *)
(* keys and texts, and however the calls overlap and fail.                 *)
(***************************************************************************)
EXTENDS ArticleProperties, TLAPS

-----------------------------------------------------------------------------
(* The inductive invariant.  Tables are related to each other, and what a     *)
(* call remembers is related to the tables; both survive the steps of other   *)
(* calls because the tables only grow.                                        *)

DataTyped ==
    /\ now \in Nat /\ faults \in Nat /\ overlapped \in BOOLEAN
    /\ created \subseteq Draft
    /\ drafts \in [Draft -> DraftRow]
    /\ versions \in [Draft -> Seq(Body)]
    /\ approvals \subseteq Approval
    /\ publishRuns \in [Key -> PublishRun \cup {None}]
    /\ remote \in [Draft -> Article \cup {None}]
    /\ abandoned \subseteq Write /\ sent \subseteq Key

\* A draft with a row has a version, the last one is current, and a draft that
\* knows of an article has one.
RowsRelated ==
    /\ \A d \in created : Len(versions[d]) >= 1 /\ drafts[d].current = Len(versions[d])
    /\ \A d \in Draft : drafts[d].onForem => remote[d] # None

\* What may still be carried out at Forem has an article, and publishes for an approval.
AbandonedLegal ==
    \A w \in abandoned : remote[w.draft] # None /\ (w.published => HumanApproved(w.draft))

ApprovedDraftsExist == \A a \in approvals : a.draft \in created

Data == /\ DataTyped
        /\ RowsRelated
        /\ ApprovedDraftsExist
        /\ ApprovalKeepsItsText
        /\ PublicWasApproved
        /\ AbandonedLegal
        /\ RequestIsRecorded

\* Labels after the check of publishArticle, and after its first recordRun.
Checked  == {"publishing", "recordPublishing", "forem", "published", "recordPublished"}
Recorded == {"forem", "published", "recordPublished"}
WithKey  == Checked \cup {"publish", "publishVersion", "publishCheck"}

\* Labels of a call on a draft that has a row.
OnRow == Label \ {"idle", "create", "publish"}

\* What a call at a label remembers fits the tables.
Fit(label, c) ==
    /\ label \in OnRow => c.draft \in created
    /\ label = "publish" => c.draft \in Draft
    /\ label = "create" => /\ c.draft \in Draft \ created
                           /\ c.body \in Body
                           /\ remote[c.draft] # None
    /\ label \in {"append", "appended"} => c.body \in Body
    /\ label = "appended" => c.version \in 1 .. Len(versions[c.draft]) + 1
    /\ label = "approve" => c.version \in 1 .. Len(versions[c.draft])
    /\ label \in {"decide", "approve", "decided"} => c.state \in {"APPROVED", "REJECTED"}
    /\ label \in WithKey => c.key \in Key
    /\ label \in {"updateRemote", "publishVersion", "publishCheck"} \cup Checked
         => remote[c.draft] # None
    /\ label \in Checked => HumanApproved(c.draft)
    /\ label \in Recorded => publishRuns[c.key] # None

\* Two calls never create the same draft.
OneCreator ==
    \A t, u \in Thread :
        (pc[t] = "create" /\ pc[u] = "create" /\ call[t].draft = call[u].draft) => t = u

Calls == /\ pc \in [Thread -> Label]
         /\ call \in [Thread -> Call]
         /\ \A t \in Thread : Fit(pc[t], call[t])
         /\ OneCreator

Inv == Data /\ Calls

-----------------------------------------------------------------------------

\* What a step of any call may do to the tables: add to them.
Grown ==
    /\ created \subseteq created'
    /\ \A d \in created :
         /\ Len(versions[d]) <= Len(versions'[d])
         /\ \A i \in 1 .. Len(versions[d]) : versions'[d][i] = versions[d][i]
    /\ approvals \subseteq approvals'
    /\ \A k \in Key : publishRuns[k] # None => publishRuns'[k] # None
    /\ \A d \in Draft : remote[d] # None => remote'[d] # None

LEMMA SameGrown ==
    ASSUME Data, UNCHANGED <<created, versions, approvals, publishRuns, remote>>
    PROVE  Grown
<1>1. \A d \in created : Len(versions[d]) \in Nat
  BY DEF Data, DataTyped
<1> QED BY <1>1 DEF Grown

\* What a call remembers goes on to fit while other calls make the tables grow.
LEMMA FitKept ==
    ASSUME Data, DataTyped', Grown,
           NEW label \in Label, NEW c \in Call, Fit(label, c),
           label = "create" => c.draft \notin created'
    PROVE  Fit(label, c)'
<1>1. label \in OnRow => c.draft \in created'
  BY DEF Fit, Grown
<1>2. label = "create" => /\ c.draft \in Draft \ created'
                          /\ c.body \in Body
                          /\ remote'[c.draft] # None
  BY DEF Fit, Grown
<1>3. label = "appended" => c.version \in 1 .. Len(versions'[c.draft]) + 1
  <2>1. SUFFICES ASSUME label = "appended"
                 PROVE  c.version \in 1 .. Len(versions'[c.draft]) + 1
    OBVIOUS
  <2>2. c.draft \in created /\ c.version \in 1 .. Len(versions[c.draft]) + 1
    BY <2>1 DEF Fit, OnRow, Label
  <2>3. c.draft \in Draft
    BY <2>2 DEF Data, DataTyped
  <2>4. Len(versions[c.draft]) \in Nat /\ Len(versions'[c.draft]) \in Nat
    BY <2>3 DEF Data, DataTyped
  <2> QED BY <2>2, <2>4 DEF Grown
<1>4. label = "approve" => c.version \in 1 .. Len(versions'[c.draft])
  <2>1. SUFFICES ASSUME label = "approve"
                 PROVE  c.version \in 1 .. Len(versions'[c.draft])
    OBVIOUS
  <2>2. c.draft \in created /\ c.version \in 1 .. Len(versions[c.draft])
    BY <2>1 DEF Fit, OnRow, Label
  <2>3. c.draft \in Draft
    BY <2>2 DEF Data, DataTyped
  <2>4. Len(versions[c.draft]) \in Nat /\ Len(versions'[c.draft]) \in Nat
    BY <2>3 DEF Data, DataTyped
  <2> QED BY <2>2, <2>4 DEF Grown
<1>5. label \in {"updateRemote", "publishVersion", "publishCheck"} \cup Checked
        => remote'[c.draft] # None
  <2>1. label \in {"updateRemote", "publishVersion", "publishCheck"} \cup Checked
          => c.draft \in created /\ remote[c.draft] # None
    BY DEF Fit, OnRow, Label, Checked
  <2> QED BY <2>1 DEF Grown, Data, DataTyped
<1>6. label \in Checked => HumanApproved(c.draft)'
  BY DEF Fit, Grown, HumanApproved
<1>7. label \in Recorded => publishRuns'[c.key] # None
  BY DEF Fit, Grown, Recorded, WithKey, Checked
<1> QED BY <1>1, <1>2, <1>3, <1>4, <1>5, <1>6, <1>7 DEF Fit

\* A step of one call, into a label and with a memory that fit.
LEMMA CallStep ==
    ASSUME Inv, DataTyped', Grown,
           NEW t \in Thread, NEW label \in Label, NEW c \in Call,
           Goto(t, label), Remember(t, c), Fit(label, c)',
           \A u \in Thread \ {t} :
              pc[u] = "create" => /\ call[u].draft \notin created'
                                  /\ label = "create" => call[u].draft # c.draft
    PROVE  Calls'
<1>1. pc' \in [Thread -> Label] /\ call' \in [Thread -> Call]
  BY DEF Inv, Calls, Goto, Remember
<1>2. pc'[t] = label /\ call'[t] = c
  BY DEF Inv, Calls, Goto, Remember
<1>3. \A u \in Thread \ {t} : pc'[u] = pc[u] /\ call'[u] = call[u]
  BY DEF Inv, Calls, Goto, Remember
<1>4. ASSUME NEW u \in Thread
      PROVE  Fit(pc[u], call[u])'
  <2>1. CASE u = t
    <3>1. PICK l, k : l = pc'[u] /\ k = call'[u]
      OBVIOUS
    <3>2. l = label /\ k = c
      BY <2>1, <1>2, <3>1
    <3>3. Fit(l, k)'
      BY <3>2
    <3> QED BY <3>1, <3>3 DEF Fit
  <2>2. CASE u # t
    <3>1. PICK l \in Label, k \in Call : l = pc[u] /\ k = call[u]
      BY DEF Inv, Calls
    <3>2. Fit(l, k)
      BY <3>1 DEF Inv, Calls
    <3>3. l = "create" => k.draft \notin created'
      BY <2>2, <3>1
    <3>4. Fit(l, k)'
      BY <3>2, <3>3, FitKept DEF Inv
    <3>5. pc'[u] = l /\ call'[u] = k
      BY <2>2, <1>3, <3>1
    <3> QED BY <3>4, <3>5 DEF Fit
  <2> QED BY <2>1, <2>2
<1>5. OneCreator'
  BY <1>2, <1>3 DEF Inv, Calls, OneCreator
<1> QED BY <1>1, <1>4, <1>5 DEF Calls

\* A step that creates no draft and leaves the tables related.
LEMMA TableStep ==
    ASSUME Inv, Data', Grown, created' = created,
           NEW t \in Thread, NEW label \in Label \ {"create"}, NEW c \in Call,
           Goto(t, label), Remember(t, c), Fit(label, c)'
    PROVE  Inv'
<1>1. \A u \in Thread : pc[u] = "create" => call[u].draft \notin created'
  BY DEF Inv, Calls, Fit
<1>2. Calls'
  BY <1>1, CallStep DEF Data
<1> QED BY <1>2 DEF Inv

\* A step that reads at most.
LEMMA ReadStep ==
    ASSUME Inv, UNCHANGED <<tables, forem>>,
           now' \in Nat, faults' \in Nat, overlapped' \in BOOLEAN,
           NEW t \in Thread, NEW label \in Label \ {"create"}, NEW c \in Call,
           Goto(t, label), Remember(t, c), Fit(label, c)
    PROVE  Inv'
<1>1. UNCHANGED <<created, drafts, versions, approvals, publishRuns, remote, abandoned, sent>>
  BY DEF tables, forem
<1>2. DataTyped'
  BY <1>1 DEF Inv, Data, DataTyped
<1>3. Data'
  BY <1>1, <1>2 DEF Inv, Data, RowsRelated, ApprovedDraftsExist, ApprovalKeepsItsText,
     PublicWasApproved, IsPublic, AbandonedLegal, HumanApproved, RequestIsRecorded
<1>4. Grown
  BY <1>1, SameGrown DEF Inv
<1>5. Fit(label, c)'
  BY <1>2, <1>4, FitKept DEF Inv
<1> QED BY <1>1, <1>3, <1>4, <1>5, TableStep

\* A step that sets a draft's state and no other column.
LEMMA StateStep ==
    ASSUME Inv, NEW d \in Draft, NEW state \in DraftState, setDraftState(d, state),
           UNCHANGED <<now, faults, overlapped, created, versions, approvals,
                       publishRuns, forem>>,
           NEW t \in Thread, NEW label \in Label \ {"create"}, NEW c \in Call,
           Goto(t, label), Remember(t, c), Fit(label, c)
    PROVE  Inv'
<1>1. UNCHANGED <<now, faults, overlapped, created, versions, approvals, publishRuns,
                  remote, abandoned, sent>>
  BY DEF forem
<1>2. drafts' \in [Draft -> DraftRow]
  BY DEF Inv, Data, DataTyped, DraftRow, setDraftState
<1>3. \A e \in Draft : /\ drafts'[e].current = drafts[e].current
                       /\ drafts'[e].onForem = drafts[e].onForem
  BY DEF Inv, Data, DataTyped, DraftRow, setDraftState
<1>4. DataTyped'
  BY <1>1, <1>2 DEF Inv, Data, DataTyped
<1>5. RowsRelated'
  BY <1>1, <1>3 DEF Inv, Data, DataTyped, RowsRelated
<1>6. Data'
  BY <1>1, <1>4, <1>5 DEF Inv, Data, ApprovedDraftsExist, ApprovalKeepsItsText,
     PublicWasApproved, IsPublic, AbandonedLegal, HumanApproved, RequestIsRecorded
<1>7. Grown
  BY <1>1, SameGrown DEF Inv
<1>8. Fit(label, c)'
  BY <1>4, <1>7, FitKept DEF Inv
<1> QED BY <1>1, <1>6, <1>7, <1>8, TableStep

LEMMA IdleType == IdleCall \in Call /\ (\A d \in Draft : NewDraft(FALSE) \in DraftRow)
                  /\ NewDraft(TRUE) \in DraftRow /\ NewDraft(FALSE) \in DraftRow
  BY DEF IdleCall, Call, NewDraft, DraftRow, DraftState

\* A call that ends fits any tables.
LEMMA IdleFits == Fit("idle", IdleCall)
  BY DEF Fit, OnRow, WithKey, Checked, Recorded

LEMMA InitInv == Init => Inv
<1>. SUFFICES ASSUME Init
              PROVE  Inv
  OBVIOUS
<1>1. overlapped \in BOOLEAN
  BY DEF Init
<1>2. drafts \in [Draft -> DraftRow]
  BY IdleType DEF Init
<1>a. now \in Nat /\ faults \in Nat /\ created \subseteq Draft /\ approvals \subseteq Approval
      /\ abandoned \subseteq Write /\ sent \subseteq Key
  BY DEF Init
<1>b. versions \in [Draft -> Seq(Body)]
  <2>1. <<>> \in Seq(Body)
    OBVIOUS
  <2> QED BY <2>1 DEF Init
<1>c. publishRuns \in [Key -> PublishRun \cup {None}] /\ remote \in [Draft -> Article \cup {None}]
  BY DEF Init
<1>3. DataTyped
  BY <1>1, <1>2, <1>a, <1>b, <1>c DEF DataTyped
<1>4. RowsRelated /\ ApprovedDraftsExist /\ ApprovalKeepsItsText
      /\ PublicWasApproved /\ AbandonedLegal /\ RequestIsRecorded
  BY DEF Init, NewDraft, RowsRelated, ApprovedDraftsExist, ApprovalKeepsItsText,
     PublicWasApproved, IsPublic, AbandonedLegal, RequestIsRecorded
<1>5. pc \in [Thread -> Label] /\ call \in [Thread -> Call] /\ OneCreator
  BY IdleType DEF Init, Label, OneCreator
<1>6. \A t \in Thread : Fit(pc[t], call[t])
  BY IdleFits DEF Init
<1> QED BY <1>3, <1>4, <1>5, <1>6 DEF Inv, Data, Calls

-----------------------------------------------------------------------------
(* Every action keeps the invariant: first those that read, then those that   *)
(* set a draft's state, then those that add to a table.                       *)

LEMMA BeginFacts ==
    ASSUME Inv, NEW t \in Thread, NEW label, NEW c, Begin(t, label, c)
    PROVE  overlapped' \in BOOLEAN /\ Goto(t, label) /\ Remember(t, c)
  BY DEF Begin, Inv, Data, DataTyped

LEMMA EditingReads ==
    ASSUME Inv, NEW t \in Thread, NEW d \in Draft, NEW body \in Body \cup {None},
           (EditDraft(t, d, body) /\ body \in Body) \/ UpdateBegin(t, d, body)
    PROVE  Inv'
<1>. DEFINE c == [IdleCall EXCEPT !.draft = d, !.body = body]
<1>1. c \in Call /\ c.draft = d /\ c.body = body
  BY IdleType DEF IdleCall, Call
<1>2. now \in Nat /\ faults \in Nat
  BY DEF Inv, Data, DataTyped
<1>. HIDE DEF c
<1>3. ASSUME EditDraft(t, d, body), body \in Body
      PROVE  Inv'
  <2>1. Begin(t, "append", c) /\ d \in created /\ UNCHANGED <<now, faults, tables, forem>>
    BY <1>3 DEF EditDraft, c
  <2>2. Fit("append", c)
    BY <1>1, <1>3, <2>1 DEF Fit, WithKey, Checked, Recorded
  <2>3. "append" \in Label \ {"create"}
    BY DEF Label
  <2> QED BY <1>1, <1>2, <2>1, <2>2, <2>3, BeginFacts, ReadStep
<1>4. ASSUME UpdateBegin(t, d, body)
      PROVE  Inv'
  <2>1. /\ Begin(t, "updateRemote", c) /\ d \in created /\ drafts[d].onForem
        /\ UNCHANGED <<now, faults, tables, forem>>
    BY <1>4 DEF UpdateBegin, c
  <2>2. remote[d] # None
    BY <2>1 DEF Inv, Data, RowsRelated
  <2>3. Fit("updateRemote", c)
    BY <1>1, <2>1, <2>2 DEF Fit, WithKey, Checked, Recorded
  <2>4. "updateRemote" \in Label \ {"create"}
    BY DEF Label
  <2> QED BY <1>1, <1>2, <2>1, <2>3, <2>4, BeginFacts, ReadStep
<1> QED BY <1>3, <1>4

LEMMA ReviewReads ==
    ASSUME Inv, NEW t \in Thread, NEW d \in Draft,
           SubmitBegin(t, d) \/ \E decision \in {"APPROVED", "REJECTED"} :
                                   ApproveBegin(t, d, decision)
    PROVE  Inv'
<1>1. now \in Nat /\ faults \in Nat /\ drafts[d].state \in DraftState
  BY DEF Inv, Data, DataTyped, DraftRow
<1>2. ASSUME NEW state \in DraftState, d \in created,
             NEW label \in {"lint", "decide"},
             label = "decide" => state \in {"APPROVED", "REJECTED"},
             Begin(t, label, [IdleCall EXCEPT !.draft = d, !.state = state]),
             UNCHANGED <<now, faults, tables, forem>>
      PROVE  Inv'
  <2>. DEFINE c == [IdleCall EXCEPT !.draft = d, !.state = state]
  <2>1. c \in Call /\ c.draft = d /\ c.state = state
    BY IdleType DEF IdleCall, Call
  <2>. HIDE DEF c
  <2>2. Fit(label, c)
    BY <1>2, <2>1 DEF Fit, WithKey, Checked, Recorded
  <2>3. label \in Label \ {"create"}
    BY DEF Label
  <2>4. Begin(t, label, c)
    BY <1>2 DEF c
  <2> QED BY <1>1, <1>2, <2>1, <2>2, <2>3, <2>4, BeginFacts, ReadStep
<1>3. CASE SubmitBegin(t, d)
  <2>1. PICK state \in DraftState : state = drafts[d].state
    BY <1>1
  <2> QED BY <1>2, <1>3, <2>1 DEF SubmitBegin
<1>4. ASSUME NEW decision \in {"APPROVED", "REJECTED"}, ApproveBegin(t, d, decision)
      PROVE  Inv'
  <2>1. decision \in DraftState
    BY DEF DraftState
  <2> QED BY <1>2, <1>4, <2>1 DEF ApproveBegin
<1> QED BY <1>3, <1>4

LEMMA PublishReads ==
    ASSUME Inv, NEW t \in Thread, NEW d \in Draft, NEW key \in Key, PublishBegin(t, d, key)
    PROVE  Inv'
<1>. DEFINE c == [IdleCall EXCEPT !.draft = d, !.key = key]
<1>1. c \in Call /\ c.draft = d /\ c.key = key
  BY IdleType DEF IdleCall, Call
<1>2. Begin(t, "publish", c) /\ UNCHANGED <<now, faults, tables, forem>>
  BY DEF PublishBegin
<1>. HIDE DEF c
<1>3. now \in Nat /\ faults \in Nat
  BY DEF Inv, Data, DataTyped
<1>4. Fit("publish", c)
  BY <1>1 DEF Fit, OnRow, Checked, Recorded
<1>5. "publish" \in Label \ {"create"}
  BY DEF Label
<1> QED BY <1>1, <1>2, <1>3, <1>4, <1>5, BeginFacts, ReadStep

\* A call under way goes on to a label, with a memory that fits, having read only.
LEMMA GoOn ==
    ASSUME Inv, NEW t \in Thread, NEW label \in Label \ {"create"}, NEW c \in Call,
           Goto(t, label), Remember(t, c), Fit(label, c),
           UNCHANGED <<now, faults, overlapped, tables, forem>>
    PROVE  Inv'
<1>1. now' \in Nat /\ faults' \in Nat /\ overlapped' \in BOOLEAN
  BY DEF Inv, Data, DataTyped
<1> QED BY <1>1, ReadStep

\* What a call under way remembers.
LEMMA Memory ==
    ASSUME Inv, NEW t \in Thread
    PROVE  /\ pc[t] \in Label /\ call[t] \in Call
           /\ Fit(pc[t], call[t])
           /\ \A label : Continue(t, label) => Goto(t, label) /\ Remember(t, call[t])
           /\ Return(t) => Goto(t, "idle") /\ Remember(t, IdleCall)
           /\ "idle" \in Label \ {"create"}
<1>1. pc[t] \in Label /\ call[t] \in Call /\ Fit(pc[t], call[t])
  BY DEF Inv, Calls
<1>2. call = [call EXCEPT ![t] = call[t]]
  BY DEF Inv, Calls
<1>3. ASSUME NEW label, Continue(t, label)
      PROVE  Goto(t, label) /\ Remember(t, call[t])
  BY <1>2, <1>3 DEF Continue, Remember
<1> QED BY <1>1, <1>3 DEF Return, Label

\* A call gives up, or returns, having written nothing.
LEMMA Leave ==
    ASSUME Inv, NEW t \in Thread, Return(t), faults' \in Nat,
           UNCHANGED <<now, overlapped, tables, forem>>
    PROVE  Inv'
<1>1. now' \in Nat /\ overlapped' \in BOOLEAN
  BY DEF Inv, Data, DataTyped
<1> QED BY <1>1, Memory, IdleType, IdleFits, ReadStep

LEMMA ThrowStep ==
    ASSUME Inv, NEW t \in Thread, Throw(t)
    PROVE  Inv'
<1>1. faults' \in Nat
  BY DEF Throw, Inv, Data, DataTyped
<1> QED BY <1>1, Leave DEF Throw

LEMMA AppendReadStep ==
    ASSUME Inv, NEW t \in Thread, AppendRead(t)
    PROVE  Inv'
<1>1. PICK k \in Call : k = call[t]
  BY Memory
<1>2. Fit("append", k)
  BY <1>1, Memory DEF AppendRead
<1>3. k.draft \in created /\ k.body \in Body /\ k.draft \in Draft
  BY <1>2 DEF Fit, OnRow, Label, Inv, Data, DataTyped
<1>4. PICK n \in Nat : n = Len(versions[k.draft])
  BY <1>3 DEF Inv, Data, DataTyped
<1>a. PICK m \in Nat : m = n + 1
  OBVIOUS
<1>5. PICK c \in Call : c = [k EXCEPT !.version = m]
  BY DEF Call
<1>6. c.draft = k.draft /\ c.body = k.body /\ c.version = n + 1
  BY <1>5, <1>a DEF Call
<1>7. Fit("appended", c)
  BY <1>3, <1>4, <1>6 DEF Fit, WithKey, Checked, Recorded
<1>8. "appended" \in Label \ {"create"}
  BY DEF Label
<1>9. /\ Goto(t, "appended") /\ Remember(t, c)
      /\ UNCHANGED <<now, faults, overlapped, tables, forem>>
  BY <1>1, <1>4, <1>5, <1>a DEF AppendRead
<1> QED BY <1>7, <1>8, <1>9, GoOn

LEMMA SubmitLintStep ==
    ASSUME Inv, NEW t \in Thread, SubmitLint(t)
    PROVE  Inv'
<1>1. CASE Return(t)
  BY <1>1, Leave DEF SubmitLint, Inv, Data, DataTyped
<1>2. ASSUME NEW label \in {"ready", "await"}, Continue(t, label)
      PROVE  Inv'
  <2>1. PICK k \in Call : k = call[t]
    BY Memory
  <2>2. Fit("lint", k)
    BY <2>1, Memory DEF SubmitLint
  <2>3. Fit(label, k)
    BY <2>2 DEF Fit, OnRow, Label, WithKey, Checked, Recorded
  <2>4. label \in Label \ {"create"}
    BY DEF Label
  <2>5. Goto(t, label) /\ Remember(t, k)
    BY <1>2, <2>1, Memory
  <2> QED BY <2>3, <2>4, <2>5, GoOn DEF SubmitLint
<1> QED BY <1>1, <1>2 DEF SubmitLint

LEMMA ApproveVersionStep ==
    ASSUME Inv, NEW t \in Thread, ApproveVersion(t)
    PROVE  Inv'
<1>1. PICK k \in Call : k = call[t]
  BY Memory
<1>2. Fit("decide", k)
  BY <1>1, Memory DEF ApproveVersion
<1>3. k.draft \in created /\ k.draft \in Draft /\ k.state \in {"APPROVED", "REJECTED"}
  BY <1>2 DEF Fit, OnRow, Label, Inv, Data, DataTyped
<1>4. PICK n \in Nat : n = drafts[k.draft].current
  BY <1>3 DEF Inv, Data, DataTyped, DraftRow
<1>5. n \in 1 .. Len(versions[k.draft])
  BY <1>3, <1>4 DEF Inv, Data, RowsRelated
<1>6. PICK c \in Call : c = [k EXCEPT !.version = n]
  BY DEF Call
<1>7. c.draft = k.draft /\ c.state = k.state /\ c.version = n
  BY <1>6 DEF Call
<1>8. Fit("approve", c)
  BY <1>3, <1>5, <1>7 DEF Fit, WithKey, Checked, Recorded
<1>9. "approve" \in Label \ {"create"}
  BY DEF Label
<1>10. /\ Goto(t, "approve") /\ Remember(t, c)
       /\ UNCHANGED <<now, faults, overlapped, tables, forem>>
  BY <1>1, <1>4, <1>6 DEF ApproveVersion
<1> QED BY <1>8, <1>9, <1>10, GoOn

LEMMA PublishDraftStep ==
    ASSUME Inv, NEW t \in Thread, PublishDraft(t)
    PROVE  Inv'
<1>1. PICK k \in Call : k = call[t]
  BY Memory
<1>2. Fit("publish", k)
  BY <1>1, Memory DEF PublishDraft
<1>3. k.draft \in Draft /\ k.key \in Key
  BY <1>2 DEF Fit, WithKey
<1>4. CASE Return(t)
  BY <1>4, Leave DEF PublishDraft, Inv, Data, DataTyped
<1>5. ASSUME k.draft \in created, drafts[k.draft].onForem,
             Goto(t, "publishVersion"),
             Remember(t, [k EXCEPT !.state = drafts[k.draft].state])
      PROVE  Inv'
  <2>1. PICK s \in DraftState : s = drafts[k.draft].state
    BY <1>3 DEF Inv, Data, DataTyped, DraftRow
  <2>2. PICK c \in Call : c = [k EXCEPT !.state = s]
    BY DEF Call
  <2>3. c.draft = k.draft /\ c.key = k.key
    BY <2>2 DEF Call
  <2>4. remote[k.draft] # None
    BY <1>3, <1>5 DEF Inv, Data, RowsRelated
  <2>5. Fit("publishVersion", c)
    BY <1>3, <1>5, <2>3, <2>4 DEF Fit, Checked, Recorded
  <2>6. "publishVersion" \in Label \ {"create"}
    BY DEF Label
  <2> QED BY <1>5, <2>1, <2>2, <2>5, <2>6, GoOn DEF PublishDraft
<1> QED BY <1>1, <1>4, <1>5 DEF PublishDraft

LEMMA PublishVersionStep ==
    ASSUME Inv, NEW t \in Thread, PublishVersion(t)
    PROVE  Inv'
<1>1. PICK k \in Call : k = call[t]
  BY Memory
<1>2. Fit("publishVersion", k)
  BY <1>1, Memory DEF PublishVersion
<1>3. k.draft \in created /\ k.draft \in Draft
  BY <1>2 DEF Fit, OnRow, Label, Inv, Data, DataTyped
<1>4. PICK n \in Nat : n = drafts[k.draft].current
  BY <1>3 DEF Inv, Data, DataTyped, DraftRow
<1>5. PICK c \in Call : c = [k EXCEPT !.version = n]
  BY DEF Call
<1>6. c.draft = k.draft /\ c.key = k.key
  BY <1>5 DEF Call
<1>7. Fit("publishCheck", c)
  BY <1>2, <1>3, <1>6 DEF Fit, OnRow, Label, WithKey, Checked, Recorded
<1>8. "publishCheck" \in Label \ {"create"}
  BY DEF Label
<1>9. /\ Goto(t, "publishCheck") /\ Remember(t, c)
      /\ UNCHANGED <<now, faults, overlapped, tables, forem>>
  BY <1>1, <1>4, <1>5 DEF PublishVersion
<1> QED BY <1>7, <1>8, <1>9, GoOn

LEMMA PublishCheckStep ==
    ASSUME Inv, NEW t \in Thread, PublishCheck(t)
    PROVE  Inv'
<1>1. PICK k \in Call : k = call[t]
  BY Memory
<1>2. CASE Return(t)
  BY <1>2, Leave DEF PublishCheck, Inv, Data, DataTyped
<1>3. ASSUME Continue(t, "publishing"),
             \E a \in ApprovalForVersion(k.draft, k.version) :
                ApprovalValid(a, k.version, versions[k.draft][k.version])
      PROVE  Inv'
  <2>1. Fit("publishCheck", k)
    BY <1>1, Memory DEF PublishCheck
  <2>2. HumanApproved(k.draft)
    BY <1>3 DEF ApprovalForVersion, ApprovalsOf, ApprovalValid, HumanApproved
  <2>3. Fit("publishing", k)
    BY <2>1, <2>2 DEF Fit, OnRow, Label, WithKey, Checked, Recorded
  <2>4. "publishing" \in Label \ {"create"}
    BY DEF Label
  <2>5. Goto(t, "publishing") /\ Remember(t, k)
    BY <1>1, <1>3, Memory
  <2> QED BY <2>3, <2>4, <2>5, GoOn DEF PublishCheck
<1> QED BY <1>1, <1>2, <1>3 DEF PublishCheck

LEMMA SubmitSteps ==
    ASSUME Inv, NEW t \in Thread, SubmitReady(t) \/ SubmitAwait(t)
    PROVE  Inv'
<1>1. PICK k \in Call : k = call[t]
  BY Memory
<1>2. k.draft \in Draft
  BY <1>1, Memory DEF Fit, OnRow, Label, Inv, Data, DataTyped, SubmitReady, SubmitAwait
<1>3. CASE SubmitReady(t)
  <2>1. setDraftState(k.draft, "DRAFT_READY") /\ Goto(t, "await") /\ Remember(t, k)
    BY <1>1, <1>3, Memory DEF SubmitReady
  <2>2. Fit("ready", k)
    BY <1>1, <1>3, Memory DEF SubmitReady
  <2>3. Fit("await", k)
    BY <2>2 DEF Fit, OnRow, Label, WithKey, Checked, Recorded
  <2>4. "await" \in Label \ {"create"} /\ "DRAFT_READY" \in DraftState
    BY DEF Label, DraftState
  <2> QED BY <1>2, <1>3, <2>1, <2>3, <2>4, StateStep DEF SubmitReady
<1>4. CASE SubmitAwait(t)
  <2>1. setDraftState(k.draft, "AWAITING_APPROVAL") /\ Goto(t, "idle") /\ Remember(t, IdleCall)
    BY <1>1, <1>4, Memory DEF SubmitAwait
  <2>2. "idle" \in Label \ {"create"} /\ "AWAITING_APPROVAL" \in DraftState
    BY DEF Label, DraftState
  <2> QED BY <1>2, <1>4, <2>1, <2>2, IdleType, IdleFits, StateStep DEF SubmitAwait
<1> QED BY <1>3, <1>4

LEMMA ApproveStateStep ==
    ASSUME Inv, NEW t \in Thread, ApproveState(t)
    PROVE  Inv'
<1>1. PICK k \in Call : k = call[t]
  BY Memory
<1>2. Fit("decided", k)
  BY <1>1, Memory DEF ApproveState
<1>3. k.draft \in Draft
  BY <1>2 DEF Fit, OnRow, Label, Inv, Data, DataTyped
<1>4. PICK s \in DraftState : s = k.state
  BY DEF Call
<1>5. setDraftState(k.draft, s) /\ Goto(t, "idle") /\ Remember(t, IdleCall)
  BY <1>1, <1>4, Memory DEF ApproveState
<1>6. "idle" \in Label \ {"create"}
  BY DEF Label
<1> QED BY <1>3, <1>5, <1>6, IdleType, IdleFits, StateStep DEF ApproveState

LEMMA PublishStates ==
    ASSUME Inv, NEW t \in Thread, PublishingState(t) \/ PublishedState(t)
    PROVE  Inv'
<1>1. PICK k \in Call : k = call[t]
  BY Memory
<1>2. k.draft \in Draft
  BY <1>1, Memory DEF Fit, OnRow, Label, Inv, Data, DataTyped, PublishingState, PublishedState
<1>3. "PUBLISHING" \in DraftState /\ "PUBLISHED" \in DraftState
  BY DEF DraftState
<1>4. CASE PublishingState(t)
  <2>1. /\ setDraftState(k.draft, "PUBLISHING")
        /\ Goto(t, "recordPublishing") /\ Remember(t, k)
    BY <1>1, <1>4, Memory DEF PublishingState
  <2>2. Fit("publishing", k)
    BY <1>1, <1>4, Memory DEF PublishingState
  <2>3. Fit("recordPublishing", k)
    BY <2>2 DEF Fit, OnRow, Label, WithKey, Checked, Recorded
  <2>4. "recordPublishing" \in Label \ {"create"}
    BY DEF Label
  <2> QED BY <1>2, <1>3, <1>4, <2>1, <2>3, <2>4, StateStep DEF PublishingState
<1>5. CASE PublishedState(t)
  <2>1. /\ setDraftState(k.draft, "PUBLISHED")
        /\ Goto(t, "recordPublished") /\ Remember(t, k)
    BY <1>1, <1>5, Memory DEF PublishedState
  <2>2. Fit("published", k)
    BY <1>1, <1>5, Memory DEF PublishedState
  <2>3. Fit("recordPublished", k)
    BY <2>2 DEF Fit, OnRow, Label, WithKey, Checked, Recorded
  <2>4. "recordPublished" \in Label \ {"create"}
    BY DEF Label
  <2> QED BY <1>2, <1>3, <1>5, <2>1, <2>3, <2>4, StateStep DEF PublishedState
<1> QED BY <1>4, <1>5

LEMMA TickStep ==
    ASSUME Inv, Tick
    PROVE  Inv'
<1>1. /\ UNCHANGED <<faults, overlapped, created, drafts, versions, approvals,
                     publishRuns, remote, abandoned, sent, pc, call>>
      /\ now' = now + 1
  BY DEF Tick, tables, forem
<1>2. Data'
  BY <1>1 DEF Inv, Data, DataTyped, RowsRelated, ApprovedDraftsExist, ApprovalKeepsItsText,
     PublicWasApproved, IsPublic, AbandonedLegal, HumanApproved, RequestIsRecorded
<1>3. Calls'
  BY <1>1 DEF Inv, Calls, Fit, OneCreator, HumanApproved
<1> QED BY <1>2, <1>3 DEF Inv

LEMMA StutterStep ==
    ASSUME Inv, UNCHANGED vars
    PROVE  Inv'
<1>1. UNCHANGED <<now, faults, overlapped, created, drafts, versions, approvals,
                  publishRuns, remote, abandoned, sent, pc, call>>
  BY DEF vars, tables, forem
<1>2. Data'
  BY <1>1 DEF Inv, Data, DataTyped, RowsRelated, ApprovedDraftsExist, ApprovalKeepsItsText,
     PublicWasApproved, IsPublic, AbandonedLegal, HumanApproved, RequestIsRecorded
<1>3. Calls'
  BY <1>1 DEF Inv, Calls, Fit, OneCreator, HumanApproved
<1> QED BY <1>2, <1>3 DEF Inv

\* A row of an approval is added for a version the draft has.
LEMMA CreateApprovalStep ==
    ASSUME Inv, NEW t \in Thread, CreateApproval(t)
    PROVE  Inv'
<1>1. PICK k \in Call : k = call[t]
  BY Memory
<1>2. Fit("approve", k)
  BY <1>1, Memory DEF CreateApproval
<1>3. /\ k.draft \in created /\ k.draft \in Draft
      /\ k.version \in 1 .. Len(versions[k.draft])
      /\ k.state \in {"APPROVED", "REJECTED"}
  BY <1>2 DEF Fit, OnRow, Label, Inv, Data, DataTyped
<1>4. PICK ttl \in Ttl : approvals' = approvals \cup
           {[draft |-> k.draft, version |-> k.version,
             hash |-> versions[k.draft][k.version],
             decision |-> k.state, decidedAt |-> now, expiresAt |-> now + ttl]}
  BY <1>1 DEF CreateApproval
<1>5. PICK a : a = [draft |-> k.draft, version |-> k.version,
             hash |-> versions[k.draft][k.version],
             decision |-> k.state, decidedAt |-> now, expiresAt |-> now + ttl]
  OBVIOUS
<1>6. UNCHANGED <<now, faults, overlapped, created, drafts, versions, publishRuns,
                  remote, abandoned, sent>>
  BY DEF CreateApproval, forem
<1>7. versions[k.draft][k.version] \in Body /\ k.version \in Nat
  BY <1>3 DEF Inv, Data, DataTyped
<1>8. now + ttl \in Nat /\ now \in Nat
  BY NumberAssumption DEF Inv, Data, DataTyped
<1>9. a \in Approval
  <2>1. PICK h \in Body, v \in Nat, e \in Nat :
           h = versions[k.draft][k.version] /\ v = k.version /\ e = now + ttl
    BY <1>7, <1>8
  <2>2. a = [draft |-> k.draft, version |-> v, hash |-> h,
             decision |-> k.state, decidedAt |-> now, expiresAt |-> e]
    BY <1>5, <2>1
  <2> QED BY <1>3, <1>8, <2>2 DEF Approval
<1>10. approvals' = approvals \cup {a}
  BY <1>4, <1>5
<1>11. a.draft = k.draft /\ a.version = k.version /\ a.hash = versions[k.draft][k.version]
  BY <1>5
<1>12. DataTyped'
  BY <1>6, <1>9, <1>10 DEF Inv, Data, DataTyped
<1>13. RowsRelated' /\ RequestIsRecorded'
  BY <1>6 DEF Inv, Data, RowsRelated, RequestIsRecorded
<1>14. ApprovedDraftsExist' /\ ApprovalKeepsItsText'
  BY <1>3, <1>6, <1>10, <1>11 DEF Inv, Data, ApprovedDraftsExist, ApprovalKeepsItsText
<1>15. PublicWasApproved' /\ AbandonedLegal'
  BY <1>6, <1>10 DEF Inv, Data, PublicWasApproved, IsPublic, AbandonedLegal, HumanApproved
<1>16. Data'
  BY <1>12, <1>13, <1>14, <1>15 DEF Data
<1>17. Grown
  <2>1. \A d \in created : Len(versions[d]) \in Nat
    BY DEF Inv, Data, DataTyped
  <2> QED BY <1>6, <1>10, <2>1 DEF Grown
<1>18. Fit("decided", k)'
  <2>1. Fit("decided", k)
    BY <1>2 DEF Fit, OnRow, Label, WithKey, Checked, Recorded
  <2> QED BY <2>1, <1>12, <1>17, FitKept DEF Inv, Label
<1>19. Goto(t, "decided") /\ Remember(t, k)
  BY <1>1, Memory DEF CreateApproval
<1>20. "decided" \in Label \ {"create"}
  BY DEF Label
<1> QED BY <1>6, <1>16, <1>17, <1>18, <1>19, <1>20, TableStep

\* A row of a publish run is written for a key.
LEMMA RecordRuns ==
    ASSUME Inv, NEW t \in Thread, RecordPublishing(t) \/ RecordPublished(t)
    PROVE  Inv'
<1>1. PICK k \in Call : k = call[t]
  BY Memory
<1>2. PICK l \in {"recordPublishing", "recordPublished"} : pc[t] = l /\ Fit(l, k)
  BY <1>1, Memory DEF RecordPublishing, RecordPublished
<1>3. /\ k.draft \in created /\ k.draft \in Draft /\ k.key \in Key
  BY <1>2 DEF Fit, OnRow, Label, WithKey, Checked, Inv, Data, DataTyped
<1>4. PICK state \in {"PUBLISHING", "PUBLISHED"} :
         publishRuns' = [publishRuns EXCEPT ![k.key] = [draft |-> k.draft, state |-> state]]
  BY <1>1 DEF RecordPublishing, RecordPublished, recordRun
<1>5. UNCHANGED <<now, faults, overlapped, created, drafts, versions, approvals,
                  remote, abandoned, sent>>
  BY DEF RecordPublishing, RecordPublished, forem
<1>6. PICK r \in PublishRun : r = [draft |-> k.draft, state |-> state]
  BY <1>3, <1>4 DEF PublishRun
<1>7. r # None
  BY <1>6, NoRowAssumption
<1>8. publishRuns' = [publishRuns EXCEPT ![k.key] = r]
  BY <1>4, <1>6
<1>9. /\ publishRuns' \in [Key -> PublishRun \cup {None}]
      /\ publishRuns'[k.key] # None
      /\ \A key \in Key : publishRuns[key] # None => publishRuns'[key] # None
  BY <1>3, <1>7, <1>8 DEF Inv, Data, DataTyped
<1>10. DataTyped'
  BY <1>5, <1>9 DEF Inv, Data, DataTyped
<1>11. RequestIsRecorded'
  BY <1>5, <1>9 DEF Inv, Data, DataTyped, RequestIsRecorded
<1>12. Data'
  BY <1>5, <1>10, <1>11 DEF Inv, Data, RowsRelated, ApprovedDraftsExist,
     ApprovalKeepsItsText, PublicWasApproved, IsPublic, AbandonedLegal, HumanApproved
<1>13. Grown
  <2>1. \A d \in created : Len(versions[d]) \in Nat
    BY DEF Inv, Data, DataTyped
  <2> QED BY <1>5, <1>9, <2>1 DEF Grown
<1>14. Fit(l, k)'
  BY <1>2, <1>10, <1>13, FitKept DEF Inv, Label
<1>15. CASE RecordPublishing(t)
  <2>1. l = "recordPublishing" /\ Goto(t, "forem") /\ Remember(t, k)
    BY <1>1, <1>2, <1>15, Memory DEF RecordPublishing
  <2>2. Fit("forem", k)'
    BY <1>9, <1>14, <2>1 DEF Fit, OnRow, Label, WithKey, Checked, Recorded
  <2>3. "forem" \in Label \ {"create"}
    BY DEF Label
  <2> QED BY <1>5, <1>12, <1>13, <2>1, <2>2, <2>3, TableStep
<1>16. CASE RecordPublished(t)
  <2>1. Goto(t, "idle") /\ Remember(t, IdleCall)
    BY <1>16, Memory DEF RecordPublished
  <2>2. Fit("idle", IdleCall)'
    BY DEF Fit, OnRow, WithKey, Checked, Recorded
  <2>3. "idle" \in Label \ {"create"}
    BY DEF Label
  <2> QED BY <1>5, <1>12, <1>13, <2>1, <2>2, <2>3, IdleType, TableStep
<1> QED BY <1>15, <1>16

\* The article of a draft is written at Forem: public only for an approved draft
\* with a recorded key, and so are the requests that may be carried out later.
LEMMA RemoteStep ==
    ASSUME Inv, NEW d \in Draft, NEW a \in Article,
           remote' = [remote EXCEPT ![d] = a],
           a.published => HumanApproved(d),
           abandoned' \subseteq Write,
           \A w \in abandoned' \ abandoned : w.draft = d /\ (w.published => HumanApproved(d)),
           sent \subseteq sent', \A key \in sent' : key \in Key /\ publishRuns[key] # None,
           faults' \in Nat, overlapped' \in BOOLEAN, UNCHANGED <<now, tables>>
    PROVE  Data' /\ Grown /\ remote'[d] # None
<1>1. UNCHANGED <<now, created, drafts, versions, approvals, publishRuns>>
  BY DEF tables
<1>2. a # None
  BY NoRowAssumption
<1>3. /\ remote' \in [Draft -> Article \cup {None}]
      /\ remote'[d] = a
      /\ \A e \in Draft \ {d} : remote'[e] = remote[e]
  BY DEF Inv, Data, DataTyped
<1>4. DataTyped'
  BY <1>1, <1>3 DEF Inv, Data, DataTyped
<1>5. RowsRelated' /\ ApprovedDraftsExist' /\ ApprovalKeepsItsText' /\ RequestIsRecorded'
  BY <1>1, <1>2, <1>3 DEF Inv, Data, RowsRelated, ApprovedDraftsExist,
     ApprovalKeepsItsText, RequestIsRecorded
<1>6. PublicWasApproved'
  BY <1>1, <1>3 DEF Inv, Data, PublicWasApproved, IsPublic, HumanApproved
<1>7. Grown
  <2>1. \A e \in created : Len(versions[e]) \in Nat
    BY DEF Inv, Data, DataTyped
  <2> QED BY <1>1, <1>2, <1>3, <2>1 DEF Grown
<1>8. AbandonedLegal'
  <2>1. \A w \in abandoned' : w.draft \in Draft
    BY DEF Write
  <2>2. \A w \in abandoned' :
          /\ w.draft = d \/ remote[w.draft] # None
          /\ w.published => HumanApproved(w.draft)
    BY DEF Inv, Data, AbandonedLegal
  <2> QED BY <1>1, <1>2, <1>3, <2>1, <2>2 DEF AbandonedLegal, HumanApproved
<1> QED BY <1>2, <1>3, <1>4, <1>5, <1>6, <1>7, <1>8 DEF Data

\* What a PUT on a draft with an article leaves there.
LEMMA WrittenArticle ==
    ASSUME Inv, NEW w \in Write, remote[w.draft] # None
    PROVE  \E a \in Article : Written(w) = [remote EXCEPT ![w.draft] = a]
                              /\ a.published = w.published
<1>1. PICK b \in Article : b = remote[w.draft]
  BY DEF Inv, Data, DataTyped, Write
<1>2. PICK body \in Body : body = IF w.body = None THEN b.body ELSE w.body
  BY DEF Article, Write
<1>3. PICK a \in Article : a = [body |-> body, published |-> w.published]
  BY DEF Article, Write
<1>4. a.published = w.published
  BY <1>3
<1>5. Written(w) = [remote EXCEPT ![w.draft] = a]
  BY <1>1, <1>2, <1>3 DEF Written
<1> QED BY <1>4, <1>5

\* A PUT that is carried out, or may be: at once, later, or at once and later again.
LEMMA PutStep ==
    ASSUME Inv, NEW w \in Write, remote[w.draft] # None, w.published => HumanApproved(w.draft),
           remote' = Written(w) \/ remote' = remote,
           abandoned' \subseteq abandoned \cup {w},
           sent \subseteq sent', \A key \in sent' : key \in Key /\ publishRuns[key] # None,
           faults' \in Nat, overlapped' \in BOOLEAN, UNCHANGED <<now, tables>>
    PROVE  Data' /\ Grown
<1>1. w.draft \in Draft /\ abandoned' \subseteq Write
  BY DEF Write, Inv, Data, DataTyped
<1>2. \A x \in abandoned' \ abandoned :
        x.draft = w.draft /\ (x.published => HumanApproved(w.draft))
  OBVIOUS
<1>3. PICK a \in Article : remote' = [remote EXCEPT ![w.draft] = a]
                           /\ (a.published => HumanApproved(w.draft))
  <2>1. CASE remote' = Written(w)
    BY <2>1, WrittenArticle
  <2>2. CASE remote' = remote
    <3>1. PICK b \in Article : b = remote[w.draft]
      BY <1>1 DEF Inv, Data, DataTyped
    <3>2. remote' = [remote EXCEPT ![w.draft] = b]
      BY <2>2, <3>1, <1>1 DEF Inv, Data, DataTyped
    <3>3. b.published => HumanApproved(w.draft)
      BY <1>1, <3>1 DEF Inv, Data, PublicWasApproved, IsPublic
    <3> QED BY <3>2, <3>3
  <2> QED BY <2>1, <2>2
<1> QED BY <1>1, <1>2, <1>3, RemoteStep

LEMMA PublishRemoteStep ==
    ASSUME Inv, NEW t \in Thread, PublishRemote(t)
    PROVE  Inv'
<1>1. PICK k \in Call : k = call[t]
  BY Memory
<1>2. Fit("forem", k)
  BY <1>1, Memory DEF PublishRemote
<1>3. /\ k.draft \in created /\ k.draft \in Draft /\ k.key \in Key
      /\ remote[k.draft] # None /\ HumanApproved(k.draft)
      /\ publishRuns[k.key] # None
  BY <1>2 DEF Fit, OnRow, Label, WithKey, Checked, Recorded, Inv, Data, DataTyped
<1>4. PICK w \in Write : w = [draft |-> k.draft, body |-> None, published |-> TRUE]
  BY <1>3 DEF Write
<1>5. w.draft = k.draft
  BY <1>4
<1>6. Put(t, w, Continue(t, "published"))
  BY <1>1, <1>4 DEF PublishRemote
<1>7. UNCHANGED <<now, overlapped, tables>> /\ sent' = sent \cup {k.key}
  BY <1>1 DEF PublishRemote
<1>8. faults' \in Nat /\ overlapped' \in BOOLEAN
  BY <1>6, <1>7 DEF Put, Answered, Inv, Data, DataTyped
<1>9. \A key \in sent' : key \in Key /\ publishRuns[key] # None
  BY <1>3, <1>7 DEF Inv, Data, DataTyped, RequestIsRecorded
<1>10. Data' /\ Grown
  <2>1. remote' = Written(w) \/ remote' = remote
    BY <1>6 DEF Put
  <2>2. abandoned' \subseteq abandoned \cup {w}
    BY <1>6 DEF Put
  <2> QED BY <1>3, <1>5, <1>7, <1>8, <1>9, <2>1, <2>2, PutStep
<1>11. created' = created
  BY <1>7 DEF tables
<1>12. CASE Return(t)
  <2>1. Fit("idle", IdleCall)'
    BY DEF Fit, OnRow, WithKey, Checked, Recorded
  <2> QED BY <1>10, <1>11, <1>12, <2>1, Memory, IdleType, TableStep
<1>13. CASE Continue(t, "published")
  <2>1. Fit("published", k)
    BY <1>2 DEF Fit, OnRow, Label, WithKey, Checked, Recorded
  <2>2. "published" \in Label \ {"create"}
    BY DEF Label
  <2>3. Fit("published", k)'
    BY <1>10, <2>1, <2>2, FitKept DEF Inv, Data
  <2>4. Goto(t, "published") /\ Remember(t, k)
    BY <1>1, <1>13, Memory
  <2> QED BY <1>10, <1>11, <2>2, <2>3, <2>4, TableStep
<1> QED BY <1>6, <1>12, <1>13 DEF Put, Answered

LEMMA UpdateRemoteStep ==
    ASSUME Inv, NEW t \in Thread, UpdateRemote(t)
    PROVE  Inv'
<1>1. PICK k \in Call : k = call[t]
  BY Memory
<1>2. Fit("updateRemote", k)
  BY <1>1, Memory DEF UpdateRemote
<1>3. /\ k.draft \in created /\ k.draft \in Draft /\ remote[k.draft] # None
  BY <1>2 DEF Fit, OnRow, Label, Inv, Data, DataTyped
<1>4. PICK w \in Write : w = [draft |-> k.draft, body |-> k.body, published |-> FALSE]
  BY <1>3 DEF Write, Call
<1>5. w.draft = k.draft /\ ~w.published
  BY <1>4
<1>6. Put(t, w, IF k.body = None THEN Return(t) ELSE Continue(t, "append"))
  BY <1>1, <1>4 DEF UpdateRemote
<1>7. UNCHANGED <<now, overlapped, tables, sent>>
  BY DEF UpdateRemote
<1>8. faults' \in Nat /\ overlapped' \in BOOLEAN
  BY <1>6, <1>7 DEF Put, Answered, Inv, Data, DataTyped
<1>9. \A key \in sent' : key \in Key /\ publishRuns[key] # None
  BY <1>7 DEF Inv, Data, DataTyped, RequestIsRecorded
<1>10. Data' /\ Grown
  <2>1. remote' = Written(w) \/ remote' = remote
    BY <1>6 DEF Put
  <2>2. abandoned' \subseteq abandoned \cup {w}
    BY <1>6 DEF Put
  <2> QED BY <1>3, <1>5, <1>7, <1>8, <1>9, <2>1, <2>2, PutStep
<1>11. created' = created
  BY <1>7 DEF tables
<1>12. CASE Return(t)
  <2>1. Fit("idle", IdleCall)'
    BY DEF Fit, OnRow, WithKey, Checked, Recorded
  <2> QED BY <1>10, <1>11, <1>12, <2>1, Memory, IdleType, TableStep
<1>13. CASE k.body # None /\ Continue(t, "append")
  <2>1. k.body \in Body
    BY <1>13 DEF Call
  <2>2. Fit("append", k)
    BY <1>2, <2>1 DEF Fit, OnRow, Label, WithKey, Checked, Recorded
  <2>3. "append" \in Label \ {"create"}
    BY DEF Label
  <2>4. Fit("append", k)'
    BY <1>10, <2>2, <2>3, FitKept DEF Inv, Data
  <2>5. Goto(t, "append") /\ Remember(t, k)
    BY <1>1, <1>13, Memory
  <2> QED BY <1>10, <1>11, <2>3, <2>4, <2>5, TableStep
<1> QED BY <1>6, <1>12, <1>13 DEF Put, Answered

\* A PUT that nobody waits for is as legal as when it was sent.
LEMMA LateEffectStep ==
    ASSUME Inv, LateEffect
    PROVE  Inv'
<1>1. PICK w \in abandoned : /\ remote' = Written(w)
                             /\ abandoned' = abandoned \ {w}
                             /\ UNCHANGED <<now, faults, overlapped, tables, sent, pc, call>>
  BY DEF LateEffect
<1>2. w \in Write /\ remote[w.draft] # None /\ (w.published => HumanApproved(w.draft))
  BY DEF Inv, Data, DataTyped, AbandonedLegal
<1>3. /\ faults' \in Nat /\ overlapped' \in BOOLEAN
      /\ \A key \in sent' : key \in Key /\ publishRuns[key] # None
  BY <1>1 DEF Inv, Data, DataTyped, RequestIsRecorded
<1>4. Data' /\ Grown
  BY <1>1, <1>2, <1>3, PutStep
<1>5. \A e \in Draft : remote[e] # None => remote'[e] # None
  BY <1>4 DEF Grown
<1>6. UNCHANGED <<created, drafts, versions, approvals, publishRuns, pc, call>>
  BY <1>1 DEF tables
<1>7. \A t \in Thread : Fit(pc[t], call[t])'
  <2>1. SUFFICES ASSUME NEW t \in Thread
                 PROVE  Fit(pc[t], call[t])'
    OBVIOUS
  <2>2. PICK l \in Label, k \in Call : l = pc[t] /\ k = call[t]
    BY DEF Inv, Calls
  <2>3. Fit(l, k) /\ (l = "create" => k.draft \notin created')
    BY <1>6, <2>2 DEF Inv, Calls, Fit
  <2>4. Fit(l, k)'
    BY <1>4, <2>3, FitKept DEF Inv, Data
  <2> QED BY <1>6, <2>2, <2>4 DEF Fit
<1>8. Calls'
  BY <1>6, <1>7 DEF Inv, Calls, OneCreator
<1> QED BY <1>4, <1>8 DEF Inv

\* appendVersion commits: the next number, or none.
LEMMA AppendCommitStep ==
    ASSUME Inv, NEW t \in Thread, AppendCommit(t)
    PROVE  Inv'
<1>1. PICK k \in Call : k = call[t]
  BY Memory
<1>2. Fit("appended", k)
  BY <1>1, Memory DEF AppendCommit
<1>3. PICK d \in Draft : d = k.draft
  BY <1>2 DEF Fit, OnRow, Label, Inv, Data, DataTyped
<1>4. /\ d \in created /\ k.body \in Body
      /\ k.version \in 1 .. Len(versions[d]) + 1
  BY <1>2, <1>3 DEF Fit, OnRow, Label
<1>5. /\ UNCHANGED <<now, faults, overlapped, created, approvals, publishRuns,
                     remote, abandoned, sent>>
      /\ Goto(t, "idle") /\ Remember(t, IdleCall)
  BY Memory DEF AppendCommit, forem
<1>6. Fit("idle", IdleCall)'
  BY DEF Fit, OnRow, WithKey, Checked, Recorded
<1>7. CASE UNCHANGED <<versions, drafts>>
  <2>1. UNCHANGED <<now, faults, overlapped, tables, forem>>
    BY <1>5, <1>7 DEF tables, forem
  <2> QED BY <1>5, <2>1, Memory, IdleType, IdleFits, GoOn
<1>8. ASSUME k.version > Len(versions[d]),
             versions' = [versions EXCEPT ![d] = Append(@, k.body)],
             drafts' = [drafts EXCEPT ![d].current = k.version, ![d].state = "DRAFTING"]
      PROVE  Inv'
  <2>1. PICK s \in Seq(Body) : s = versions[d]
    BY DEF Inv, Data, DataTyped
  <2>2. PICK n \in Nat : n = Len(s)
    OBVIOUS
  <2>3. PICK v \in Nat : v = k.version
    BY DEF Call
  <2>4. v = n + 1
    BY <1>4, <1>8, <2>1, <2>2, <2>3
  <2>5. PICK r \in Seq(Body) : r = Append(s, k.body)
    <3>1. Append(s, k.body) \in Seq(Body)
      BY <1>4
    <3> QED BY <3>1
  <2>6. Len(r) = n + 1 /\ \A i \in 1 .. n : r[i] = s[i]
    BY <1>4, <2>2, <2>5
  <2>7. /\ versions' \in [Draft -> Seq(Body)] /\ versions'[d] = r
        /\ \A e \in Draft \ {d} : versions'[e] = versions[e]
    <3>1. versions' = [versions EXCEPT ![d] = r]
      BY <1>8, <2>1, <2>5
    <3> QED BY <3>1 DEF Inv, Data, DataTyped
  <2>8. /\ drafts' \in [Draft -> DraftRow]
        /\ drafts'[d].current = v /\ drafts'[d].onForem = drafts[d].onForem
        /\ \A e \in Draft \ {d} : drafts'[e] = drafts[e]
    <3>1. PICK row \in DraftRow : row = drafts[d]
      BY DEF Inv, Data, DataTyped
    <3>2. PICK new \in DraftRow : new = [row EXCEPT !.current = v, !.state = "DRAFTING"]
      BY DEF DraftRow, DraftState
    <3>3. new.current = v /\ new.onForem = row.onForem
      BY <3>2 DEF DraftRow
    <3>4. drafts' = [drafts EXCEPT ![d] = new]
      BY <1>8, <2>3, <3>1, <3>2
    <3> QED BY <3>1, <3>3, <3>4 DEF Inv, Data, DataTyped
  <2>9. DataTyped'
    BY <1>5, <2>7, <2>8 DEF Inv, Data, DataTyped
  <2>10. RowsRelated'
    <3>1. \A e \in created' : Len(versions'[e]) >= 1 /\ drafts'[e].current = Len(versions'[e])
      <4>1. ASSUME NEW e \in created
            PROVE  Len(versions'[e]) >= 1 /\ drafts'[e].current = Len(versions'[e])
        <5>1. CASE e = d
          BY <5>1, <2>4, <2>6, <2>7, <2>8
        <5>2. CASE e # d
          BY <5>2, <2>7, <2>8 DEF Inv, Data, DataTyped, RowsRelated
        <5> QED BY <5>1, <5>2
      <4> QED BY <1>5, <4>1
    <3>2. \A e \in Draft : drafts'[e].onForem => remote'[e] # None
      BY <1>5, <2>8 DEF Inv, Data, RowsRelated
    <3> QED BY <3>1, <3>2 DEF RowsRelated
  <2>11. Grown
    <3>1. \A e \in created : e \in Draft /\ Len(versions[e]) \in Nat
      BY DEF Inv, Data, DataTyped
    <3>2. ASSUME NEW e \in created
          PROVE  /\ Len(versions[e]) <= Len(versions'[e])
                 /\ \A i \in 1 .. Len(versions[e]) : versions'[e][i] = versions[e][i]
      <4>1. CASE e = d
        BY <4>1, <2>1, <2>2, <2>6, <2>7
      <4>2. CASE e # d
        BY <4>2, <3>1, <2>7
      <4> QED BY <4>1, <4>2
    <3> QED BY <1>5, <3>2 DEF Grown
  <2>12. ApprovalKeepsItsText'
    <3>1. SUFFICES ASSUME NEW a \in approvals
                   PROVE  /\ a.version \in 1 .. Len(versions'[a.draft])
                          /\ versions'[a.draft][a.version] = a.hash
      BY <1>5 DEF ApprovalKeepsItsText
    <3>2. /\ a.draft \in created /\ a.draft \in Draft
          /\ a.version \in 1 .. Len(versions[a.draft])
          /\ versions[a.draft][a.version] = a.hash
      BY DEF Inv, Data, DataTyped, ApprovedDraftsExist, ApprovalKeepsItsText
    <3>3. Len(versions[a.draft]) \in Nat /\ Len(versions'[a.draft]) \in Nat
      BY <2>7, <3>2 DEF Inv, Data, DataTyped
    <3> QED BY <2>11, <3>2, <3>3 DEF Grown
  <2>13. Data'
    BY <1>5, <2>9, <2>10, <2>12 DEF Inv, Data, ApprovedDraftsExist, PublicWasApproved,
       IsPublic, AbandonedLegal, HumanApproved, RequestIsRecorded
  <2> QED BY <1>5, <1>6, <2>11, <2>13, IdleType, Memory, TableStep
<1> QED BY <1>1, <1>3, <1>7, <1>8 DEF AppendCommit, NumberFree

\* createArticleDraft has the article at Forem: no other call creates that draft.
LEMMA CreateRemoteStep ==
    ASSUME Inv, NEW t \in Thread, NEW d \in Draft, NEW body \in Body,
           CreateRemote(t, d, body)
    PROVE  Inv'
<1>1. d \notin created /\ remote[d] = None
  BY DEF CreateRemote, Fresh
<1>2. PICK a \in Article : a = [body |-> body, published |-> FALSE]
  BY DEF Article
<1>3. remote' = [remote EXCEPT ![d] = a] /\ a.published = FALSE
  BY <1>2 DEF CreateRemote
<1>4. UNCHANGED <<now, tables, abandoned, sent>> /\ abandoned' \subseteq Write
  BY DEF CreateRemote, Inv, Data, DataTyped
<1>5. faults' \in Nat /\ overlapped' \in BOOLEAN
  BY DEF CreateRemote, Answered, Inv, Data, DataTyped
<1>6. \A key \in sent' : key \in Key /\ publishRuns[key] # None
  BY <1>4 DEF Inv, Data, DataTyped, RequestIsRecorded
<1>7. Data' /\ Grown /\ remote'[d] # None
  BY <1>3, <1>4, <1>5, <1>6, RemoteStep
<1>8. created' = created
  BY <1>4 DEF tables
<1>9. CASE Return(t)
  <2>1. Fit("idle", IdleCall)'
    BY DEF Fit, OnRow, WithKey, Checked, Recorded
  <2> QED BY <1>7, <1>8, <1>9, <2>1, Memory, IdleType, TableStep
<1>10. ASSUME Goto(t, "create"),
              Remember(t, [IdleCall EXCEPT !.draft = d, !.body = body])
       PROVE  Inv'
  <2>1. PICK c \in Call : c = [IdleCall EXCEPT !.draft = d, !.body = body]
    BY IdleType DEF IdleCall, Call
  <2>2. c.draft = d /\ c.body = body
    BY <2>1 DEF IdleCall
  <2>3. Fit("create", c)'
    BY <1>1, <1>7, <1>8, <2>2 DEF Fit, OnRow, WithKey, Checked, Recorded
  <2>4. \A u \in Thread \ {t} :
           pc[u] = "create" => call[u].draft \notin created' /\ call[u].draft # d
    BY <1>1, <1>8 DEF Inv, Calls, Fit
  <2>5. "create" \in Label
    BY DEF Label
  <2>6. Calls'
    BY <1>7, <1>10, <2>1, <2>2, <2>3, <2>4, <2>5, CallStep DEF Data
  <2> QED BY <1>7, <2>6 DEF Inv
<1> QED BY <1>9, <1>10 DEF CreateRemote, Answered

\* A row for a draft that had none, with its first version.
LEMMA InsertStep ==
    ASSUME Inv, NEW d \in Draft, d \notin created, NEW body \in Body, NEW onForem \in BOOLEAN,
           onForem => remote[d] # None, InsertDraft(d, body, onForem),
           UNCHANGED <<now, faults, overlapped, approvals, publishRuns, forem>>
    PROVE  Data' /\ Grown /\ created' = created \cup {d}
<1>1. UNCHANGED <<now, faults, overlapped, approvals, publishRuns, remote, abandoned, sent>>
  BY DEF forem
<1>2. PICK r \in Seq(Body) : r = <<body>> /\ Len(r) = 1
  <2>1. <<body>> \in Seq(Body) /\ Len(<<body>>) = 1
    OBVIOUS
  <2> QED BY <2>1
<1>3. /\ created' = created \cup {d}
      /\ versions' \in [Draft -> Seq(Body)] /\ versions'[d] = r
      /\ \A e \in Draft \ {d} : versions'[e] = versions[e]
  <2>1. versions' = [versions EXCEPT ![d] = r]
    BY <1>2 DEF InsertDraft
  <2> QED BY <2>1 DEF InsertDraft, Inv, Data, DataTyped
<1>4. /\ drafts' \in [Draft -> DraftRow]
      /\ drafts'[d].current = 1 /\ drafts'[d].onForem = onForem
      /\ \A e \in Draft \ {d} : drafts'[e] = drafts[e]
  <2>1. PICK row \in DraftRow : row = NewDraft(onForem)
    BY DEF NewDraft, DraftRow, DraftState
  <2>2. row.current = 1 /\ row.onForem = onForem
    BY <2>1 DEF NewDraft
  <2>3. drafts' = [drafts EXCEPT ![d] = row]
    BY <2>1 DEF InsertDraft
  <2> QED BY <2>2, <2>3 DEF Inv, Data, DataTyped
<1>5. DataTyped'
  BY <1>1, <1>3, <1>4 DEF Inv, Data, DataTyped
<1>6. RowsRelated'
  <2>1. \A e \in created' : Len(versions'[e]) >= 1 /\ drafts'[e].current = Len(versions'[e])
    <3>1. ASSUME NEW e \in created \cup {d}
          PROVE  Len(versions'[e]) >= 1 /\ drafts'[e].current = Len(versions'[e])
      <4>1. CASE e = d
        BY <4>1, <1>2, <1>3, <1>4
      <4>2. CASE e # d
        BY <4>2, <1>3, <1>4 DEF Inv, Data, DataTyped, RowsRelated
      <4> QED BY <4>1, <4>2
    <3> QED BY <1>3, <3>1
  <2>2. \A e \in Draft : drafts'[e].onForem => remote'[e] # None
    BY <1>1, <1>4 DEF Inv, Data, RowsRelated
  <2> QED BY <2>1, <2>2 DEF RowsRelated
<1>7. Grown
  <2>1. \A e \in created : e \in Draft \ {d} /\ Len(versions[e]) \in Nat
    BY DEF Inv, Data, DataTyped
  <2> QED BY <1>1, <1>3, <2>1 DEF Grown
<1>8. ApprovedDraftsExist' /\ ApprovalKeepsItsText'
  <2>1. \A a \in approvals : a.draft \in created /\ a.draft \in Draft \ {d}
    BY DEF Inv, Data, DataTyped, ApprovedDraftsExist
  <2>2. ApprovedDraftsExist'
    BY <1>1, <1>3, <2>1 DEF ApprovedDraftsExist
  <2>3. ApprovalKeepsItsText'
    BY <1>1, <1>3, <2>1 DEF Inv, Data, ApprovalKeepsItsText
  <2> QED BY <2>2, <2>3
<1>9. Data'
  BY <1>1, <1>5, <1>6, <1>8 DEF Inv, Data, PublicWasApproved, IsPublic, AbandonedLegal,
     HumanApproved, RequestIsRecorded
<1> QED BY <1>3, <1>7, <1>9

LEMMA CreateDraftStep ==
    ASSUME Inv, NEW t \in Thread, CreateDraft(t)
    PROVE  Inv'
<1>1. PICK k \in Call : k = call[t]
  BY Memory
<1>2. Fit("create", k)
  BY <1>1, Memory DEF CreateDraft
<1>3. k.draft \in Draft /\ k.draft \notin created /\ k.body \in Body /\ remote[k.draft] # None
  BY <1>2 DEF Fit
<1>4. Data' /\ Grown /\ created' = created \cup {k.draft}
  BY <1>1, <1>3, InsertStep DEF CreateDraft
<1>5. Goto(t, "idle") /\ Remember(t, IdleCall)
  BY Memory DEF CreateDraft
<1>6. Fit("idle", IdleCall)'
  BY DEF Fit, OnRow, WithKey, Checked, Recorded
<1>7. \A u \in Thread \ {t} : pc[u] = "create" => call[u].draft \notin created'
  BY <1>1, <1>4 DEF Inv, Calls, Fit, OneCreator, CreateDraft
<1>8. "idle" \in Label
  BY DEF Label
<1>9. Calls'
  BY <1>4, <1>5, <1>6, <1>7, <1>8, IdleType, CallStep DEF Data
<1> QED BY <1>4, <1>9 DEF Inv

LEMMA PersistDraftStep ==
    ASSUME Inv, NEW t \in Thread, NEW d \in Draft, NEW body \in Body,
           PersistDraft(t, d, body)
    PROVE  Inv'
<1>1. d \notin created /\ remote[d] = None
  BY DEF PersistDraft, Fresh
<1>2. Data' /\ Grown /\ created' = created \cup {d}
  BY <1>1, InsertStep DEF PersistDraft
<1>3. PICK l \in Label, k \in Call : l = "idle" /\ k = call[t] /\ pc[t] = l /\ Fit(l, k)
  BY Memory DEF PersistDraft
<1>4. Goto(t, l) /\ Remember(t, k)
  BY <1>3 DEF PersistDraft, Goto, Remember, Inv, Calls
<1>5. Fit(l, k)'
  BY <1>2, <1>3, FitKept DEF Inv, Data
<1>6. \A u \in Thread \ {t} : pc[u] = "create" => call[u].draft \notin created'
  BY <1>1, <1>2 DEF Inv, Calls, Fit
<1>7. Calls'
  BY <1>2, <1>3, <1>4, <1>5, <1>6, CallStep DEF Data
<1> QED BY <1>2, <1>7 DEF Inv

-----------------------------------------------------------------------------

LEMMA StartInv ==
    ASSUME Inv, NEW t \in Thread, Start(t)
    PROVE  Inv'
<1>1. PICK d \in Draft :
        \/ \E body \in Body :
             CreateRemote(t, d, body) \/ PersistDraft(t, d, body) \/ EditDraft(t, d, body)
        \/ \E body \in Body \cup {None} : UpdateBegin(t, d, body)
        \/ SubmitBegin(t, d)
        \/ \E decision \in {"APPROVED", "REJECTED"} : ApproveBegin(t, d, decision)
        \/ \E key \in Key : PublishBegin(t, d, key)
  BY DEF Start
<1>2. ASSUME NEW body \in Body,
             CreateRemote(t, d, body) \/ PersistDraft(t, d, body) \/ EditDraft(t, d, body)
      PROVE  Inv'
  BY <1>2, CreateRemoteStep, PersistDraftStep, EditingReads
<1>3. ASSUME NEW body \in Body \cup {None}, UpdateBegin(t, d, body)
      PROVE  Inv'
  BY <1>3, EditingReads
<1>4. ASSUME SubmitBegin(t, d) \/ \E decision \in {"APPROVED", "REJECTED"} :
                                      ApproveBegin(t, d, decision)
      PROVE  Inv'
  BY <1>4, ReviewReads
<1>5. ASSUME NEW key \in Key, PublishBegin(t, d, key)
      PROVE  Inv'
  BY <1>5, PublishReads
<1> QED BY <1>1, <1>2, <1>3, <1>4, <1>5

LEMMA ProgressInv ==
    ASSUME Inv, NEW t \in Thread, Progress(t)
    PROVE  Inv'
  BY CreateDraftStep, UpdateRemoteStep, AppendReadStep, AppendCommitStep,
     SubmitLintStep, SubmitSteps, ApproveVersionStep, CreateApprovalStep, ApproveStateStep,
     PublishDraftStep, PublishVersionStep, PublishCheckStep, PublishStates, RecordRuns,
     PublishRemoteStep DEF Progress

\* Every call, in any state of the tables, keeps the invariant.
THEOREM ArticleInv == Spec => []Inv
<1>1. Inv /\ [Next]_vars => Inv'
  BY StartInv, ProgressInv, ThrowStep, TickStep, LateEffectStep, StutterStep DEF Next
<1> QED BY InitInv, <1>1, PTL DEF Spec

\* TypeOK: every table and every call keeps its shape.
THEOREM ArticleTypeSafe == Spec => []TypeOK
<1>1. Inv => TypeOK
  BY DEF Inv, Data, DataTyped, Calls, TypeOK
<1> QED BY <1>1, ArticleInv, PTL

\* LatestIsCurrent: no edit that was accepted is lost, however many race.
THEOREM LatestIsCurrentHolds == Spec => []LatestIsCurrent
<1>1. Inv => LatestIsCurrent
  BY DEF Inv, Data, RowsRelated, LatestIsCurrent
<1> QED BY <1>1, ArticleInv, PTL

\* ApprovalKeepsItsText: an approval stands for the text it was given for.
THEOREM ApprovalKeepsItsTextHolds == Spec => []ApprovalKeepsItsText
<1>1. Inv => ApprovalKeepsItsText
  BY DEF Inv, Data
<1> QED BY <1>1, ArticleInv, PTL

\* PublicWasApproved: nothing is public that its author never approved.
THEOREM PublicWasApprovedHolds == Spec => []PublicWasApproved
<1>1. Inv => PublicWasApproved
  BY DEF Inv, Data
<1> QED BY <1>1, ArticleInv, PTL

\* RequestIsRecorded: a request that left for Forem has left a row with its key.
THEOREM RequestIsRecordedHolds == Spec => []RequestIsRecorded
<1>1. Inv => RequestIsRecorded
  BY DEF Inv, Data
<1> QED BY <1>1, ArticleInv, PTL

-----------------------------------------------------------------------------
(* Calls one after the other.  While no two calls have been under way at the  *)
(* same time, what a call read of a draft still holds when it writes.         *)

Linted(d) == versions[d][drafts[d].current] \in Clean

\* Whatever is past its drafting has passed the linter.
Reviewed == \A d \in created : drafts[d].state # "DRAFTING" => Linted(d)

ApprovedClean == \A a \in approvals : a.decision = "APPROVED" => a.hash \in Clean

\* The draft may be released: by an edge of the table, its current version approved.
Released(d) ==
    /\ assertPublishAuthority(drafts[d].state, "PUBLISHING", "AUTHOR")
    /\ \E a \in ApprovalsOf(d, drafts[d].current) : a.decision = "APPROVED"

\* What a call at a label has learnt is still so.
Recalls(label, c) ==
    /\ label \in {"ready", "await"} => Linted(c.draft)
    /\ label \in {"decide", "approve", "decided"}
         => drafts[c.draft].state = "AWAITING_APPROVAL"
    /\ label \in {"approve", "publishCheck"} => c.version = drafts[c.draft].current
    /\ label \in {"publishVersion", "publishCheck"} => c.state = drafts[c.draft].state
    /\ label = "publishing" => Released(c.draft)
    /\ label \in Checked => drafts[c.draft].state # "DRAFTING"
    /\ label \in {"publish", "publishVersion", "publishCheck", "publishing", "recordPublishing"}
         => publishRuns[c.key] = None
    /\ label = "forem" => c.key \notin sent

OneCall == \A t, u \in Thread : (pc[t] # "idle" /\ pc[u] # "idle") => t = u

InTurn == OneCall /\ Reviewed /\ ApprovedClean /\ \A t \in Thread : Recalls(pc[t], call[t])

SequentialInv == ~overlapped => InTurn

\* The edges that review and release take, read off the table.
LEMMA ReviewEdges ==
    ASSUME NEW state, NEW to \in {"APPROVED", "REJECTED"}, assertTransition(state, to, "AUTHOR")
    PROVE  state = "AWAITING_APPROVAL"
<1>. DEFINE planner == AuthorOrAgent \cup {"SCHEDULER"}
            publisher == AuthorOrAgent \cup {"SYSTEM"}
<1>1. PICK e \in LIFECYCLE_TRANSITIONS : e.from = state /\ e.to = to
  BY DEF assertTransition, canTransition, findTransition
<1>2. \/ e \in Edges("RESEARCHING", {"IDEA_READY", "NO_PUBLISH"}, planner, FALSE)
      \/ e \in Edges("IDEA_READY", {"DRAFTING", "NO_PUBLISH"}, planner, FALSE)
      \/ e \in Edges("DRAFTING", {"DRAFT_READY", "DISCARDED"}, AuthorOrAgent, FALSE)
      \/ e \in Edges("DRAFT_READY",
                     {"AWAITING_APPROVAL", "DISCARDED", "NO_PUBLISH"},
                     AuthorOrAgent, FALSE)
      \/ e \in Edges("AWAITING_APPROVAL", {"APPROVED", "REJECTED"}, {"AUTHOR"}, FALSE)
      \/ e \in Edges("AWAITING_APPROVAL", {"DRAFTING", "DISCARDED", "NO_PUBLISH"},
                     AuthorOrAgent, FALSE)
      \/ e \in Edges("REJECTED", {"DRAFTING", "DISCARDED"}, AuthorOrAgent, FALSE)
      \/ e \in Edges("APPROVED", {"DRAFTING", "DISCARDED"}, AuthorOrAgent, FALSE)
      \/ e \in Edges("APPROVED", {"PUBLISHING"}, {"AUTHOR"}, TRUE)
      \/ e \in Edges("APPROVED", {"NO_PUBLISH"}, {"AUTHOR"}, FALSE)
      \/ e \in Edges("PUBLISHING", {"PUBLISHED"}, publisher, TRUE)
      \/ e \in Edges("PUBLISHING", {"FAILED"}, publisher, FALSE)
      \/ e \in Edges("FAILED", {"PUBLISHING"}, AuthorOrAgent, TRUE)
      \/ e \in Edges("FAILED", {"DRAFTING", "DISCARDED"}, AuthorOrAgent, FALSE)
  BY DEF LIFECYCLE_TRANSITIONS
<1>. HIDE DEF planner, publisher
<1> QED BY <1>1, <1>2 DEF Edges

\* A step of the only call under way, into a label and with a memory that recalls
\* the tables.
LEMMA TurnStep ==
    ASSUME Inv, NEW t \in Thread, NEW label, NEW c, Goto(t, label), Remember(t, c),
           \A u \in Thread \ {t} : pc[u] = "idle",
           Reviewed', ApprovedClean', Recalls(label, c)'
    PROVE  InTurn'
<1>1. pc'[t] = label /\ call'[t] = c
  BY DEF Inv, Calls, Goto, Remember
<1>2. \A u \in Thread \ {t} : pc'[u] = "idle"
  BY DEF Inv, Calls, Goto
<1>3. OneCall'
  BY <1>2 DEF OneCall
<1>4. ASSUME NEW u \in Thread
      PROVE  Recalls(pc[u], call[u])'
  <2>1. CASE u = t
    BY <2>1, <1>1 DEF Recalls
  <2>2. CASE u # t
    BY <2>2, <1>2 DEF Recalls, Checked
  <2> QED BY <2>1, <2>2
<1> QED BY <1>3, <1>4 DEF InTurn

\* A call that has ended recalls nothing.
LEMMA IdleRecalls == Recalls("idle", IdleCall)'
  BY DEF Recalls, Checked

\* Such a step that reads at most.
LEMMA TurnRead ==
    ASSUME Inv, InTurn, NEW t \in Thread, NEW label, NEW c, Goto(t, label), Remember(t, c),
           \A u \in Thread \ {t} : pc[u] = "idle",
           UNCHANGED <<tables, forem>>, Recalls(label, c)
    PROVE  InTurn'
<1>1. UNCHANGED <<created, drafts, versions, approvals, publishRuns, sent>>
  BY DEF tables, forem
<1>2. Reviewed' /\ ApprovedClean' /\ Recalls(label, c)'
  BY <1>1 DEF InTurn, Reviewed, Linted, ApprovedClean, Recalls, Released, ApprovalsOf
<1> QED BY <1>2, TurnStep

\* Such a step that sets the state of a draft that is past its drafting, or linted.
LEMMA TurnState ==
    ASSUME Inv, InTurn, NEW d \in Draft, NEW state \in DraftState, setDraftState(d, state),
           Linted(d), UNCHANGED <<created, versions, approvals>>
    PROVE  /\ Reviewed' /\ ApprovedClean' /\ Linted(d)'
           /\ drafts'[d].state = state
<1>1. /\ drafts'[d].state = state /\ drafts'[d].current = drafts[d].current
      /\ \A e \in Draft \ {d} : drafts'[e] = drafts[e]
  BY DEF setDraftState, Inv, Data, DataTyped, DraftRow
<1>2. Linted(d)' /\ \A e \in Draft \ {d} : Linted(e) => Linted(e)'
  BY <1>1 DEF Linted
<1>3. \A e \in created : e \in Draft
  BY DEF Inv, Data, DataTyped
<1>4. Reviewed'
  BY <1>1, <1>2, <1>3 DEF InTurn, Reviewed
<1> QED BY <1>1, <1>2, <1>4 DEF InTurn, ApprovedClean

\* A draft that is past its drafting is linted.
LEMMA PastDrafting ==
    ASSUME Inv, InTurn, NEW t \in Thread, pc[t] \in OnRow, drafts[call[t].draft].state # "DRAFTING"
    PROVE  Linted(call[t].draft)
  BY Memory DEF InTurn, Reviewed, Fit

LEMMA BeginInTurn ==
    ASSUME Inv, InTurn, NEW t \in Thread, ~overlapped',
           NEW label \in {"append", "updateRemote", "lint"},
           NEW c, Begin(t, label, c), UNCHANGED <<tables, forem>>
    PROVE  InTurn'
<1>1. Recalls(label, c)
  BY DEF Recalls, Checked
<1> QED BY <1>1, TurnRead DEF Begin

LEMMA StartInTurn ==
    ASSUME Inv, InTurn, NEW t \in Thread, ~overlapped', Start(t)
    PROVE  InTurn'
<1>1. PICK d \in Draft :
        \/ \E body \in Body :
             CreateRemote(t, d, body) \/ PersistDraft(t, d, body) \/ EditDraft(t, d, body)
        \/ \E body \in Body \cup {None} : UpdateBegin(t, d, body)
        \/ SubmitBegin(t, d)
        \/ \E decision \in {"APPROVED", "REJECTED"} : ApproveBegin(t, d, decision)
        \/ \E key \in Key : PublishBegin(t, d, key)
  BY DEF Start
<1>2. ASSUME NEW body \in Body, CreateRemote(t, d, body)
      PROVE  InTurn'
  <2>1. /\ UNCHANGED <<created, drafts, versions, approvals>>
        /\ \A u \in Thread : pc[u] = "idle"
    BY <1>2 DEF CreateRemote, tables
  <2>2. Reviewed' /\ ApprovedClean'
    BY <2>1 DEF InTurn, Reviewed, Linted, ApprovedClean
  <2>3. CASE Return(t)
    BY <2>1, <2>2, <2>3, Memory, IdleRecalls, TurnStep
  <2>4. CASE /\ Goto(t, "create")
             /\ Remember(t, [IdleCall EXCEPT !.draft = d, !.body = body])
    <3>1. \A c : Recalls("create", c)'
      BY DEF Recalls, Checked
    <3> QED BY <2>1, <2>2, <2>4, <3>1, TurnStep
  <2> QED BY <1>2, <2>3, <2>4 DEF CreateRemote, Answered
<1>3. ASSUME NEW body \in Body, PersistDraft(t, d, body)
      PROVE  InTurn'
  <2>1. /\ d \notin created /\ remote[d] = None /\ created' = created \cup {d}
        /\ UNCHANGED <<approvals, publishRuns, remote, abandoned, sent, pc, call>>
    BY <1>3 DEF PersistDraft, Fresh, InsertDraft, forem
  <2>2. /\ drafts'[d].state = "DRAFTING"
        /\ \A e \in Draft \ {d} : drafts'[e] = drafts[e] /\ versions'[e] = versions[e]
    BY <1>3 DEF PersistDraft, InsertDraft, NewDraft, Inv, Data, DataTyped
  <2>3. created \subseteq Draft
    BY DEF Inv, Data, DataTyped
  <2>4. Reviewed' /\ ApprovedClean' /\ OneCall'
    BY <2>1, <2>2, <2>3 DEF InTurn, Reviewed, Linted, ApprovedClean, OneCall
  <2>5. ASSUME NEW u \in Thread
        PROVE  Recalls(pc[u], call[u])'
    <3>1. PICK l \in Label, k \in Call : l = pc[u] /\ k = call[u]
      BY Memory
    <3>2. Fit(l, k) /\ Recalls(l, k)
      BY <3>1, Memory DEF InTurn
    <3>3. l \in OnRow => k.draft \in Draft \ {d}
      BY <2>1, <2>3, <3>2 DEF Fit
    <3>4. Recalls(l, k)'
      BY <2>1, <2>2, <3>2, <3>3 DEF Recalls, Linted, Released, ApprovalsOf, OnRow, Label, Checked
    <3> QED BY <2>1, <3>1, <3>4 DEF Recalls
  <2> QED BY <2>4, <2>5 DEF InTurn
<1>4. ASSUME NEW body \in Body \cup {None}, EditDraft(t, d, body) \/ UpdateBegin(t, d, body)
      PROVE  InTurn'
  BY <1>4, BeginInTurn DEF EditDraft, UpdateBegin
<1>5. CASE SubmitBegin(t, d)
  BY <1>5, BeginInTurn DEF SubmitBegin
<1>6. ASSUME NEW decision \in {"APPROVED", "REJECTED"}, ApproveBegin(t, d, decision)
      PROVE  InTurn'
  <2>1. drafts[d].state = "AWAITING_APPROVAL"
    BY <1>6, ReviewEdges DEF ApproveBegin
  <2>2. PICK c : c = [IdleCall EXCEPT !.draft = d, !.state = decision] /\ c.draft = d
    <3>1. [IdleCall EXCEPT !.draft = d, !.state = decision].draft = d
      BY DEF IdleCall
    <3> QED BY <3>1
  <2>3. Recalls("decide", c)
    BY <2>1, <2>2 DEF Recalls, Checked
  <2> QED BY <1>6, <2>2, <2>3, TurnRead DEF ApproveBegin, Begin
<1>7. ASSUME NEW key \in Key, PublishBegin(t, d, key)
      PROVE  InTurn'
  <2>1. PICK c : c = [IdleCall EXCEPT !.draft = d, !.key = key] /\ c.key = key
    <3>1. [IdleCall EXCEPT !.draft = d, !.key = key].key = key
      BY DEF IdleCall
    <3> QED BY <3>1
  <2>2. Recalls("publish", c)
    BY <1>7, <2>1 DEF PublishBegin, Recalls, Checked
  <2> QED BY <1>7, <2>1, <2>2, TurnRead DEF PublishBegin, Begin
<1> QED BY <1>1, <1>2, <1>3, <1>4, <1>5, <1>6, <1>7

-----------------------------------------------------------------------------

\* Editing: a text is written, and with it the draft is back in its drafting.
LEMMA EditInTurn ==
    ASSUME Inv, Inv', InTurn, NEW t \in Thread, \A u \in Thread \ {t} : pc[u] = "idle",
           CreateDraft(t) \/ UpdateRemote(t) \/ AppendRead(t) \/ AppendCommit(t)
    PROVE  InTurn'
<1>1. CASE CreateDraft(t)
  <2>1. PICK d \in Draft : d = call[t].draft
    BY <1>1, Memory DEF CreateDraft, Fit
  <2>2. /\ created' = created \cup {d} /\ UNCHANGED approvals
        /\ drafts'[d].state = "DRAFTING"
        /\ \A e \in Draft \ {d} : drafts'[e] = drafts[e] /\ versions'[e] = versions[e]
    BY <1>1, <2>1 DEF CreateDraft, InsertDraft, NewDraft, Inv, Data, DataTyped
  <2>3. created \subseteq Draft
    BY DEF Inv, Data, DataTyped
  <2>4. Reviewed' /\ ApprovedClean'
    BY <2>2, <2>3 DEF InTurn, Reviewed, Linted, ApprovedClean
  <2> QED BY <1>1, <2>4, Memory, IdleRecalls, TurnStep DEF CreateDraft
<1>2. CASE UpdateRemote(t)
  <2>1. UNCHANGED <<created, drafts, versions, approvals>>
    BY <1>2 DEF UpdateRemote, tables
  <2>2. Reviewed' /\ ApprovedClean'
    BY <2>1 DEF InTurn, Reviewed, Linted, ApprovedClean
  <2>3. CASE Return(t)
    BY <2>2, <2>3, Memory, IdleRecalls, TurnStep
  <2>4. CASE Continue(t, "append")
    <3>1. \A c : Recalls("append", c)'
      BY DEF Recalls, Checked
    <3> QED BY <2>2, <2>4, <3>1, Memory, TurnStep
  <2> QED BY <1>2, <2>3, <2>4 DEF UpdateRemote, Put, Answered
<1>3. CASE AppendRead(t)
  <2>1. \A c : Recalls("appended", c)
    BY DEF Recalls, Checked
  <2> QED BY <1>3, <2>1, TurnRead DEF AppendRead
<1>4. CASE AppendCommit(t)
  <2>1. PICK d \in Draft : d = call[t].draft
    BY <1>4, Memory DEF AppendCommit, Fit, OnRow, Label, Inv, Data, DataTyped
  <2>2. created' = created /\ approvals' = approvals /\ Return(t)
    BY <1>4 DEF AppendCommit
  <2>3. CASE UNCHANGED <<versions, drafts>>
    BY <2>2, <2>3, Memory, IdleRecalls, TurnStep DEF InTurn, Reviewed, Linted, ApprovedClean
  <2>4. CASE ~UNCHANGED <<versions, drafts>>
    <3>1. /\ drafts' = [drafts EXCEPT ![d].current = call[t].version, ![d].state = "DRAFTING"]
          /\ versions' = [versions EXCEPT ![d] = Append(@, call[t].body)]
      BY <1>4, <2>1, <2>4 DEF AppendCommit
    <3>2. drafts'[d].state = "DRAFTING" /\ \A e \in Draft \ {d} : drafts'[e] = drafts[e]
      BY <3>1 DEF Inv, Data, DataTyped, DraftRow
    <3>3. \A e \in Draft \ {d} : versions'[e] = versions[e]
      BY <3>1 DEF Inv, Data, DataTyped
    <3>4. created \subseteq Draft
      BY DEF Inv, Data, DataTyped
    <3>5. Reviewed' /\ ApprovedClean'
      BY <2>2, <3>2, <3>3, <3>4 DEF InTurn, Reviewed, Linted, ApprovedClean
    <3> QED BY <2>2, <3>5, Memory, IdleRecalls, TurnStep
  <2> QED BY <2>3, <2>4
<1> QED BY <1>1, <1>2, <1>3, <1>4

\* Submission: only a linted draft is moved.
LEMMA SubmitInTurn ==
    ASSUME Inv, Inv', InTurn, NEW t \in Thread, \A u \in Thread \ {t} : pc[u] = "idle",
           SubmitLint(t) \/ SubmitReady(t) \/ SubmitAwait(t)
    PROVE  InTurn'
<1>1. pc[t] \in OnRow
  BY DEF SubmitLint, SubmitReady, SubmitAwait, OnRow, Label
<1>2. PICK d \in Draft : d = call[t].draft
  BY <1>1, Memory DEF Fit, Inv, Data, DataTyped
<1>3. CASE SubmitLint(t) /\ Return(t)
  <2>1. Recalls("idle", IdleCall)
    BY DEF Recalls, Checked
  <2> QED BY <1>3, <2>1, Memory, TurnRead DEF SubmitLint
<1>4. ASSUME SubmitLint(t), NEW label \in {"ready", "await"}, Continue(t, label), Linted(d)
      PROVE  InTurn'
  <2>1. Recalls(label, call[t])
    BY <1>2, <1>4 DEF Recalls, Checked
  <2> QED BY <1>4, <2>1, Memory, TurnRead DEF SubmitLint
<1>5. CASE SubmitReady(t)
  <2>1. Linted(d)
    BY <1>2, <1>5, Memory DEF InTurn, Recalls, SubmitReady
  <2>2. setDraftState(d, "DRAFT_READY") /\ Continue(t, "await") /\ "DRAFT_READY" \in DraftState
        /\ UNCHANGED <<created, versions, approvals>>
    BY <1>2, <1>5 DEF SubmitReady, DraftState
  <2>3. Reviewed' /\ ApprovedClean' /\ Linted(d)'
    BY <2>1, <2>2, TurnState
  <2>4. PICK k : k = call[t]
    OBVIOUS
  <2>5. Recalls("await", k)'
    BY <1>2, <2>3, <2>4 DEF Recalls, Checked
  <2> QED BY <2>2, <2>3, <2>4, <2>5, Memory, TurnStep
<1>6. CASE SubmitAwait(t)
  <2>1. Linted(d)
    BY <1>2, <1>6, Memory DEF InTurn, Recalls, SubmitAwait
  <2>2. setDraftState(d, "AWAITING_APPROVAL") /\ Return(t) /\ "AWAITING_APPROVAL" \in DraftState
        /\ UNCHANGED <<created, versions, approvals>>
    BY <1>2, <1>6 DEF SubmitAwait, DraftState
  <2>3. Reviewed' /\ ApprovedClean'
    BY <2>1, <2>2, TurnState
  <2> QED BY <2>2, <2>3, Memory, IdleRecalls, TurnStep
<1> QED BY <1>2, <1>3, <1>4, <1>5, <1>6 DEF SubmitLint, Linted

\* Approval: the version that is approved is the current one, which is linted.
LEMMA ApproveInTurn ==
    ASSUME Inv, Inv', InTurn, NEW t \in Thread, \A u \in Thread \ {t} : pc[u] = "idle",
           ApproveVersion(t) \/ CreateApproval(t) \/ ApproveState(t)
    PROVE  InTurn'
<1>1. pc[t] \in OnRow /\ pc[t] \in {"decide", "approve", "decided"}
  BY DEF ApproveVersion, CreateApproval, ApproveState, OnRow, Label
<1>2. PICK d \in Draft : d = call[t].draft
  BY <1>1, Memory DEF Fit, Inv, Data, DataTyped
<1>3. drafts[d].state = "AWAITING_APPROVAL" /\ Linted(d)
  <2>1. drafts[d].state = "AWAITING_APPROVAL"
    BY <1>1, <1>2 DEF InTurn, Recalls
  <2> QED BY <1>1, <1>2, <2>1, PastDrafting
<1>4. CASE ApproveVersion(t)
  <2>1. PICK k \in Call : k = call[t]
    BY Memory
  <2>2. PICK c : c = [k EXCEPT !.version = drafts[d].current]
    OBVIOUS
  <2>3. c.draft = k.draft /\ c.version = drafts[d].current
    BY <2>2 DEF Call
  <2>4. Recalls("approve", c)
    BY <1>2, <1>3, <2>1, <2>3 DEF Recalls, Checked
  <2>5. Goto(t, "approve") /\ Remember(t, c) /\ UNCHANGED <<tables, forem>>
    BY <1>2, <1>4, <2>1, <2>2 DEF ApproveVersion
  <2> QED BY <2>4, <2>5, TurnRead
<1>5. CASE CreateApproval(t)
  <2>1. call[t].version = drafts[d].current
    BY <1>2, <1>5 DEF InTurn, Recalls, CreateApproval
  <2>2. PICK a : approvals' = approvals \cup {a} /\ a.hash = versions[d][drafts[d].current]
    <3>1. PICK ttl \in Ttl :
            approvals' = approvals \cup
              {[draft |-> call[t].draft, version |-> call[t].version,
                hash |-> versions[call[t].draft][call[t].version],
                decision |-> call[t].state, decidedAt |-> now, expiresAt |-> now + ttl]}
      BY <1>5 DEF CreateApproval
    <3>. DEFINE a == [draft |-> call[t].draft, version |-> call[t].version,
                      hash |-> versions[call[t].draft][call[t].version],
                      decision |-> call[t].state, decidedAt |-> now, expiresAt |-> now + ttl]
    <3>2. a.hash = versions[d][drafts[d].current]
      BY <1>2, <2>1
    <3>3. approvals' = approvals \cup {a}
      BY <3>1
    <3> QED BY <3>2, <3>3
  <2>3. UNCHANGED <<created, drafts, versions>> /\ Continue(t, "decided")
    BY <1>5 DEF CreateApproval
  <2>4. Reviewed' /\ ApprovedClean'
    BY <1>3, <2>2, <2>3 DEF InTurn, Reviewed, Linted, ApprovedClean
  <2>5. PICK k : k = call[t]
    OBVIOUS
  <2>6. Recalls("decided", k)'
    BY <1>2, <1>3, <2>3, <2>5 DEF Recalls, Checked
  <2> QED BY <2>3, <2>4, <2>5, <2>6, Memory, TurnStep
<1>6. CASE ApproveState(t)
  <2>1. call[t].state \in DraftState
    BY Memory DEF Call
  <2>2. setDraftState(d, call[t].state) /\ Return(t) /\ UNCHANGED <<created, versions, approvals>>
    BY <1>2, <1>6 DEF ApproveState
  <2>3. Reviewed' /\ ApprovedClean'
    BY <1>3, <2>1, <2>2, TurnState
  <2> QED BY <2>2, <2>3, Memory, IdleRecalls, TurnStep
<1> QED BY <1>4, <1>5, <1>6

\* Publishing up to the check: the draft is in the state that was read.
LEMMA CheckInTurn ==
    ASSUME Inv, Inv', InTurn, NEW t \in Thread, \A u \in Thread \ {t} : pc[u] = "idle",
           PublishDraft(t) \/ PublishVersion(t) \/ PublishCheck(t)
    PROVE  InTurn'
<1>1. PICK k \in Call : k = call[t] /\ Recalls(pc[t], k)
  BY Memory DEF InTurn
<1>2. publishRuns[k.key] = None /\ UNCHANGED <<tables, forem>>
  BY <1>1 DEF Recalls, PublishDraft, PublishVersion, PublishCheck
<1>3. CASE Return(t)
  <2>1. Recalls("idle", IdleCall)
    BY DEF Recalls, Checked
  <2> QED BY <1>2, <1>3, <2>1, Memory, TurnRead
<1>4. CASE PublishDraft(t) /\ ~Return(t)
  <2>1. PICK c : c = [k EXCEPT !.state = drafts[k.draft].state]
    OBVIOUS
  <2>2. c.draft = k.draft /\ c.key = k.key /\ c.state = drafts[k.draft].state
    BY <2>1 DEF Call
  <2>3. Recalls("publishVersion", c)
    BY <1>2, <2>2 DEF Recalls, Checked
  <2>4. Goto(t, "publishVersion") /\ Remember(t, c)
    BY <1>1, <1>4, <2>1 DEF PublishDraft
  <2> QED BY <1>2, <2>3, <2>4, TurnRead
<1>5. CASE PublishVersion(t)
  <2>1. PICK c : c = [k EXCEPT !.version = drafts[k.draft].current]
    OBVIOUS
  <2>2. /\ c.draft = k.draft /\ c.key = k.key /\ c.version = drafts[k.draft].current
        /\ c.state = k.state
    BY <2>1 DEF Call
  <2>3. k.state = drafts[k.draft].state
    BY <1>1, <1>5 DEF PublishVersion, Recalls
  <2>4. Recalls("publishCheck", c)
    BY <1>2, <2>2, <2>3 DEF Recalls, Checked
  <2>5. Goto(t, "publishCheck") /\ Remember(t, c)
    BY <1>1, <1>5, <2>1 DEF PublishVersion
  <2> QED BY <1>2, <2>4, <2>5, TurnRead
<1>6. CASE PublishCheck(t) /\ ~Return(t)
  <2>1. /\ \E a \in ApprovalForVersion(k.draft, k.version) :
             ApprovalValid(a, k.version, versions[k.draft][k.version])
        /\ isPublishableState(k.state)
        /\ assertPublishAuthority(k.state, "PUBLISHING", "AUTHOR")
        /\ Continue(t, "publishing")
    BY <1>1, <1>6 DEF PublishCheck
  <2>2. k.state = drafts[k.draft].state /\ k.version = drafts[k.draft].current
    BY <1>1, <1>6 DEF PublishCheck, Recalls
  <2>3. Released(k.draft)
    BY <2>1, <2>2 DEF Released, ApprovalForVersion, ApprovalValid
  <2>4. drafts[k.draft].state # "DRAFTING"
    BY <2>1, <2>2 DEF isPublishableState
  <2>5. Recalls("publishing", k)
    BY <1>2, <2>3, <2>4 DEF Recalls
  <2> QED BY <1>1, <1>2, <2>1, <2>5, Memory, TurnRead
<1> QED BY <1>3, <1>4, <1>5, <1>6

\* Publishing after the check: the run is recorded before the only request.
LEMMA PublishInTurn ==
    ASSUME Inv, Inv', InTurn, NEW t \in Thread, \A u \in Thread \ {t} : pc[u] = "idle",
           PublishingState(t) \/ RecordPublishing(t) \/ PublishRemote(t)
             \/ PublishedState(t) \/ RecordPublished(t)
    PROVE  InTurn'
<1>1. pc[t] \in OnRow /\ pc[t] \in Checked /\ pc[t] \in WithKey
  BY DEF PublishingState, RecordPublishing, PublishRemote, PublishedState, RecordPublished,
     OnRow, Label, Checked, WithKey
<1>2. PICK k \in Call : k = call[t] /\ Recalls(pc[t], k) /\ Fit(pc[t], k)
  BY Memory DEF InTurn
<1>3. PICK d \in Draft : d = k.draft /\ drafts[d].state # "DRAFTING" /\ Linted(d)
  <2>1. k.draft \in Draft
    BY <1>1, <1>2 DEF Fit, Inv, Data, DataTyped
  <2>2. drafts[k.draft].state # "DRAFTING"
    BY <1>1, <1>2 DEF Recalls
  <2> QED BY <1>1, <1>2, <2>1, <2>2, PastDrafting
<1>4. k.key \in Key
  BY <1>1, <1>2 DEF Fit
<1>5. CASE PublishingState(t)
  <2>1. /\ setDraftState(d, "PUBLISHING") /\ Continue(t, "recordPublishing")
        /\ "PUBLISHING" \in DraftState
        /\ UNCHANGED <<created, versions, approvals, publishRuns>>
    BY <1>2, <1>3, <1>5 DEF PublishingState, DraftState
  <2>2. Reviewed' /\ ApprovedClean' /\ drafts'[d].state = "PUBLISHING"
    BY <1>3, <2>1, TurnState
  <2>3. publishRuns[k.key] = None
    BY <1>2, <1>5 DEF PublishingState, Recalls
  <2>4. Recalls("recordPublishing", k)'
    BY <1>3, <2>1, <2>2, <2>3 DEF Recalls
  <2> QED BY <1>2, <2>1, <2>2, <2>4, Memory, TurnStep
<1>6. CASE PublishedState(t)
  <2>1. /\ setDraftState(d, "PUBLISHED") /\ Continue(t, "recordPublished")
        /\ "PUBLISHED" \in DraftState
        /\ UNCHANGED <<created, versions, approvals>>
    BY <1>2, <1>3, <1>6 DEF PublishedState, DraftState
  <2>2. Reviewed' /\ ApprovedClean' /\ drafts'[d].state = "PUBLISHED"
    BY <1>3, <2>1, TurnState
  <2>3. Recalls("recordPublished", k)'
    BY <1>3, <2>2 DEF Recalls
  <2> QED BY <1>2, <2>1, <2>2, <2>3, Memory, TurnStep
<1>7. CASE RecordPublishing(t) \/ PublishRemote(t) \/ RecordPublished(t)
  <2>1. UNCHANGED <<created, drafts, versions, approvals>>
    BY <1>7 DEF RecordPublishing, PublishRemote, RecordPublished, tables
  <2>2. Reviewed' /\ ApprovedClean'
    BY <2>1 DEF InTurn, Reviewed, Linted, ApprovedClean
  <2>3. CASE Return(t)
    BY <2>2, <2>3, Memory, IdleRecalls, TurnStep
  <2>4. CASE RecordPublishing(t)
    <3>1. publishRuns[k.key] = None
      BY <1>2, <2>4 DEF RecordPublishing, Recalls
    <3>2. k.key \notin sent /\ sent' = sent
      BY <3>1, <2>4 DEF Inv, Data, RequestIsRecorded, RecordPublishing, forem
    <3>3. Recalls("forem", k)'
      BY <1>3, <2>1, <3>2 DEF Recalls
    <3>4. Continue(t, "forem")
      BY <2>4 DEF RecordPublishing
    <3> QED BY <1>2, <2>2, <3>3, <3>4, Memory, TurnStep
  <2>5. CASE Continue(t, "published")
    <3>1. Recalls("published", k)'
      BY <1>3, <2>1 DEF Recalls
    <3> QED BY <1>2, <2>2, <2>5, <3>1, Memory, TurnStep
  <2> QED BY <1>7, <2>3, <2>4, <2>5 DEF PublishRemote, RecordPublished, Put, Answered
<1> QED BY <1>5, <1>6, <1>7

\* Every step that overlaps with no call keeps what the calls in turn recall.
LEMMA NextInTurn ==
    ASSUME Inv, Inv', SequentialInv, [Next]_vars
    PROVE  SequentialInv'
<1>. SUFFICES ASSUME ~overlapped'
              PROVE  InTurn'
  BY DEF SequentialInv
<1>1. ~overlapped
  <2>1. ASSUME NEW t \in Thread, Start(t)
        PROVE  ~overlapped
    <3>1. \A label, c : Begin(t, label, c) => ~overlapped
      BY DEF Begin
    <3>2. \A d, body : CreateRemote(t, d, body) \/ PersistDraft(t, d, body) => ~overlapped
      BY DEF CreateRemote, PersistDraft
    <3>3. \A d, body : EditDraft(t, d, body) \/ UpdateBegin(t, d, body) => ~overlapped
      BY <3>1 DEF EditDraft, UpdateBegin
    <3>4. \A d, x : SubmitBegin(t, d) \/ ApproveBegin(t, d, x) \/ PublishBegin(t, d, x)
                      => ~overlapped
      BY <3>1 DEF SubmitBegin, ApproveBegin, PublishBegin
    <3> QED BY <2>1, <3>2, <3>3, <3>4 DEF Start
  <2>2. ASSUME NEW t \in Thread, Progress(t) \/ Throw(t)
        PROVE  ~overlapped
    BY <2>2 DEF Progress, CreateDraft, UpdateRemote, AppendRead, AppendCommit,
       SubmitLint, SubmitReady, SubmitAwait, ApproveVersion, CreateApproval, ApproveState,
       PublishDraft, PublishVersion, PublishCheck, PublishingState, RecordPublishing,
       PublishRemote, PublishedState, RecordPublished, Throw
  <2>3. CASE Tick \/ LateEffect \/ UNCHANGED vars
    BY <2>3 DEF Tick, LateEffect, vars
  <2> QED BY <2>1, <2>2, <2>3 DEF Next
<1>2. InTurn
  BY <1>1 DEF SequentialInv
<1>3. ASSUME NEW t \in Thread, Start(t)
      PROVE  InTurn'
  BY <1>2, <1>3, StartInTurn
<1>4. ASSUME NEW t \in Thread, Progress(t) \/ Throw(t)
      PROVE  InTurn'
  <2>1. pc[t] # "idle"
    BY <1>4 DEF Progress, CreateDraft, UpdateRemote, AppendRead, AppendCommit,
       SubmitLint, SubmitReady, SubmitAwait, ApproveVersion, CreateApproval, ApproveState,
       PublishDraft, PublishVersion, PublishCheck, PublishingState, RecordPublishing,
       PublishRemote, PublishedState, RecordPublished, Throw
  <2>2. \A u \in Thread \ {t} : pc[u] = "idle"
    BY <1>2, <2>1 DEF InTurn, OneCall
  <2>3. CASE Progress(t)
    BY <1>2, <2>2, <2>3, EditInTurn, SubmitInTurn, ApproveInTurn, CheckInTurn, PublishInTurn
       DEF Progress
  <2>4. CASE Throw(t)
    <3>1. Recalls("idle", IdleCall)
      BY DEF Recalls, Checked
    <3> QED BY <1>2, <2>2, <2>4, <3>1, Memory, TurnRead DEF Throw
  <2> QED BY <1>4, <2>3, <2>4
<1>5. CASE Tick \/ LateEffect \/ UNCHANGED vars
  <2>1. UNCHANGED <<created, drafts, versions, approvals, publishRuns, sent, pc, call>>
    BY <1>5 DEF Tick, LateEffect, vars, tables, forem
  <2> QED BY <1>2, <2>1 DEF InTurn, OneCall, Reviewed, Linted, ApprovedClean, Recalls,
     Released, ApprovalsOf
<1> QED BY <1>3, <1>4, <1>5 DEF Next

LEMMA InitInTurn == Init => SequentialInv
  BY DEF Init, SequentialInv, InTurn, OneCall, Reviewed, ApprovedClean, Recalls, Checked

LEMMA SequentialAlways == Spec => [](Inv /\ SequentialInv)
<1>1. Inv /\ [Next]_vars => Inv'
  BY StartInv, ProgressInv, ThrowStep, TickStep, LateEffectStep, StutterStep DEF Next
<1>2. Inv /\ SequentialInv /\ [Next]_vars => (Inv /\ SequentialInv)'
  BY <1>1, NextInTurn
<1> QED BY InitInv, InitInTurn, <1>2, PTL DEF Spec

\* ApprovedWasLinted: when calls do not overlap, no text is approved that the linter
\* blocks (drafting.ts:190-191).
THEOREM ApprovedWasLintedHolds == Spec => []ApprovedWasLinted
<1>1. SequentialInv => ApprovedWasLinted
  BY DEF SequentialInv, InTurn, ApprovedClean, ApprovedWasLinted
<1> QED BY <1>1, SequentialAlways, PTL

\* RequestedOnce: when calls do not overlap, a key is sent to Forem once, whatever fails
\* (article-management.ts:236-243).
THEOREM RequestedOnceHolds == Spec => []RequestedOnce
<1>1. SequentialInv => RequestedOnce
  BY DEF SequentialInv, InTurn, Recalls, RequestedOnce
<1> QED BY <1>1, SequentialAlways, PTL

\* Only publishArticle, past its check, puts a draft into PUBLISHING.
LEMMA Releases ==
    ASSUME Inv, [Next]_vars, NEW d \in Draft,
           drafts[d].state # "PUBLISHING", drafts'[d].state = "PUBLISHING"
    PROVE  \E t \in Thread : pc[t] = "publishing" /\ call[t].draft = d
<1>1. drafts'[d].state # drafts[d].state
  OBVIOUS
<1>2. \A e, s : setDraftState(e, s) /\ s # "PUBLISHING" => FALSE
  <2>1. SUFFICES ASSUME NEW e, NEW s, setDraftState(e, s), s # "PUBLISHING"
                 PROVE  FALSE
    OBVIOUS
  <2>2. drafts \in [Draft -> DraftRow]
    BY DEF Inv, Data, DataTyped
  <2> QED BY <2>1, <2>2 DEF setDraftState, DraftRow
<1>3. \A e, body, f : ~InsertDraft(e, body, f)
  <2>1. SUFFICES ASSUME NEW e, NEW body, NEW f, InsertDraft(e, body, f)
                 PROVE  FALSE
    OBVIOUS
  <2>2. NewDraft(f).state = "DRAFTING" /\ drafts \in [Draft -> DraftRow]
    BY DEF NewDraft, Inv, Data, DataTyped
  <2> QED BY <2>1, <2>2 DEF InsertDraft
<1>4. drafts' # drafts
  BY <1>1
<1>5. ASSUME NEW t \in Thread, Start(t)
      PROVE  FALSE
  BY <1>3, <1>4, <1>5 DEF Start, CreateRemote, PersistDraft, EditDraft, UpdateBegin,
     SubmitBegin, ApproveBegin, PublishBegin, tables
<1>6. ASSUME NEW t \in Thread, AppendCommit(t)
      PROVE  FALSE
  <2>1. drafts' = [drafts EXCEPT ![call[t].draft].current = call[t].version,
                                 ![call[t].draft].state = "DRAFTING"]
    BY <1>4, <1>6 DEF AppendCommit
  <2> QED BY <1>1, <2>1 DEF Inv, Data, DataTyped, DraftRow
<1>7. ASSUME NEW t \in Thread, ApproveState(t)
      PROVE  FALSE
  BY <1>2, <1>7, Memory DEF ApproveState, Fit
<1>8. ASSUME NEW t \in Thread, Progress(t), ~AppendCommit(t), ~ApproveState(t)
      PROVE  PublishingState(t)
  BY <1>2, <1>3, <1>4, <1>8 DEF Progress, CreateDraft, UpdateRemote, AppendRead,
     SubmitLint, SubmitReady, SubmitAwait, ApproveVersion, CreateApproval,
     PublishDraft, PublishVersion, PublishCheck, RecordPublishing,
     PublishRemote, PublishedState, RecordPublished, tables
<1>9. ASSUME NEW t \in Thread, PublishingState(t)
      PROVE  pc[t] = "publishing" /\ call[t].draft = d
  BY <1>1, <1>9 DEF PublishingState, setDraftState, Inv, Data, DataTyped
<1> QED BY <1>4, <1>5, <1>6, <1>7, <1>8, <1>9 DEF Next, Tick, LateEffect, Throw, vars, tables

\* ReleasedAsApproved: when calls do not overlap, what is released is as it was approved
\* (article-management.ts:225-243, 300-336).
THEOREM ReleasedAsApprovedHolds == Spec => ReleasedAsApproved
<1>. DEFINE AsApproved ==
       ~overlapped => \A d \in Draft :
         (drafts[d].state # "PUBLISHING" /\ drafts'[d].state = "PUBLISHING") =>
            /\ assertPublishAuthority(drafts[d].state, "PUBLISHING", "AUTHOR")
            /\ \E a \in ApprovalsOf(d, drafts[d].current) : a.decision = "APPROVED"
<1>1. Inv /\ SequentialInv /\ [Next]_vars => AsApproved
  <2>1. SUFFICES ASSUME Inv, SequentialInv, [Next]_vars, ~overlapped, NEW d \in Draft,
                        drafts[d].state # "PUBLISHING", drafts'[d].state = "PUBLISHING"
                 PROVE  Released(d)
    BY DEF Released
  <2>2. PICK t \in Thread : pc[t] = "publishing" /\ call[t].draft = d
    BY <2>1, Releases
  <2> QED BY <2>1, <2>2 DEF SequentialInv, InTurn, Recalls
<1> QED BY <1>1, SequentialAlways, PTL DEF Spec, ReleasedAsApproved

=============================================================================
