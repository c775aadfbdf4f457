------------------------------ MODULE GatewayProofs ------------------------------
(***************************************************************************)
(* Proofs about the parts that must answer whatever comes, in any number:  *)
(*   - the MCP session registry, for any idle TTL.  Its inductive invariant*)
(*     says, session by session, what its place in the map, its transport  *)
(*     and its teardown allow of one another;                              *)
(*   - the request pipeline, for every number and path a request can carry:*)
(*     for whom operations run, what leaves for Forem, and which           *)
(*     correlation ids a request is given;                                 *)
(*   - the HTTP client, whatever the network loses and however late the    *)
(*     server acts.                                                        *)
(***************************************************************************)
EXTENDS MCGateways, FiniteSetTheorems, TLAPS

-----------------------------------------------------------------------------
(* The session registry *)

RegistryTypes ==
    /\ process \in {"up", "stopping", "exited", "crashed"}
    /\ signals \in 0..2
    /\ entries \subseteq Session /\ late \subseteq Session
    /\ idle \in [Session -> 0..SESSION_TTL_MS]
    /\ transport \in [Session -> {"none", "connecting", "open", "closed"}]
    /\ closing \in [Session -> {"none", "transport", "resource", "done", "failed"}]
    /\ origin \in [Session -> {"none", "delete", "sweep", "onclose", "dispose", "disposeAgain"}]
    /\ releases \in [Session -> {0, 1}]

\* What is so of one session at every moment.
Coherent(s) ==
    /\ s \in entries => transport[s] = "open" /\ closing[s] = "none"
    /\ s \notin entries /\ closing[s] = "none" => transport[s] \in {"none", "connecting"}
    /\ transport[s] \in {"none", "connecting"} => s \notin entries /\ closing[s] = "none"
    /\ closing[s] \in {"none", "transport"} => releases[s] = 0
    /\ closing[s] \in {"resource", "done"} => releases[s] = 1
    /\ closing[s] # "none" => origin[s] # "none"
    /\ closing[s] = "transport" => origin[s] # "onclose"
    /\ origin[s] = "disposeAgain" => signals = 2

\* What is so of the process.
ProcessSound ==
    /\ process = "up" => signals = 0
    /\ process = "stopping" => signals > 0 /\ entries \subseteq late
    /\ FailureIsContained
    /\ ExitLosesNone

RegistryInv == RegistryTypes /\ (\A s \in Session : Coherent(s)) /\ ProcessSound

-----------------------------------------------------------------------------

\* closeSession keeps the types, and each session coherent, if the sessions that it
\* tears down start at their transport, or at their resource with the transport closed.
LEMMA CloseTypes ==
    ASSUME RegistryTypes, \A s \in Session : Coherent(s),
           NEW S \in SUBSET Session, NEW first \in {"transport", "resource"},
           NEW who \in {"delete", "sweep", "onclose", "dispose", "disposeAgain"},
           closeSession(S, first, who)
    PROVE  /\ entries' \subseteq entries
           /\ closing' \in [Session -> {"none", "transport", "resource", "done", "failed"}]
           /\ origin' \in [Session -> {"none", "delete", "sweep", "onclose", "dispose", "disposeAgain"}]
           /\ releases' \in [Session -> {0, 1}]
  BY DEF RegistryTypes, Coherent, closeSession, Evicted, Released, InTeardown

\* Session by session: one that was in the map and in S is torn down, all others are
\* left alone.
LEMMA CloseEffect ==
    ASSUME RegistryTypes, \A s \in Session : Coherent(s),
           NEW S \in SUBSET Session, NEW first \in {"transport", "resource"}, NEW who,
           closeSession(S, first, who), NEW s \in Session
    PROVE  /\ s \in S /\ s \in entries =>
                 /\ s \notin entries' /\ closing'[s] = first /\ origin'[s] = who
                 /\ releases'[s] = IF first = "resource" THEN 1 ELSE 0
           /\ ~(s \in S /\ s \in entries) =>
                 /\ s \in entries' <=> s \in entries
                 /\ closing'[s] = closing[s] /\ origin'[s] = origin[s]
                 /\ releases'[s] = releases[s]
  BY DEF RegistryTypes, Coherent, closeSession, Evicted, Released, InTeardown

LEMMA RegistryInitInv == RegistryInit => RegistryInv
  BY TtlAssumption DEF RegistryInit, RegistryInv, RegistryTypes, Coherent, ProcessSound, FailureIsContained, ExitLosesNone,
     Registered

\* The steps that leave the map and the teardowns alone, or move one of them.
LEMMA SimpleStep ==
    ASSUME RegistryInv, NEW t \in Session,
           \/ Initialize(t) \/ register(t) \/ getAndTouch(t) \/ TransportClosed(t)
           \/ ResourceClosed(t) \/ IdleTick
    PROVE  RegistryInv'
<1> USE TtlAssumption
<1> USE DEF RegistryInv, RegistryTypes, Coherent, ProcessSound, ProcessRuns, FailureIsContained, ExitLosesNone,
            Registered
<1>1. CASE Initialize(t)  BY <1>1 DEF Initialize
<1>2. CASE register(t)  BY <1>2 DEF register
<1>3. CASE getAndTouch(t)  BY <1>3 DEF getAndTouch
<1>4. CASE TransportClosed(t)  BY <1>4 DEF TransportClosed, Released
<1>5. CASE ResourceClosed(t)  BY <1>5 DEF ResourceClosed
<1>6. CASE IdleTick  BY <1>6 DEF IdleTick
<1> QED  BY <1>1, <1>2, <1>3, <1>4, <1>5, <1>6

\* The steps of a running process that call closeSession.
LEMMA CloseStep ==
    ASSUME RegistryInv, NEW t,
           (t \in Session /\ (Delete(t) \/ onclose(t))) \/ cleanupExpired \/ shutdown
    PROVE  RegistryInv'
<1> USE TtlAssumption
<1> USE DEF RegistryInv, ProcessRuns
<1>1. CASE t \in Session /\ Delete(t)
  <2>1. closeSession({t}, "transport", "delete")  BY <1>1 DEF Delete
  <2>2. RegistryTypes'  BY <2>1, <1>1, CloseTypes DEF RegistryTypes, Delete
  <2>3. ASSUME NEW s \in Session PROVE Coherent(s)'
    BY <2>1, <1>1, CloseEffect DEF Coherent, Delete
  <2>4. ProcessSound'  BY <1>1 DEF ProcessSound, Delete, FailureIsContained, ExitLosesNone
  <2> QED  BY <2>2, <2>3, <2>4
<1>2. CASE cleanupExpired
  <2>1. closeSession(IdleTooLong, "transport", "sweep")  BY <1>2 DEF cleanupExpired
  <2>2. IdleTooLong \in SUBSET Session  BY DEF IdleTooLong, RegistryTypes
  <2>3. RegistryTypes'  BY <2>1, <2>2, <1>2, CloseTypes DEF RegistryTypes, cleanupExpired
  <2>4. ASSUME NEW s \in Session PROVE Coherent(s)'
    BY <2>1, <2>2, <1>2, CloseEffect DEF Coherent, cleanupExpired
  <2>5. ProcessSound'  BY <1>2 DEF ProcessSound, cleanupExpired, FailureIsContained, ExitLosesNone
  <2> QED  BY <2>3, <2>4, <2>5
<1>3. CASE t \in Session /\ onclose(t)
  <2>1. closeSession({t}, "resource", "onclose")  BY <1>3 DEF onclose, Hook
  <2>2. RegistryTypes'  BY <2>1, <1>3, CloseTypes DEF RegistryTypes, onclose
  <2>3. ASSUME NEW s \in Session PROVE Coherent(s)'
    <3>1. CASE s = t /\ t \in entries
      <4>1. /\ s \notin entries' /\ closing'[s] = "resource" /\ origin'[s] = "onclose"
            /\ releases'[s] = 1
        BY <1>3, <2>1, <3>1, CloseEffect
      <4> QED  BY <1>3, <3>1, <4>1 DEF Coherent, onclose, RegistryTypes
    <3>2. CASE ~(s = t /\ t \in entries)
      <4>1. /\ s \in entries' <=> s \in entries
            /\ closing'[s] = closing[s] /\ origin'[s] = origin[s] /\ releases'[s] = releases[s]
        BY <1>3, <2>1, <3>2, CloseEffect
      <4>2. CASE s = t  BY <1>3, <3>2, <4>1, <4>2 DEF Coherent, onclose, RegistryTypes
      <4>3. CASE s # t  BY <1>3, <4>1, <4>3 DEF Coherent, onclose, RegistryTypes
      <4> QED  BY <4>2, <4>3
    <3> QED  BY <3>1, <3>2
  <2>4. entries' \subseteq entries  BY <1>3, <2>1, CloseTypes
  <2>5. ProcessSound'
    BY <1>3, <2>4 DEF ProcessSound, onclose, FailureIsContained, ExitLosesNone, RegistryTypes
  <2> QED  BY <2>2, <2>3, <2>5
<1>4. CASE shutdown
  <2> DEFINE who == Disposer[signals + 1]
  <2>1. signals \in 0..1 /\ who \in {"dispose", "disposeAgain"} /\ (signals = 0 => who = "dispose")
    BY <1>4 DEF shutdown, Disposer, RegistryTypes
  <2>2. closeSession(entries, "transport", who)  BY <1>4 DEF shutdown
  <2>3. entries \in SUBSET Session  BY DEF RegistryTypes
  <2> HIDE DEF who
  <2>4. RegistryTypes'  BY <2>1, <2>2, <2>3, <1>4, CloseTypes DEF RegistryTypes, shutdown
  <2>5. ASSUME NEW s \in Session PROVE Coherent(s)' /\ s \notin entries'
    BY <2>1, <2>2, <2>3, <1>4, CloseEffect DEF Coherent, shutdown
  <2>6. entries' = {}  BY <2>4, <2>5 DEF RegistryTypes
  <2>7. ProcessSound'
    BY <1>4, <2>1, <2>6 DEF ProcessSound, shutdown, FailureIsContained, ExitLosesNone
  <2> QED  BY <2>4, <2>5, <2>7
<1> QED  BY <1>1, <1>2, <1>3, <1>4

\* The steps after which the process may be gone.
LEMMA EndStep ==
    ASSUME RegistryInv, NEW t, (t \in Session /\ CloseFails(t)) \/ ProcessExits
    PROVE  RegistryInv'
<1> USE DEF RegistryInv, RegistryTypes, Coherent, ProcessSound, ProcessRuns, FailureIsContained, ExitLosesNone,
            Registered, InTeardown
<1>1. CASE t \in Session /\ CloseFails(t)  BY <1>1 DEF CloseFails, AfterRejection
<1>2. CASE ProcessExits
  <2>1. PICK n \in 1..signals : \A s \in Awaited(n) : ~InTeardown(s)  BY <1>2 DEF ProcessExits
  <2>2. signals = 1 => \A s \in Session : origin[s] = "dispose" => ~InTeardown(s)
    BY <2>1 DEF Awaited, Disposer
  <2>3. ProcessSound'
    BY <1>2, <2>2 DEF ProcessExits
  <2> QED  BY <1>2, <2>3 DEF ProcessExits
<1> QED  BY <1>1, <1>2

LEMMA RegistryNextInv == RegistryInv /\ [RegistryNext]_registryVars => RegistryInv'
<1> SUFFICES ASSUME RegistryInv, [RegistryNext]_registryVars PROVE RegistryInv'
  OBVIOUS
<1>1. CASE \E s \in Session : \/ Initialize(s) \/ register(s) \/ getAndTouch(s)
                              \/ TransportClosed(s) \/ ResourceClosed(s)
  BY <1>1, SimpleStep
<1>2. CASE \E s \in Session : Delete(s) \/ onclose(s)
  BY <1>2, CloseStep
<1>3. CASE \E s \in Session : CloseFails(s)
  BY <1>3, EndStep
<1>4. CASE IdleTick
  BY <1>4, SimpleStep DEF IdleTick, RegistryInv, RegistryTypes
<1>5. CASE cleanupExpired \/ shutdown
  BY <1>5, CloseStep
<1>6. CASE ProcessExits
  BY <1>6, EndStep
<1>7. CASE UNCHANGED registryVars
  BY <1>7 DEF registryVars, RegistryInv, RegistryTypes, Coherent, ProcessSound, FailureIsContained,
     ExitLosesNone, Registered
<1> QED  BY <1>1, <1>2, <1>3, <1>4, <1>5, <1>6, <1>7 DEF RegistryNext

-----------------------------------------------------------------------------

\* The registry is always in a coherent state.
THEOREM RegistrySafe == RegistrySpec => []RegistryInv
  BY RegistryInitInv, RegistryNextInv, PTL DEF RegistrySpec

\* Every field keeps its type.
THEOREM RegistryTypeSafe == RegistrySpec => []RegistryTypeOK
<1>1. RegistryInv => RegistryTypeOK  BY DEF RegistryInv, RegistryTypes, RegistryTypeOK
<1> QED  BY <1>1, RegistrySafe, PTL

\* A session that requests can reach is never being torn down and its transport is
\* open, for any number of sessions (session-registry.ts:36-38).
THEOREM RegisteredIsOpenHolds == RegistrySpec => []RegisteredIsOpen
<1>1. RegistryInv => RegisteredIsOpen  BY DEF RegistryInv, RegistryTypes, Coherent, RegisteredIsOpen
<1> QED  BY <1>1, RegistrySafe, PTL

\* However expiry, DELETE, the transport and shutdown overlap, the server of a session
\* is released once and never twice (session-registry.ts:107-136).
THEOREM ReleasedExactlyOnceHolds == RegistrySpec => []ReleasedExactlyOnce
<1>1. RegistryInv => ReleasedExactlyOnce
  <2> SUFFICES ASSUME RegistryInv, NEW s \in Session
               PROVE  /\ releases[s] <= 1
                      /\ (Registered(s) /\ s \notin entries /\ closing[s] \in {"none", "done"})
                            => releases[s] = 1
    BY DEF ReleasedExactlyOnce
  <2>1. releases[s] \in {0, 1} /\ Coherent(s)  BY DEF RegistryInv, RegistryTypes
  <2> QED  BY <2>1 DEF Coherent, Registered
<1> QED  BY <1>1, RegistrySafe, PTL

\* After one signal nothing that dispose could have closed is left unreleased
\* (index.ts:180-187).
THEOREM ExitLosesNoneHolds == RegistrySpec => []ExitLosesNone
<1>1. RegistryInv => ExitLosesNone  BY DEF RegistryInv, ProcessSound
<1> QED  BY <1>1, RegistrySafe, PTL

\* Only a failed teardown that nobody waits for ends the process
\* (session-registry.ts:51, 71).
THEOREM FailureIsContainedHolds == RegistrySpec => []FailureIsContained
<1>1. RegistryInv => FailureIsContained  BY DEF RegistryInv, ProcessSound
<1> QED  BY <1>1, RegistrySafe, PTL

-----------------------------------------------------------------------------
(* For whom *)

\* Who a request of an author is for is known once it passed the session check, and no
\* record is touched before.
AuthorKnown ==
    /\ call \in Requests
    /\ signedIn \subseteq Account
    /\ handling \in {"socket", "auth", "handler", "running", "working", "done"}
    /\ handling \in {"socket", "auth", "handler", "running"} => touched = {}
    /\ handling = "auth" => call.op \notin PublicRoutes
    /\ (handling \in {"handler", "running"} /\ call.op \notin PublicRoutes) =>
           author \in Account /\ author = call.token

\* A request through the door of the tools is for a public operation.
LEMMA ToolsArePublic ==
    ASSUME NEW c \in Requests
    PROVE  /\ c.op \in Route
           /\ c.door \in {"rest", "mcp"}
           /\ c.door = "mcp" => c.op \in PublicRoutes
<1>1. PublicRoutes \subseteq Route
  BY DEF Route
<1> QED BY <1>1 DEF Requests

\* Operations on records are for authors, and those that ask for the owner are told who asks.
LEMMA RecordsAreProtected ==
    /\ NamesRecord \cap PublicRoutes = {}
    /\ ChecksOwner \subseteq PassesAuthor
  BY DEF NamesRecord, PublicRoutes, HistoryRoutes, ChecksOwner, PassesAuthor, Protected, Route,
         InventoryRoutes, IdeationRoutes, DraftingRoutes, PublishingRoutes, SchedulingRoutes

\* What was touched is in order, step by step.
LEMMA AuthorStep ==
    ASSUME AuthorKnown, OwnerDecides, [ApiNext]_apiVars
    PROVE  AuthorKnown' /\ OwnerDecides'
<1>1. CASE Arrive
  <2>1. call.door = "rest" /\ call.op \in Protected <=> call.op \notin PublicRoutes
    BY ToolsArePublic DEF AuthorKnown, Protected
  <2>2. /\ handling' \in {"done", "auth", "handler"}
        /\ handling' = "auth" => call.op \notin PublicRoutes
        /\ handling' = "handler" => call.op \in PublicRoutes
    BY <1>1, <2>1 DEF Arrive
  <2>3. UNCHANGED <<signedIn, call, author, touched>> /\ handling = "socket"
    BY <1>1 DEF Arrive
  <2>4. touched' = {} /\ call' \in Requests /\ signedIn' \subseteq Account
    BY <2>3 DEF AuthorKnown
  <2>5. AuthorKnown'
    BY <2>2, <2>3, <2>4 DEF AuthorKnown
  <2> QED BY <2>4, <2>5 DEF OwnerDecides
<1>2. CASE requireAuthor
  <2>1. handling = "auth" /\ UNCHANGED <<signedIn, call, touched>> /\ touched = {}
    BY <1>2 DEF requireAuthor, AuthorKnown
  <2>2. CASE call.token \in signedIn /\ author' = call.token /\ handling' = "handler"
    BY <2>1, <2>2 DEF AuthorKnown, OwnerDecides
  <2>3. CASE handling' = "done"
    BY <2>1, <2>3 DEF AuthorKnown, OwnerDecides
  <2> QED BY <1>2, <2>2, <2>3 DEF requireAuthor
<1>3. CASE Handle
  <2>1. /\ handling = "handler" /\ UNCHANGED <<signedIn, call, author, touched>>
        /\ handling' \in {"done", "running"}
    BY <1>3 DEF Handle
  <2> QED BY <2>1 DEF AuthorKnown, OwnerDecides
<1>4. CASE Replay \/ FindRecord
  <2>1. /\ handling = "running" /\ call.op \in NamesRecord
        /\ handling' \in {"working", "done"} /\ UNCHANGED <<signedIn, call, author>>
        /\ \/ touched' = touched
           \/ touched' = touched \cup {[op |-> "replay", owner |-> call.owner]}
           \/ /\ touched' = touched \cup {[op |-> call.op, owner |-> call.owner]}
              /\ call.op \in ChecksOwner => call.owner = For
    BY <1>4 DEF Replay, FindRecord, NamesRecord
  <2>2. author \in Account /\ author = call.token
    BY <2>1, RecordsAreProtected DEF AuthorKnown
  <2>3. call.op \in ChecksOwner => For = author
    BY RecordsAreProtected DEF For
  <2>4. call.op \notin ChecksOwner => call.op \in {"submitForReview"} \cup HistoryRoutes
    BY <2>1 DEF NamesRecord, ChecksOwner
  <2>5. AuthorKnown'
    BY <2>1 DEF AuthorKnown
  <2>6. OwnerDecides'
    BY <2>1, <2>2, <2>3, <2>4 DEF OwnerDecides
  <2> QED BY <2>5, <2>6
<1>5. CASE Reply \/ Throw
  BY <1>5 DEF Reply, Throw, AuthorKnown, OwnerDecides
<1>6. CASE SessionChanges
  <2>1. signedIn' \subseteq Account
    BY <1>6 DEF SessionChanges, AuthorKnown
  <2> QED BY <1>6, <2>1 DEF SessionChanges, AuthorKnown, OwnerDecides
<1>7. CASE UNCHANGED apiVars
  BY <1>7 DEF apiVars, AuthorKnown, OwnerDecides
<1> QED BY <1>1, <1>2, <1>3, <1>4, <1>5, <1>6, <1>7 DEF ApiNext

\* However sessions come and go while a request is under way, a draft or run is decided on
\* only for its owner, and reached by nobody who is not signed in (routes.ts:259-332,
\* auth.ts:29-46, drafting.ts:196-237, article-management.ts:213-218).
THEOREM OwnerDecidesHolds == ApiSpec => []OwnerDecides
<1>1. ApiInit => AuthorKnown /\ OwnerDecides
  BY DEF ApiInit, AuthorKnown, OwnerDecides
<1> QED BY <1>1, AuthorStep, PTL DEF ApiSpec

-----------------------------------------------------------------------------
(* What leaves for Forem *)

Legal(f) ==
    /\ DOMAIN f \subseteq {"op", "page", "per_page", "id", "path", "top"}
    /\ "page" \in DOMAIN f => /\ f.page \in {2 * i : i \in 1..100}
                              /\ f.per_page \in {2 * i : i \in 1..1000}
    /\ "id" \in DOMAIN f => f.id > 0 /\ f.id % 2 = 0
    /\ "path" \in DOMAIN f => Len(f.path) = 2 /\ ".." \notin {f.path[1], f.path[2]}
    /\ "top" \in DOMAIN f => /\ f.top \in (TopGiven \ {Absent, Junk}) \cup {2}
                             /\ f.op = "listArticles"

\* An even number of halves is a whole number.
LEMMA Halved ==
    ASSUME NEW n \in Int, n % 2 = 0
    PROVE  \E i \in Int : n = 2 * i
<1>1. n = 2 * (n \div 2) /\ n \div 2 \in Int
  OBVIOUS
<1> QED BY <1>1

\* What the argument checks let through is a legal request.
LEMMA AcceptedIsLegal ==
    ASSUME NEW c \in Requests, c.op \in PublicRoutes, ArgumentsAccepted(c)
    PROVE  Legal(ForemCall(c))
<1> DEFINE a == Arguments(c)
<1>1. CASE c.op \in {"listArticles", "searchArticles", "listTags"}
  <2>1. parsePagination(a.page, a.per_page)
    BY <1>1 DEF ArgumentsAccepted
  <2>2. \/ ForemCall(c) = [op |-> c.op, page |-> a.page, per_page |-> a.per_page]
        \/ /\ ForemCall(c) = [op |-> c.op, page |-> a.page, per_page |-> a.per_page, top |-> a.top]
           /\ c.op = "listArticles" /\ a.top # Absent
    BY <1>1 DEF ForemCall
  <2>3. a.top # Absent => a.top \in (TopGiven \ {Absent, Junk}) \cup {2}
    <3>1. c.door = "mcp" => a.top = c.top /\ c.top \in TopGiven \ {Junk}
      BY DEF Arguments, Requests
    <3>2. c.door # "mcp" => c.top \in TopGiven /\ (a.top = Absent \/ a.top = int(c.top, 2))
      BY DEF Arguments, Requests
    <3> QED BY <3>1, <3>2 DEF IsNumber, int
  <2> DEFINE p == a.page
             q == a.per_page
             t == a.top
  <2> HIDE DEF a, p, q, t
  <2>4. parsePagination(p, q)
    BY <2>1 DEF p, q
  <2>5. \/ ForemCall(c) = [op |-> c.op, page |-> p, per_page |-> q]
        \/ /\ ForemCall(c) = [op |-> c.op, page |-> p, per_page |-> q, top |-> t]
           /\ c.op = "listArticles" /\ t \in (TopGiven \ {Absent, Junk}) \cup {2}
    BY <2>2, <2>3 DEF p, q, t
  <2>6. p \in {2 * i : i \in 1..100}
    <3>1. PICK i \in Int : p = 2 * i
      BY <2>4, Halved DEF parsePagination, IsInteger
    <3>2. i \in 1..100
      BY <2>4, <3>1 DEF parsePagination
    <3> QED BY <3>1, <3>2
  <2>7. q \in {2 * i : i \in 1..1000}
    <3>1. PICK i \in Int : q = 2 * i
      BY <2>4, Halved DEF parsePagination, IsInteger
    <3>2. i \in 1..1000
      BY <2>4, <3>1 DEF parsePagination
    <3> QED BY <3>1, <3>2
  <2> QED BY <2>5, <2>6, <2>7 DEF Legal
<1>2. CASE c.op = "getArticle" /\ IsNumber(a.id)
  <2>1. requirePositiveInteger(a.id) /\ ForemCall(c) = [op |-> c.op, id |-> a.id]
    BY <1>2 DEF ArgumentsAccepted, ForemCall
  <2> HIDE DEF a
  <2> QED BY <2>1 DEF Legal, requirePositiveInteger, IsInteger
<1>3. CASE c.op = "getArticle" /\ ~IsNumber(a.id)
  <2>1. /\ requireArticlePath(a.path)
        /\ ForemCall(c) = [op |-> c.op, path |-> Segments(a.path)]
    BY <1>3 DEF ArgumentsAccepted, ForemCall
  <2> DEFINE s == Segments(a.path)
  <2>2. Len(s) = 2 /\ \A i \in 1..2 : s[i] \notin {"", ".", ".."}
    BY <2>1 DEF requireArticlePath
  <2>3. ForemCall(c) = [op |-> c.op, path |-> s]
    BY <2>1
  <2> HIDE DEF s
  <2>4. 1 \in 1..2 /\ 2 \in 1..2
    OBVIOUS
  <2>5. ".." \notin {s[1], s[2]}
    BY <2>2, <2>4
  <2> DEFINE f == [op |-> c.op, path |-> s]
  <2>6. DOMAIN f = {"op", "path"} /\ f.path = s
    OBVIOUS
  <2> HIDE DEF f
  <2>7. Legal(f)
    BY <2>2, <2>5, <2>6 DEF Legal
  <2> QED BY <2>3, <2>7 DEF f
<1>4. CASE c.op = "getUser"
  <2>1. CASE c.door = "mcp" /\ IsNumber(a.id)
    <3>1. c.door # "rest"
      BY <2>1
    <3>2. requirePositiveInteger(a.id)
      BY <1>4, <2>1, <3>1 DEF ArgumentsAccepted
    <3>3. ForemCall(c) = [op |-> c.op, id |-> a.id]
      BY <1>4, <2>1 DEF ForemCall
    <3> HIDE DEF a
    <3> QED BY <3>2, <3>3 DEF Legal, requirePositiveInteger, IsInteger
  <2>2. CASE ~(c.door = "mcp" /\ IsNumber(a.id))
    <3>1. ForemCall(c) = [op |-> c.op]
      BY <1>4, <2>2 DEF ForemCall
    <3> QED BY <3>1 DEF Legal
  <2> QED BY <2>1, <2>2
<1>5. CASE c.op = "listComments"
  <2>1. requirePositiveInteger(a.id) /\ ForemCall(c) = [op |-> c.op, id |-> a.id]
    BY <1>5 DEF ArgumentsAccepted, ForemCall
  <2> HIDE DEF a
  <2> QED BY <2>1 DEF Legal, requirePositiveInteger, IsInteger
<1>6. CASE c.op = "getArticle"
  BY <1>2, <1>3, <1>6
<1> QED BY <1>1, <1>4, <1>5, <1>6 DEF PublicRoutes

\* Whatever numbers or path a request carries, through either door, what leaves for Forem is
\* a legal page, id or path, and of top a number the client may give or 1 (discovery.ts:34-48,
\* identifiers.ts:14-30, routes.ts:56-58).
THEOREM ForemGetsLegalCallsHolds == ApiSpec => []ForemGetsLegalCalls
<1> DEFINE Inv == call \in Requests /\ \A f \in sent : Legal(f)
<1>1. ApiInit => Inv
  BY DEF ApiInit
<1>2. Inv /\ [ApiNext]_apiVars => Inv'
  <2> SUFFICES ASSUME Inv, [ApiNext]_apiVars PROVE Inv'
    OBVIOUS
  <2>1. CASE Handle
    <3>1. call' = call
      BY <2>1 DEF Handle
    <3>2. \/ sent' = sent
          \/ /\ sent' = sent \cup {ForemCall(call)}
             /\ ArgumentsAccepted(call) /\ call.op \in PublicRoutes
      BY <2>1 DEF Handle
    <3> QED BY <3>1, <3>2, AcceptedIsLegal
  <2>2. CASE UNCHANGED <<call, sent>>
    BY <2>2
  <2> QED BY <2>1, <2>2 DEF ApiNext, Arrive, requireAuthor, Replay, FindRecord, Reply, Throw, SessionChanges, apiVars
<1>3. Inv => ForemGetsLegalCalls
  BY DEF Legal, ForemGetsLegalCalls
<1> QED BY <1>1, <1>2, <1>3, PTL DEF ApiSpec

-----------------------------------------------------------------------------
(* Correlation ids *)

Ids == {NoCode, "client", "metrics", "header", "handler"}

\* The id of the counter is given on arrival, the others by the handler.
Stamped ==
    /\ \A a \in answers : a.code # NoCode => a.id = stamp.header /\ handling = "done"
    /\ stamp \in [metrics : Ids, header : Ids, handler : Ids]
    /\ (call.id = "client" /\ handling \in {"auth", "handler", "running"}) =>
           stamp.metrics = "client"
    /\ handling = "running" =>
           /\ call.id = "client" => stamp.header = "client" /\ stamp.handler = "client"
           /\ call.door = "mcp" => stamp.handler = stamp.header

\* Of the steps, the two that stamp a request and answer it at once.
LEMMA StampedStep ==
    ASSUME Stamped, [ApiNext]_apiVars
    PROVE  Stamped'
<1>0. \A a \in answers : a.code # NoCode => handling = "done"
  BY DEF Stamped
<1>1. CASE Arrive
  <2>1. CASE call.body = "malformed"
    <3>1. /\ answers' = answers \cup {Answer(500, NoCode, NoCode)}
          /\ handling' = "done" /\ UNCHANGED <<stamp, call>> /\ handling = "socket"
      BY <1>1, <2>1 DEF Arrive
    <3> QED BY <3>1 DEF Stamped, Answer
  <2>2. CASE call.body # "malformed"
    <3>1. /\ handling' \in {"auth", "handler"} /\ UNCHANGED <<answers, call>>
          /\ handling = "socket"
          /\ stamp' = [stamp EXCEPT !.metrics = normalizeCorrelationId("metrics")]
      BY <1>1, <2>2 DEF Arrive
    <3>2. /\ call.id = "client" => stamp'.metrics = "client"
          /\ stamp' \in [metrics : Ids, header : Ids, handler : Ids]
      BY <3>1 DEF Stamped, normalizeCorrelationId, Ids
    <3>3. \A a \in answers : a.code = NoCode
      BY <1>0, <3>1
    <3> QED BY <3>1, <3>2, <3>3 DEF Stamped
  <2> QED BY <2>1, <2>2
<1>2. CASE requireAuthor
  <2>0. handling = "auth" /\ call' = call
    BY <1>2 DEF requireAuthor
  <2>1. \A a \in answers : a.code = NoCode
    BY <1>0, <2>0
  <2>2. CASE handling' = "handler" /\ UNCHANGED <<stamp, answers>>
    BY <2>0, <2>1, <2>2 DEF Stamped
  <2>3. CASE /\ handling' = "done"
             /\ stamp' = [stamp EXCEPT !.header = normalizeCorrelationId("header")]
             /\ sendError("UNAUTHORIZED", stamp'.header)
    <3>1. stamp' \in [metrics : Ids, header : Ids, handler : Ids]
      BY <2>3 DEF Stamped, normalizeCorrelationId, Ids
    <3>2. \A a \in answers' : a.code # NoCode => a.id = stamp'.header
      BY <2>1, <2>3 DEF sendError, Answer
    <3> QED BY <2>3, <3>1, <3>2 DEF Stamped
  <2>4. CASE /\ handling' = "done" /\ answers' = answers \cup {Answer(500, NoCode, NoCode)}
             /\ UNCHANGED stamp
    BY <2>1, <2>4 DEF Stamped, Answer
  <2> QED BY <1>2, <2>2, <2>3, <2>4 DEF requireAuthor
<1>3. CASE Handle
  <2> DEFINE header == normalizeCorrelationId("header")
             inner == IF call.door = "mcp" THEN header ELSE normalizeCorrelationId("handler")
  <2>0. handling = "handler" /\ call' = call
        /\ stamp' = [stamp EXCEPT !.header = header, !.handler = inner]
    BY <1>3 DEF Handle
  <2>1. /\ header \in Ids /\ inner \in Ids
        /\ call.id = "client" => header = "client" /\ inner = "client"
        /\ call.door = "mcp" => inner = header
    BY DEF normalizeCorrelationId, Ids
  <2> HIDE DEF header, inner
  <2>8. stamp \in [metrics : Ids, header : Ids, handler : Ids]
    BY DEF Stamped
  <2>2. /\ stamp'.metrics = stamp.metrics /\ stamp'.header = header /\ stamp'.handler = inner
        /\ stamp' \in [metrics : Ids, header : Ids, handler : Ids]
    BY <2>0, <2>1, <2>8
  <2>3. \A a \in answers : a.code = NoCode
    BY <1>0, <2>0
  <2>4. \/ handling' = "running" /\ answers' = answers
        \/ /\ handling' = "done"
           /\ \E code \in ApiErrorCode : sendError(code, header)
    BY <1>3 DEF Handle, header, ApiErrorCode, STATUS_BY_CODE
  <2>5. \A a \in answers' : a.code # NoCode => a.id = header /\ handling' = "done"
    BY <2>3, <2>4 DEF sendError, Answer
  <2>6. call.id = "client" => stamp.metrics = "client"
    BY <2>0 DEF Stamped
  <2>7. handling' \in {"running", "done"}
    BY <2>4
  <2> QED BY <2>0, <2>1, <2>2, <2>5, <2>6, <2>7 DEF Stamped
<1>4. CASE Replay \/ FindRecord \/ Reply \/ Throw
  <2>1. /\ handling \in {"running", "working"} /\ UNCHANGED <<call, stamp>>
        /\ handling' = "done" \/ (handling' = "working" /\ UNCHANGED answers)
    BY <1>4 DEF Replay, FindRecord, Reply, Throw
  <2>2. \A a \in answers : a.code = NoCode
    BY <1>0, <2>1
  <2>3. \A a \in answers' : a.code # NoCode => a.id = stamp.header
    BY <1>4, <2>2 DEF Replay, FindRecord, Reply, Throw, sendError, Answer
  <2>4. \A a \in answers' : a.code # NoCode => handling' = "done"
    BY <2>1, <2>2
  <2> QED BY <2>1, <2>3, <2>4 DEF Stamped
<1>5. CASE UNCHANGED <<call, stamp, handling, answers>>
  BY <1>5 DEF Stamped
<1> QED BY <1>1, <1>2, <1>3, <1>4, <1>5 DEF ApiNext, SessionChanges, apiVars

\* The id a client sends is the one everywhere; the error body repeats the header's; and a
\* tool hands its use case the header's too (routes.ts:9-26, :403-405; index.ts:33-36).
THEOREM IdTravelsWithRequestHolds == ApiSpec => []IdTravelsWithRequest
<1>1. ApiInit => Stamped
  BY DEF ApiInit, Stamped, Ids
<1>2. Stamped => IdTravelsWithRequest
  BY DEF Stamped, IdTravelsWithRequest
<1> QED BY <1>1, <1>2, StampedStep, PTL DEF ApiSpec

-----------------------------------------------------------------------------
(* Types of the pipeline *)

ApiShape ==
    /\ signedIn \subseteq Account
    /\ handling \in {"socket", "auth", "handler", "running", "working", "done"}
    /\ stamp \in [metrics : {NoCode, "client", "metrics"}, header : {NoCode, "client", "header"},
                  handler : {NoCode, "client", "header", "handler"}]
    /\ author \in Account \cup {Nothing}
    /\ answers # {} => handling = "done"

\* A request is answered once.
Answered ==
    \/ answers = {}
    \/ \E a : /\ answers = {a}
              /\ a.status \in {STATUS_BY_CODE[c] : c \in ApiErrorCode} \cup {200, 204}

LEMMA ErrorAnswers ==
    ASSUME answers = {}, NEW code \in ApiErrorCode, NEW id, sendError(code, id)
    PROVE  Answered'
<1> DEFINE a == Answer(IF call.door = "mcp" THEN 200 ELSE STATUS_BY_CODE[code], code, id)
<1>1. answers' = {a}
  BY DEF sendError
<1>2. a.status \in {STATUS_BY_CODE[c] : c \in ApiErrorCode} \cup {200, 204}
  BY DEF Answer
<1> HIDE DEF a
<1> QED BY <1>1, <1>2 DEF Answered

LEMMA ApiShapeStep ==
    ASSUME ApiShape, Answered, [ApiNext]_apiVars
    PROVE  ApiShape' /\ Answered'
<1>1. \A place : normalizeCorrelationId(place) \in {"client", place}
  BY DEF normalizeCorrelationId
<1>2. {"INTERNAL_ERROR", "UNAUTHORIZED", "INVALID_INPUT"} \subseteq ApiErrorCode
      /\ \A c : OutcomeOf(c) \subseteq ApiErrorCode
  BY DEF ApiErrorCode, STATUS_BY_CODE, OutcomeOf
<1>3. \A status \in {200, 204, 500} : \A code, id :
         Answer(status, code, id).status
            \in {STATUS_BY_CODE[c] : c \in ApiErrorCode} \cup {200, 204}
  <2>1. STATUS_BY_CODE["INTERNAL_ERROR"] = 500
    BY DEF STATUS_BY_CODE
  <2> QED BY <1>2, <2>1 DEF Answer
<1>4. CASE Arrive
  <2>1. answers = {} /\ UNCHANGED <<signedIn, author>>
    BY <1>4 DEF Arrive, ApiShape
  <2>2. ApiShape'
    BY <1>1, <1>4, <2>1 DEF Arrive, ApiShape
  <2>3. Answered'
    BY <1>3, <1>4, <2>1 DEF Arrive, Answered
  <2> QED BY <2>2, <2>3
<1>5. CASE requireAuthor
  <2>1. answers = {} /\ UNCHANGED signedIn
    BY <1>5 DEF requireAuthor, ApiShape
  <2>2. ApiShape'
    BY <1>1, <1>5, <2>1 DEF requireAuthor, ApiShape
  <2>3. Answered'
    BY <1>2, <1>3, <1>5, <2>1, ErrorAnswers DEF requireAuthor, Answered
  <2> QED BY <2>2, <2>3
<1>6. CASE Handle
  <2>1. answers = {} /\ UNCHANGED <<signedIn, author>>
    BY <1>6 DEF Handle, ApiShape
  <2>2. handling' \in {"done", "running"} /\ (handling' = "done" \/ UNCHANGED answers)
    BY <1>6 DEF Handle
  <2>3. stamp' \in [metrics : {NoCode, "client", "metrics"}, header : {NoCode, "client", "header"},
                    handler : {NoCode, "client", "header", "handler"}]
    BY <1>1, <1>6 DEF Handle, ApiShape
  <2>4. ApiShape'
    BY <2>1, <2>2, <2>3 DEF ApiShape
  <2>5. Answered'
    BY <1>2, <1>6, <2>1, ErrorAnswers DEF Handle, Answered
  <2> QED BY <2>4, <2>5
<1>7. CASE Replay \/ FindRecord \/ Reply \/ Throw
  <2>1. /\ answers = {} /\ UNCHANGED <<signedIn, author, stamp>>
        /\ handling' = "done" \/ (handling' = "working" /\ UNCHANGED answers)
    BY <1>7 DEF Replay, FindRecord, Reply, Throw, ApiShape
  <2>2. Answered'
    <3>1. CASE \E status \in {200, 204} :
                  answers' = answers \cup {Answer(status, NoCode, stamp.header)}
      BY <1>3, <2>1, <3>1 DEF Answered
    <3>2. CASE \E code \in ApiErrorCode : sendError(code, stamp.header)
      BY <2>1, <3>2, ErrorAnswers
    <3>3. CASE UNCHANGED answers
      BY <3>3 DEF Answered
    <3>4. {"INVALID_INPUT", "FORBIDDEN"} \subseteq ApiErrorCode
      BY DEF ApiErrorCode, STATUS_BY_CODE
    <3> QED BY <1>2, <1>7, <3>1, <3>2, <3>3, <3>4 DEF Replay, FindRecord, Reply, Throw
  <2> QED BY <2>1, <2>2 DEF ApiShape
<1>8. CASE SessionChanges
  <2>1. signedIn' \subseteq Account
    BY <1>8 DEF SessionChanges, ApiShape
  <2> QED BY <1>8, <2>1 DEF SessionChanges, ApiShape, Answered
<1>9. CASE UNCHANGED apiVars
  BY <1>9 DEF apiVars, ApiShape, Answered
<1> QED BY <1>4, <1>5, <1>6, <1>7, <1>8, <1>9 DEF ApiNext

LEMMA ApiTypes == ApiShape /\ Answered => ApiTypeOK
<1> SUFFICES ASSUME ApiShape, Answered PROVE ApiTypeOK
  OBVIOUS
<1>1. Cardinality(answers) <= 1
  BY FS_EmptySet, FS_Singleton DEF Answered
<1> QED BY <1>1 DEF ApiShape, Answered, ApiTypeOK

-----------------------------------------------------------------------------
(* The HTTP client *)

\* An attempt the client gave up on was carried out all the same.
Late(v) == \E a \in givenUp : a[1] = v /\ a \in done

\* The requests go one after the other, and each one's attempts are counted.
InOrder ==
    \A r \in Request :
        /\ phase[r] = "idle" <=> attempt[r] = 0
        /\ phase[r] # "idle" => \A q \in Request : q < r => phase[q] = "done"
        /\ phase[r] = "backoff" => attempt[r] < MAX_HTTP_ATTEMPTS
        /\ method[r] = "POST" => attempt[r] <= 1 /\ phase[r] # "backoff"
        /\ outcome[r] # "none" => phase[r] = "done"

\* What is under way was sent; it is the attempt that is waited for, or was given up.
WireSound ==
    /\ \A a \in wire \cup done \cup givenUp : a[2] <= attempt[a[1]]
    /\ \A a \in wire : \/ a = Current(a[1]) /\ phase[a[1]] = "waiting" /\ reply[a[1]] = NoReply
                       \/ a \in givenUp
    /\ \A a \in givenUp : phase[a[1]] \in {"waiting", "body"} => a # Current(a[1])

\* A success that was received was carried out, and nothing came after it but what the
\* client had given up on.
AnswerSound ==
    /\ \A r \in Request :
         /\ phase[r] = "body" => reply[r] \in Success
         /\ (phase[r] \in {"waiting", "body"} /\ reply[r] \in Success /\ method[r] # "GET") =>
              Current(r) \in done /\ (value < r => Late(value))
    /\ confirmed # 0 => confirmed \in Request /\ phase[confirmed] = "done"

HttpInv ==
    /\ HttpTypeOK /\ InOrder /\ WireSound /\ AnswerSound
    /\ ReturnedWasCarriedOut /\ RefusalIsFinal /\ ExhaustedAfterLast /\ ConfirmedStands

USE HttpAssumption DEF Request, Current

-----------------------------------------------------------------------------

LEMMA HttpInitInv == HttpInit => HttpInv
  BY DEF HttpInit, HttpInv, HttpTypeOK, InOrder, WireSound, AnswerSound, ReturnedWasCarriedOut,
     RefusalIsFinal, ExhaustedAfterLast, ConfirmedStands, HttpMethod, Status, Success, Transient,
     Refusal, NoReply

\* An attempt is sent.
LEMMA SendsStep ==
    ASSUME HttpInv, NEW r \in Request, request(r) \/ Retry(r)
    PROVE  HttpInv'
<1> USE DEF HttpInv, HttpTypeOK
<1>1. /\ attempt' = [attempt EXCEPT ![r] = @ + 1]
      /\ phase' = [phase EXCEPT ![r] = "waiting"]
      /\ reply' = [reply EXCEPT ![r] = NoReply]
      /\ wire' = wire \cup {<<r, attempt[r] + 1>>}
      /\ UNCHANGED <<method, outcome, done, value, confirmed, givenUp, refused>>
      /\ phase[r] \in {"idle", "backoff"}
      /\ \A q \in Request : q < r => phase[q] = "done"
  BY DEF request, Retry, Sends, InOrder
<1>2. attempt[r] < MAX_HTTP_ATTEMPTS  BY <1>1 DEF InOrder
<1>3. phase[r] = "idle" => attempt[r] = 0  BY DEF InOrder
<1>4. HttpTypeOK'
  <2>1. attempt[r] + 1 \in 1..MAX_HTTP_ATTEMPTS  BY <1>2
  <2>2. attempt' \in [Request -> 0..MAX_HTTP_ATTEMPTS]  BY <1>1, <2>1
  <2>3. wire' \subseteq Request \X (1..MAX_HTTP_ATTEMPTS)  BY <1>1, <2>1
  <2>4. /\ phase' \in [Request -> {"idle", "waiting", "body", "backoff", "done"}]
        /\ reply' \in [Request -> Status \cup {NoReply}]
    BY <1>1
  <2> QED  BY <1>1, <2>2, <2>3, <2>4
<1>5. InOrder'  BY <1>1, <1>2, <1>3 DEF InOrder
<1>6. WireSound'  BY <1>1 DEF WireSound, NoReply
<1>7. AnswerSound'
  BY <1>1 DEF AnswerSound, Late, InOrder, NoReply, Success
<1>8. (ReturnedWasCarriedOut /\ RefusalIsFinal /\ ExhaustedAfterLast /\ ConfirmedStands)'
  BY <1>1 DEF ReturnedWasCarriedOut, RefusalIsFinal, ExhaustedAfterLast, ConfirmedStands, InOrder,
     Transient, Refusal
<1> QED  BY <1>4, <1>5, <1>6, <1>7, <1>8

\* The loop's answer to an error of the attempt that is under way.
LEMMA CatchEffect ==
    ASSUME HttpInv, NEW r \in Request, phase[r] \in {"waiting", "body"},
           NEW error \in {"network", "timeout", "payload"} \cup Transient \cup Refusal,
           Catch(r, error)
    PROVE  /\ \/ /\ phase' = [phase EXCEPT ![r] = "done"]
                 /\ outcome' = [outcome EXCEPT ![r] = error]
                 /\ error \in Refusal \cup {"payload"} \/ ~isRetryableMethod(method[r])
              \/ /\ phase' = [phase EXCEPT ![r] = "done"]
                 /\ outcome' = [outcome EXCEPT ![r] = "exhausted"]
                 /\ attempt[r] = MAX_HTTP_ATTEMPTS /\ method[r] # "POST"
                 /\ error \notin Refusal
              \/ /\ phase' = [phase EXCEPT ![r] = "backoff"]
                 /\ outcome' = outcome
                 /\ attempt[r] < MAX_HTTP_ATTEMPTS /\ method[r] # "POST"
                 /\ error \notin Refusal
  BY DEF Catch, Ends, isRetryableError, isRetryableMethod, RETRYABLE_METHODS, LastAttempt, HttpInv,
     HttpTypeOK, Transient, Refusal

\* The attempt ends in a timeout or without an answer.
LEMMA FailsStep ==
    ASSUME HttpInv, NEW r \in Request, AttemptFails(r)
    PROVE  HttpInv'
<1> USE DEF HttpInv, HttpTypeOK
<1>1. PICK error \in {"timeout", "network"} : Catch(r, error)
  BY DEF AttemptFails, GivesUp
<1>2. /\ phase[r] = "waiting" /\ givenUp' = givenUp \cup {<<r, attempt[r]>>}
      /\ UNCHANGED <<method, attempt, reply, wire, done, value, confirmed, refused>>
  BY DEF AttemptFails, GivesUp
<1>3. \/ /\ phase' = [phase EXCEPT ![r] = "done"] /\ outcome' = [outcome EXCEPT ![r] = error]
         /\ ~isRetryableMethod(method[r])
      \/ /\ phase' = [phase EXCEPT ![r] = "done"] /\ outcome' = [outcome EXCEPT ![r] = "exhausted"]
         /\ attempt[r] = MAX_HTTP_ATTEMPTS /\ method[r] # "POST"
      \/ /\ phase' = [phase EXCEPT ![r] = "backoff"] /\ outcome' = outcome
         /\ attempt[r] < MAX_HTTP_ATTEMPTS /\ method[r] # "POST"
  BY <1>1, <1>2, CatchEffect DEF Refusal
<1>4. attempt[r] \in 1..MAX_HTTP_ATTEMPTS  BY <1>2 DEF InOrder
<1>5. HttpTypeOK'
  <2>1. givenUp' \subseteq Request \X (1..MAX_HTTP_ATTEMPTS)  BY <1>2, <1>4
  <2>2. /\ phase' \in [Request -> {"idle", "waiting", "body", "backoff", "done"}]
        /\ outcome' \in [Request -> {"none", "ok", "network", "timeout", "payload", "exhausted"}
                                      \cup Transient \cup Refusal]
    BY <1>3
  <2> QED  BY <1>2, <2>1, <2>2
<1>6. InOrder'  BY <1>2, <1>3 DEF InOrder
<1>7. WireSound'  BY <1>2, <1>3 DEF WireSound
<1>8. AnswerSound'  BY <1>2, <1>3 DEF AnswerSound, Late
<1>9. outcome[r] = "none" /\ \A a \in refused : a[1] # r
  BY <1>2 DEF InOrder, RefusalIsFinal, Refusal
<1>10. ReturnedWasCarriedOut' /\ RefusalIsFinal'
  BY <1>2, <1>3, <1>9 DEF ReturnedWasCarriedOut, RefusalIsFinal
<1>11. ExhaustedAfterLast'
  BY <1>2, <1>3 DEF ExhaustedAfterLast, Transient
<1>12. ConfirmedStands'  BY <1>2 DEF ConfirmedStands
<1> QED  BY <1>5, <1>6, <1>7, <1>8, <1>10, <1>11, <1>12

\* The request returns.
LEMMA ReturnsStep ==
    ASSUME HttpInv, NEW r \in Request, Returns(r),
           phase[r] \in {"waiting", "body"}, reply[r] \in Success,
           UNCHANGED <<method, attempt, reply, wire, done, value, givenUp, refused>>
    PROVE  HttpInv'
<1> USE DEF HttpInv, HttpTypeOK
<1>1. /\ phase' = [phase EXCEPT ![r] = "done"] /\ outcome' = [outcome EXCEPT ![r] = "ok"]
      /\ confirmed' = IF method[r] = "GET" THEN confirmed ELSE r
  BY DEF Returns, Ends
<1>2. HttpTypeOK'  BY <1>1
<1>3. InOrder'  BY <1>1 DEF InOrder
<1>4. WireSound'  BY <1>1 DEF WireSound, NoReply, Success
<1>5. AnswerSound'  BY <1>1 DEF AnswerSound, Late
<1>6. ReturnedWasCarriedOut'  BY <1>1 DEF ReturnedWasCarriedOut, AnswerSound
<1>7. RefusalIsFinal' /\ ExhaustedAfterLast'
  <2>1. outcome[r] = "none" /\ \A a \in refused : a[1] # r
    BY DEF InOrder, RefusalIsFinal, Refusal
  <2>2. RefusalIsFinal'  BY <1>1, <2>1 DEF RefusalIsFinal
  <2>3. ExhaustedAfterLast'  BY <1>1 DEF ExhaustedAfterLast, Transient
  <2> QED  BY <2>2, <2>3
<1>8. ConfirmedStands'  BY <1>1 DEF ConfirmedStands, AnswerSound, Late
<1> QED  BY <1>2, <1>3, <1>4, <1>5, <1>6, <1>7, <1>8

\* The answer is an error, or its body is.
LEMMA ErrorStep ==
    ASSUME HttpInv, NEW r \in Request, phase[r] \in {"waiting", "body"}, reply[r] # NoReply,
           NEW error \in {"payload"} \cup Transient \cup Refusal, Catch(r, error),
           refused' = IF error \in Refusal THEN refused \cup {Current(r)} ELSE refused,
           UNCHANGED <<method, attempt, reply, wire, done, value, confirmed, givenUp>>
    PROVE  HttpInv'
<1> USE DEF HttpInv, HttpTypeOK
<1>1. \/ /\ phase' = [phase EXCEPT ![r] = "done"] /\ outcome' = [outcome EXCEPT ![r] = error]
         /\ error \in Refusal \cup {"payload"} \/ ~isRetryableMethod(method[r])
      \/ /\ phase' = [phase EXCEPT ![r] = "done"] /\ outcome' = [outcome EXCEPT ![r] = "exhausted"]
         /\ attempt[r] = MAX_HTTP_ATTEMPTS /\ method[r] # "POST" /\ error \notin Refusal
      \/ /\ phase' = [phase EXCEPT ![r] = "backoff"] /\ outcome' = outcome
         /\ attempt[r] < MAX_HTTP_ATTEMPTS /\ method[r] # "POST" /\ error \notin Refusal
  BY CatchEffect
<1>2. attempt[r] \in 1..MAX_HTTP_ATTEMPTS  BY DEF InOrder
<1>3. HttpTypeOK'
  <2>1. refused' \subseteq Request \X (1..MAX_HTTP_ATTEMPTS)  BY <1>2
  <2>2. /\ phase' \in [Request -> {"idle", "waiting", "body", "backoff", "done"}]
        /\ outcome' \in [Request -> {"none", "ok", "network", "timeout", "payload", "exhausted"}
                                      \cup Transient \cup Refusal]
    BY <1>1
  <2> QED  BY <2>1, <2>2
<1>4. InOrder'  BY <1>1 DEF InOrder
<1>5. WireSound'  BY <1>1 DEF WireSound
<1>6. AnswerSound'  BY <1>1 DEF AnswerSound, Late
<1>7. outcome[r] = "none" /\ \A a \in refused : a[1] # r
  BY DEF InOrder, RefusalIsFinal, Refusal
<1>8. ReturnedWasCarriedOut'
  BY <1>1 DEF ReturnedWasCarriedOut, Transient, Refusal
<1>9. RefusalIsFinal'
  <2>1. \A a \in refused : outcome'[a[1]] = outcome[a[1]]  BY <1>1, <1>7
  <2>2. error \in Refusal => outcome'[r] = error  BY <1>1
  <2> QED  BY <2>1, <2>2 DEF RefusalIsFinal
<1>10. ExhaustedAfterLast'
  BY <1>1 DEF ExhaustedAfterLast, Transient, Refusal
<1>11. ConfirmedStands'  BY DEF ConfirmedStands
<1> QED  BY <1>3, <1>4, <1>5, <1>6, <1>8, <1>9, <1>10, <1>11

\* The head of a good answer with a body arrives.
LEMMA BodyStep ==
    ASSUME HttpInv, NEW r \in Request, phase[r] = "waiting", reply[r] \in Success,
           phase' = [phase EXCEPT ![r] = "body"],
           UNCHANGED <<method, attempt, reply, outcome, wire, done, value, confirmed, givenUp, refused>>
    PROVE  HttpInv'
<1> USE DEF HttpInv, HttpTypeOK
<1>1. HttpTypeOK'  OBVIOUS
<1>2. InOrder'  BY DEF InOrder
<1>3. WireSound'  BY DEF WireSound, NoReply, Success
<1>4. AnswerSound'  BY DEF AnswerSound, Late
<1>5. (ReturnedWasCarriedOut /\ RefusalIsFinal /\ ExhaustedAfterLast /\ ConfirmedStands)'
  BY DEF ReturnedWasCarriedOut, RefusalIsFinal, ExhaustedAfterLast, ConfirmedStands
<1> QED  BY <1>1, <1>2, <1>3, <1>4, <1>5

LEMMA ReceiveStep ==
    ASSUME HttpInv, NEW r \in Request, Receive(r) \/ ReadBody(r)
    PROVE  HttpInv'
<1> USE DEF HttpInv
<1>0. reply[r] \in Status \cup {NoReply}  BY DEF HttpTypeOK
<1>1. CASE Receive(r)
  <2>1. phase[r] = "waiting" /\ reply[r] \in Status  BY <1>0, <1>1 DEF Receive
  <2>2. CASE ~Ok(reply[r])
    <3>1. reply[r] \in Transient \cup Refusal  BY <2>1, <2>2 DEF Ok, Status
    <3> QED  BY <1>1, <2>1, <2>2, <3>1, ErrorStep DEF Receive
  <2>3. CASE Ok(reply[r]) /\ reply[r] = "s204"
    BY <1>1, <2>1, <2>3, ReturnsStep DEF Receive, Ok
  <2>4. CASE Ok(reply[r]) /\ reply[r] # "s204"
    BY <1>1, <2>1, <2>4, BodyStep DEF Receive, Ok
  <2> QED  BY <2>2, <2>3, <2>4
<1>2. CASE ReadBody(r)
  <2>1. phase[r] = "body" /\ reply[r] \in Success /\ reply[r] # NoReply
    BY <1>2 DEF ReadBody, AnswerSound, Success, NoReply
  <2>2. CASE Returns(r)  BY <1>2, <2>1, <2>2, ReturnsStep DEF ReadBody
  <2>3. CASE Catch(r, "payload") /\ UNCHANGED confirmed
    <3>1. "payload" \notin Refusal  BY DEF Refusal
    <3> QED  BY <1>2, <2>1, <2>3, <3>1, ErrorStep DEF ReadBody
  <2> QED  BY <1>2, <2>2, <2>3 DEF ReadBody
<1> QED  BY <1>1, <1>2

\* The server carries an attempt out, or refuses it; late or in time.
LEMMA ServeStep ==
    ASSUME HttpInv, NEW a \in wire, NEW status \in Status, Serve(a, status)
    PROVE  HttpInv'
<1> USE DEF HttpInv, HttpTypeOK
<1> DEFINE r == a[1]
<1>1. /\ r \in Request /\ a = <<a[1], a[2]>>
      /\ wire' = wire \ {a}
      /\ reply' = IF phase[r] = "waiting" /\ a = Current(r)
                  THEN [reply EXCEPT ![r] = status] ELSE reply
      /\ \/ method[r] # "GET" /\ done' = done \cup {a} /\ value' = r
         \/ (method[r] = "GET" \/ status \notin Success) /\ UNCHANGED <<done, value>>
      /\ UNCHANGED <<method, attempt, phase, outcome, confirmed, givenUp, refused>>
  BY DEF Serve
<1>2. HttpTypeOK'
  <2>1. reply' \in [Request -> Status \cup {NoReply}]  BY <1>1
  <2>2. wire' \subseteq Request \X (1..MAX_HTTP_ATTEMPTS)  BY <1>1
  <2>3. done' \subseteq Request \X (1..MAX_HTTP_ATTEMPTS)  BY <1>1
  <2>4. value' \in 0..MaxRequests  BY <1>1 DEF Request
  <2> QED  BY <1>1, <2>1, <2>2, <2>3, <2>4
<1>3. InOrder'  BY <1>1 DEF InOrder
<1>4. WireSound'  BY <1>1 DEF WireSound
<1>5. a \in givenUp \/ (a = Current(r) /\ phase[r] = "waiting" /\ reply[r] = NoReply)
  BY DEF WireSound
<1>6. ASSUME NEW v, Late(v) PROVE \E b \in givenUp' : b[1] = v /\ b \in done'
  BY <1>1, <1>6 DEF Late
<1>7. AnswerSound'
  <2> SUFFICES ASSUME NEW s \in Request, phase[s] \in {"waiting", "body"}, reply'[s] \in Success,
                      method[s] # "GET"
               PROVE  /\ Current(s) \in done'
                      /\ value' < s => \E b \in givenUp' : b[1] = value' /\ b \in done'
    <3>1. \A s \in Request : phase[s] = "body" => reply'[s] \in Success
      BY <1>1 DEF AnswerSound
    <3> QED  BY <1>1, <3>1 DEF AnswerSound, Late
  <2>1. CASE s = r /\ a = Current(r) /\ phase[r] = "waiting"
    <3>1. status \in Success  BY <1>1, <2>1
    <3>2. done' = done \cup {a} /\ value' = r  BY <1>1, <2>1, <3>1
    <3> QED  BY <2>1, <3>2
  <2>2. CASE ~(s = r /\ a = Current(r) /\ phase[r] = "waiting")
    <3>1. reply'[s] = reply[s]  BY <1>1, <2>2
    <3>2. Current(s) \in done /\ (value < s => Late(value))  BY <3>1 DEF AnswerSound
    <3>3. a \in givenUp
      <4>1. ~(a = Current(r) /\ phase[r] = "waiting" /\ reply[r] = NoReply)
        <5> SUFFICES ASSUME a = Current(r), phase[r] = "waiting" PROVE FALSE
          OBVIOUS
        <5>1. s < r \/ r < s  BY <1>1, <2>2
        <5>2. s < r => phase[s] = "done"  BY <1>1 DEF InOrder
        <5>3. r < s => phase[r] = "done"  BY <1>1 DEF InOrder
        <5> QED  BY <5>1, <5>2, <5>3
      <4> QED  BY <1>5, <4>1
    <3>4. CASE done' = done \cup {a} /\ value' = r
      BY <1>1, <3>2, <3>3, <3>4
    <3>5. CASE UNCHANGED <<done, value>>
      BY <1>6, <3>2, <3>5
    <3> QED  BY <1>1, <3>4, <3>5
  <2> QED  BY <2>1, <2>2
<1>8. ReturnedWasCarriedOut'  BY <1>1 DEF ReturnedWasCarriedOut
<1>9. RefusalIsFinal' /\ ExhaustedAfterLast'
  BY <1>1 DEF RefusalIsFinal, ExhaustedAfterLast
<1>10. ConfirmedStands'
  <2> SUFFICES ASSUME value' < confirmed
               PROVE  \E b \in givenUp' : b[1] = value' /\ b \in done'
    BY <1>1 DEF ConfirmedStands
  <2>1. CASE UNCHANGED <<done, value>>
    <3>1. Late(value)  BY <2>1 DEF ConfirmedStands, Late
    <3> QED  BY <1>6, <2>1, <3>1
  <2>2. CASE done' = done \cup {a} /\ value' = r
    <3>1. confirmed \in Request /\ phase[confirmed] = "done" /\ r < confirmed
      BY <1>1, <2>2 DEF AnswerSound
    <3>2. phase[r] = "done"  BY <1>1, <3>1 DEF InOrder
    <3>3. a \in givenUp  BY <1>5, <3>2
    <3> QED  BY <1>1, <2>2, <3>3
  <2> QED  BY <1>1, <2>1, <2>2
<1> QED  BY <1>2, <1>3, <1>4, <1>7, <1>8, <1>9, <1>10

LEMMA LoseStep ==
    ASSUME HttpInv, NEW a \in wire, Lose(a)
    PROVE  HttpInv'
  BY DEF Lose, HttpInv, HttpTypeOK, InOrder, WireSound, AnswerSound, Late, ReturnedWasCarriedOut,
     RefusalIsFinal, ExhaustedAfterLast, ConfirmedStands

LEMMA HttpNextInv == HttpInv /\ [HttpNext]_httpVars => HttpInv'
<1> SUFFICES ASSUME HttpInv, [HttpNext]_httpVars PROVE HttpInv'
  OBVIOUS
<1>1. CASE \E r \in Request : request(r) \/ Retry(r)  BY <1>1, SendsStep
<1>2. CASE \E r \in Request : AttemptFails(r)  BY <1>2, FailsStep
<1>3. CASE \E r \in Request : Receive(r) \/ ReadBody(r)  BY <1>3, ReceiveStep
<1>4. CASE \E a \in wire : Lose(a)  BY <1>4, LoseStep
<1>5. CASE \E a \in wire : \E status \in Status : Serve(a, status)  BY <1>5, ServeStep
<1>6. CASE UNCHANGED httpVars
  BY <1>6 DEF httpVars, HttpInv, HttpTypeOK, InOrder, WireSound, AnswerSound, Late,
     ReturnedWasCarriedOut, RefusalIsFinal, ExhaustedAfterLast, ConfirmedStands
<1> QED  BY <1>1, <1>2, <1>3, <1>4, <1>5, <1>6 DEF HttpNext

\* Of a POST one attempt is made, so one at most was carried out.
LEMMA OneAttempt == HttpInv => PostCarriedOutOnce
<1> SUFFICES ASSUME HttpInv, NEW r \in Request, method[r] = "POST"
             PROVE  Cardinality({a \in done : a[1] = r}) <= 1
  BY DEF PostCarriedOutOnce
<1> DEFINE mine == {a \in done : a[1] = r}
<1>1. mine \subseteq {<<r, 1>>}
  <2> SUFFICES ASSUME NEW a \in mine PROVE a = <<r, 1>>
    OBVIOUS
  <2>1. a = <<a[1], a[2]>> /\ a[1] = r /\ a[2] \in 1..MAX_HTTP_ATTEMPTS
    BY DEF HttpInv, HttpTypeOK
  <2>2. a[2] <= attempt[r] /\ attempt[r] <= 1  BY <2>1 DEF HttpInv, WireSound, InOrder
  <2>3. a[2] = 1  BY <2>1, <2>2 DEF HttpInv, HttpTypeOK
  <2> QED  BY <2>1, <2>3
<1>2. IsFiniteSet({<<r, 1>>}) /\ Cardinality({<<r, 1>>}) = 1  BY FS_Singleton
<1>3. Cardinality(mine) <= 1  BY <1>1, <1>2, FS_Subset
<1> QED  BY <1>3

-----------------------------------------------------------------------------

THEOREM HttpSafe == HttpSpec => []HttpInv
  BY HttpInitInv, HttpNextInv, PTL DEF HttpSpec

\* A POST is carried out at most once, for any number of attempts (retry.ts:13,
\* http-client.ts:98).
THEOREM PostCarriedOutOnceHolds == HttpSpec => []PostCarriedOutOnce
  BY HttpSafe, OneAttempt, PTL

\* What returned has been carried out (http-client.ts:165-186).
THEOREM ReturnedWasCarriedOutHolds == HttpSpec => []ReturnedWasCarriedOut
<1>1. HttpInv => ReturnedWasCarriedOut  BY DEF HttpInv
<1> QED  BY <1>1, HttpSafe, PTL

\* An answer that is no transient failure is the last (http-client.ts:98-100).
THEOREM RefusalIsFinalHolds == HttpSpec => []RefusalIsFinal
<1>1. HttpInv => RefusalIsFinal  BY DEF HttpInv
<1> QED  BY <1>1, HttpSafe, PTL

\* Nobody gives up early (http-client.ts:91-125).
THEOREM ExhaustedAfterLastHolds == HttpSpec => []ExhaustedAfterLast
<1>1. HttpInv => ExhaustedAfterLast  BY DEF HttpInv
<1> QED  BY <1>1, HttpSafe, PTL

\* What a request returned is undone only by an attempt the client had given up on, for
\* any number of requests and attempts and any delays (http-client.ts:136-163).
THEOREM ConfirmedStandsHolds == HttpSpec => []ConfirmedStands
<1>1. HttpInv => ConfirmedStands  BY DEF HttpInv
<1> QED  BY <1>1, HttpSafe, PTL

-----------------------------------------------------------------------------
(* All of them *)

\* GatewaysTypeOK: every variable of every part keeps its type, as parts rest or run
\* (session-registry.ts, routes.ts, http-client.ts).
THEOREM GatewaysTypeSafe == GatewaySpec => []GatewaysTypeOK
<1> DEFINE AllInv == RegistryInv /\ ApiShape /\ Answered /\ HttpInv
<1>1. GatewayInit => AllInv
  <2> SUFFICES ASSUME GatewayInit PROVE AllInv
    OBVIOUS
  <2>1. RegistryInv /\ HttpInv
    BY RegistryInitInv, HttpInitInv DEF GatewayInit
  <2>2. ApiShape /\ Answered
    BY DEF GatewayInit, ApiRests, ApiInit, ApiShape, Answered
  <2> QED BY <2>1, <2>2
<1>2. AllInv /\ [GatewayNext]_gatewayVars => AllInv'
  <2> SUFFICES ASSUME AllInv, [GatewayNext]_gatewayVars PROVE AllInv'
    OBVIOUS
  <2>1. [RegistryNext]_registryVars /\ [ApiNext]_apiVars /\ [HttpNext]_httpVars
    BY DEF GatewayNext, gatewayVars
  <2> QED BY <2>1, RegistryNextInv, ApiShapeStep, HttpNextInv
<1>3. AllInv => GatewaysTypeOK
  BY ApiTypes DEF GatewaysTypeOK, RegistryInv, RegistryTypes, RegistryTypeOK, HttpInv
<1> HIDE DEF AllInv
<1> QED BY <1>1, <1>2, <1>3, PTL DEF GatewaySpec

=============================================================================
