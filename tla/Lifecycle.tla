----------------------------- MODULE Lifecycle -----------------------------
(***************************************************************************)
(* The approval-aware draft lifecycle of src/src/core/policies/lifecycle.ts*)
(* : the transition table and the pure predicates every other component    *)
(* asks.  The module has no state.  A function of the source that throws   *)
(* is the predicate that holds exactly when it returns.                    *)
(***************************************************************************)

DraftState ==
    {"RESEARCHING", "IDEA_READY", "DRAFTING", "DRAFT_READY",
     "AWAITING_APPROVAL", "APPROVED", "PUBLISHING", "PUBLISHED",
     "REJECTED", "DISCARDED", "FAILED", "NO_PUBLISH"}

TransitionActor == {"AUTHOR", "AGENT", "SYSTEM", "SCHEDULER"}

\* The class of actors the table names most often.
AuthorOrAgent == {"AUTHOR", "AGENT"}

\* The rows of the table: `tos' are the targets that share one list of actors.
Edges(from, tos, actors, publishes) ==
    [from : {from}, to : tos, actors : {actors}, publishes : {publishes}]

LIFECYCLE_TRANSITIONS ==
    LET anyPlanner == AuthorOrAgent \cup {"SCHEDULER"}
        publisher  == AuthorOrAgent \cup {"SYSTEM"}
    IN  UNION {
          Edges("RESEARCHING", {"IDEA_READY", "NO_PUBLISH"}, anyPlanner, FALSE),
          Edges("IDEA_READY", {"DRAFTING", "NO_PUBLISH"}, anyPlanner, FALSE),
          Edges("DRAFTING", {"DRAFT_READY", "DISCARDED"}, AuthorOrAgent, FALSE),
          Edges("DRAFT_READY", {"AWAITING_APPROVAL", "DISCARDED", "NO_PUBLISH"},
                AuthorOrAgent, FALSE),
          Edges("AWAITING_APPROVAL", {"APPROVED", "REJECTED"}, {"AUTHOR"}, FALSE),
          Edges("AWAITING_APPROVAL", {"DRAFTING", "DISCARDED", "NO_PUBLISH"},
                AuthorOrAgent, FALSE),
          Edges("REJECTED", {"DRAFTING", "DISCARDED"}, AuthorOrAgent, FALSE),
          Edges("APPROVED", {"DRAFTING", "DISCARDED"}, AuthorOrAgent, FALSE),
          Edges("APPROVED", {"PUBLISHING"}, {"AUTHOR"}, TRUE),
          Edges("APPROVED", {"NO_PUBLISH"}, {"AUTHOR"}, FALSE),
          Edges("PUBLISHING", {"PUBLISHED"}, publisher, TRUE),
          Edges("PUBLISHING", {"FAILED"}, publisher, FALSE),
          Edges("FAILED", {"PUBLISHING"}, AuthorOrAgent, TRUE),
          Edges("FAILED", {"DRAFTING", "DISCARDED"}, AuthorOrAgent, FALSE)}

TERMINAL_STATES == {"PUBLISHED", "DISCARDED", "NO_PUBLISH"}

isTerminalState(state) == state \in TERMINAL_STATES

\* The table rows for one pair of states; at most one, by UniqueEdge below.
findTransition(from, to) ==
    {e \in LIFECYCLE_TRANSITIONS : e.from = from /\ e.to = to}

\* Faulty variant: an edge is open to every actor.
canTransitionAnyone(from, to, actor) == findTransition(from, to) # {}

canTransition(from, to, actor) ==
    \E e \in findTransition(from, to) : actor \in e.actors

\* assertTransition returns, and does not throw, exactly when this holds.
assertTransition(from, to, actor) == canTransition(from, to, actor)

\* Faulty variant: the boundary asks for an edge only.
assertEdgeOnly(from, to, actor) == findTransition(from, to) # {}

\* The publish boundary: a SCHEDULER is refused even on an edge that lists it.
assertPublishAuthority(from, to, actor) ==
    /\ assertTransition(from, to, actor)
    /\ ~ \E e \in findTransition(from, to) : e.publishes /\ actor = "SCHEDULER"

allowedTransitions(from, actor) ==
    {e.to : e \in {f \in LIFECYCLE_TRANSITIONS :
                     f.from = from /\ actor \in f.actors}}

=============================================================================
