--------------------------- MODULE SessionProperties ---------------------------
(***************************************************************************)
(* What the MCP session registry guarantees however expiry, DELETE, the    *)
(* transport's own close and shutdown overlap.                             *)
(***************************************************************************)
EXTENDS SessionRegistry

\* The one type invariant.
RegistryTypeOK ==
    /\ process \in {"up", "stopping", "exited", "crashed"}
    /\ signals \in 0..2
    /\ entries \subseteq Session /\ late \subseteq Session
    /\ idle \in [Session -> 0..SESSION_TTL_MS]
    /\ transport \in [Session -> {"none", "connecting", "open", "closed"}]
    /\ closing \in [Session -> {"none", "transport", "resource", "done", "failed"}]
    /\ origin \in [Session -> {"none", "delete", "sweep", "onclose", "dispose", "disposeAgain"}]
    /\ releases \in [Session -> Nat]

\* A session that requests can reach has an open transport and no teardown under
\* way (session-registry.ts:36-38, "has() never reports a session that is
\* mid-teardown"), although the transport may close at any moment by itself.
RegisteredIsOpen ==
    \A s \in entries : transport[s] = "open" /\ closing[s] = "none"

Registered(s) == transport[s] \in {"open", "closed"}

\* Whoever comes first and whoever joins later, a session's server is released once
\* and never twice; a session that left the map and is not being torn down has been
\* released, unless closing it failed (session-registry.ts:107-136).
ReleasedExactlyOnce ==
    \A s \in Session :
        /\ releases[s] <= 1
        /\ (Registered(s) /\ s \notin entries /\ closing[s] \in {"none", "done"})
              => releases[s] = 1

\* After one signal the process exits with a session unreleased only if it came too late
\* for dispose, was already being closed by somebody else, or a close failed
\* (index.ts:180-187).
ExitLosesNone ==
    (process = "exited" /\ signals = 1) =>
        \A s \in Session :
            (Registered(s) /\ releases[s] = 0) =>
                \/ s \in late
                \/ origin[s] \in {"delete", "sweep"}
                \/ \E f \in Session : closing[f] = "failed"

\* A close that fails on the way of a DELETE ends neither the process nor another
\* session: only one started by the timer or by the transport, whose promise nobody
\* holds, can do that (session-registry.ts:51, 71).
FailureIsContained ==
    process = "crashed" =>
        \E s \in Session : closing[s] = "failed" /\ origin[s] \in {"sweep", "onclose"}

\* A session nobody uses any more does not stay in the map for ever, unless the process
\* crashes (session-registry.ts:34, an idle TTL and a self-cleaning timer).
IdleSessionsLeave ==
    \A s \in Session :
        \/ []<><<getAndTouch(s)>>_registryVars
        \/ <>[](s \notin entries \/ ~ProcessRuns)

\* Asked to stop, the process does not wait for ever (index.ts:178-179).
ShutdownExits == process = "stopping" ~> ~ProcessRuns

=============================================================================
