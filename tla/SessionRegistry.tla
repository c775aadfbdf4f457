---------------------------- MODULE SessionRegistry ----------------------------
(***************************************************************************)
(* The MCP sessions of one process: src/src/mcp/session-registry.ts with   *)
(* the requests of src/src/index.ts that open, use and close them.         *)
(*                                                                         *)
(* A session is a random id, so none is ever registered twice.  closing is *)
(* the map of teardown promises: it says which await a teardown is at.     *)
(* Idle time stands for now() - lastActivityMs and is counted up to the    *)
(* TTL only.                                                               *)
(***************************************************************************)
EXTENDS Integers

CONSTANTS
    Session,
    SESSION_TTL_MS      \* in ticks of the clock

ASSUME TtlAssumption == SESSION_TTL_MS \in Nat \ {0}

VARIABLES
    process,     \* the process: up, stopping, exited or crashed
    signals,     \* how often it was asked to stop
    entries,     \* the ids in the map of active sessions
    idle,        \* ticks since lastActivityMs
    transport,   \* the session's transport
    closing,     \* the await its teardown is at
    origin,      \* who started the teardown
    releases,    \* calls of its closeResource
    late         \* sessions registered after dispose looked at the map

registryVars == <<process, signals, entries, idle, transport, closing, origin, releases, late>>

-----------------------------------------------------------------------------

ProcessRuns == process \in {"up", "stopping"}

\* Mutant: a finished teardown stays in the map `closing`.
InTeardownForever(s) == closing[s] # "none"

\* The map `closing` holds a promise for the session.
InTeardown(s) == closing[s] \in {"transport", "resource"}

RegistryInit ==
    /\ process = "up"
    /\ signals = 0
    /\ entries = {}
    /\ idle = [s \in Session |-> 0]
    /\ transport = [s \in Session |-> "none"]
    /\ closing = [s \in Session |-> "none"]
    /\ origin = [s \in Session |-> "none"]
    /\ releases = [s \in Session |-> 0]
    /\ late = {}

\* POST /mcp without a session id: a transport, a server, and the await of
\* their connection.
Initialize(s) ==
    /\ process = "up"
    /\ transport[s] = "none"
    /\ transport' = [transport EXCEPT ![s] = "connecting"]
    /\ UNCHANGED <<process, signals, entries, idle, closing, origin, releases, late>>

\* The session is initialized: onsessioninitialized registers it.  A handshake
\* that was under way goes on after a signal to stop.
register(s) ==
    /\ ProcessRuns
    /\ transport[s] = "connecting"
    /\ transport' = [transport EXCEPT ![s] = "open"]
    /\ entries' = entries \cup {s}
    /\ idle' = [idle EXCEPT ![s] = 0]
    /\ late' = IF process = "stopping" THEN late \cup {s} ELSE late
    /\ UNCHANGED <<process, signals, closing, origin, releases>>

\* Mutant: the activity time is put forward.
TouchAhead(s) ==
    /\ process = "up"
    /\ s \in entries
    /\ idle' = [idle EXCEPT ![s] = 0 - 1]
    /\ UNCHANGED <<process, signals, entries, transport, closing, origin, releases, late>>

\* POST /mcp with a session id that the map knows.
getAndTouch(s) ==
    /\ process = "up"
    /\ s \in entries
    /\ idle' = [idle EXCEPT ![s] = 0]
    /\ UNCHANGED <<process, signals, entries, transport, closing, origin, releases, late>>

-----------------------------------------------------------------------------
(* Teardown *)

\* Mutant: the entry stays in the map.
NotEvicted(S) == entries

Evicted(S) == entries \ S

\* A teardown that begins at closeResource has called it.
Released(S) == [s \in Session |-> IF s \in S THEN releases[s] + 1 ELSE releases[s]]

\* closeSession for every session of S at once: nothing happens for one that is
\* being torn down or that the map does not have; the others leave the map and
\* run up to their first await.
closeSession(S, first, who) ==
    LET begun == {s \in S : ~InTeardown(s) /\ s \in entries}
    IN  /\ entries' = Evicted(begun)
        /\ closing' = [s \in Session |-> IF s \in begun THEN first ELSE closing[s]]
        /\ origin' = [s \in Session |-> IF s \in begun THEN who ELSE origin[s]]
        /\ releases' = IF first = "resource" THEN Released(begun) ELSE releases

\* DELETE /mcp of a session the map knows.
Delete(s) ==
    /\ process = "up"
    /\ s \in entries
    /\ closeSession({s}, "transport", "delete")
    /\ UNCHANGED <<process, signals, idle, transport, late>>

\* Mutant: the comparison is turned round.
NotIdle == {s \in entries : idle[s] < SESSION_TTL_MS}

IdleTooLong == {s \in entries : idle[s] >= SESSION_TTL_MS}

\* The timer fires.
cleanupExpired ==
    /\ process = "up"
    /\ IdleTooLong # {}
    /\ closeSession(IdleTooLong, "transport", "sweep")
    /\ UNCHANGED <<process, signals, idle, transport, late>>

\* The onclose hook that register put on the transport.
Hook(s) == closeSession({s}, "resource", "onclose")

\* A transport closes, by itself or inside its close().
onclose(s) ==
    /\ ProcessRuns
    /\ transport[s] = "open"
    /\ transport' = [transport EXCEPT ![s] = "closed"]
    /\ Hook(s)
    /\ UNCHANGED <<process, signals, idle, late>>

\* close() of the transport returns, having fired onclose: closeResource is called.
TransportClosed(s) ==
    /\ ProcessRuns
    /\ closing[s] = "transport"
    /\ transport[s] = "closed"
    /\ closing' = [closing EXCEPT ![s] = "resource"]
    /\ releases' = Released({s})
    /\ UNCHANGED <<process, signals, entries, idle, transport, origin, late>>

\* closeResource returns: the promise is fulfilled and forgotten.
ResourceClosed(s) ==
    /\ ProcessRuns
    /\ closing[s] = "resource"
    /\ closing' = [closing EXCEPT ![s] = "done"]
    /\ UNCHANGED <<process, signals, entries, idle, transport, origin, releases, late>>

\* What becomes of the process when a teardown promise is rejected: Express
\* answers the DELETE with an error; dispose stops waiting and the process exits;
\* the timer and the hook leave the rejection unhandled, which ends the process.
AfterRejection(s) ==
    CASE origin[s] = "delete"  -> process
      [] origin[s] \in {"dispose", "disposeAgain"} -> "exited"
      [] OTHER                 -> "crashed"

\* close() of the transport, or closeResource, fails.
CloseFails(s) ==
    /\ ProcessRuns
    /\ InTeardown(s)
    /\ closing' = [closing EXCEPT ![s] = "failed"]
    /\ process' = AfterRejection(s)
    /\ UNCHANGED <<signals, entries, idle, transport, origin, releases, late>>

-----------------------------------------------------------------------------
(* Shutdown *)

\* A signal is handled by a call of dispose; SIGTERM and SIGINT may each come once.
Disposer == <<"dispose", "disposeAgain">>

\* SIGTERM or SIGINT: the server accepts nothing new, dispose stops the timer and
\* closes what is in the map.
shutdown ==
    /\ ProcessRuns
    /\ signals < 2
    /\ signals' = signals + 1
    /\ process' = "stopping"
    /\ closeSession(entries, "transport", Disposer[signals + 1])
    /\ UNCHANGED <<idle, transport, late>>

\* Mutant: dispose does not wait.
NotAwaited(n) == {}

\* Everything one call of dispose waits for.
Awaited(n) == {s \in Session : origin[s] = Disposer[n]}

\* All of it has settled: the process exits.
ProcessExits ==
    /\ process = "stopping"
    /\ \E n \in 1..signals : \A s \in Awaited(n) : ~InTeardown(s)
    /\ process' = "exited"
    /\ UNCHANGED <<signals, entries, idle, transport, closing, origin, releases, late>>

\* Time passes; idle times beyond the TTL are all the same.
IdleTick ==
    /\ process = "up"
    /\ \E s \in entries : idle[s] < SESSION_TTL_MS
    /\ idle' = [s \in Session |->
                  IF s \in entries /\ idle[s] < SESSION_TTL_MS
                  THEN idle[s] + 1 ELSE idle[s]]
    /\ UNCHANGED <<process, signals, entries, transport, closing, origin, releases, late>>

RegistryNext ==
    \/ \E s \in Session :
         \/ Initialize(s) \/ register(s) \/ getAndTouch(s) \/ Delete(s)
         \/ onclose(s) \/ TransportClosed(s) \/ ResourceClosed(s) \/ CloseFails(s)
    \/ cleanupExpired \/ shutdown \/ ProcessExits \/ IdleTick

RegistrySpec == RegistryInit /\ [][RegistryNext]_registryVars

\* The closing of transports and servers is local work that ends, the timer fires
\* and time passes.  No request and no signal is assumed to come.
RegistryFairness ==
    /\ WF_registryVars(IdleTick) /\ WF_registryVars(cleanupExpired) /\ WF_registryVars(ProcessExits)
    /\ \A s \in Session :
         /\ WF_registryVars(closing[s] = "transport" /\ onclose(s))
         /\ WF_registryVars(TransportClosed(s)) /\ WF_registryVars(ResourceClosed(s))

RegistryLiveSpec == RegistrySpec /\ RegistryFairness

=============================================================================
