-------------------------- MODULE DashboardProperties --------------------------
(***************************************************************************)
(* What dashboard sessions guarantee with a cache that is filled and       *)
(* emptied beside the table.                                               *)
(***************************************************************************)
EXTENDS DashboardSessions

\* The one type invariant.
DashTypeOK ==
    /\ clock \in Nat /\ errors \in Nat
    /\ rows \in [Token -> SessionRow \cup {NoSession}]
    /\ cache \in [Token -> Nat]
    /\ issued \subseteq Token /\ revoked \subseteq Token /\ raced \subseteq Token
    /\ lag \in [Token -> Nat]
    /\ step \in [Caller -> {"idle", "insert", "set", "ttl", "find", "fill", "del"}]
    /\ local \in [Caller -> Remembered]
    /\ answer \in [Caller -> Answers]

Accepted(c) == answer[c] = "author"

\* Once revoke has returned, no request that begins later is let in, as the test "rejects
\* a revoked session for every instance" expects (auth.boundaries.test.ts:101), with one
\* exception: a validation read the row before it was revoked and stores it in Redis after
\* revoke has emptied the cache (session-store.ts:71-88).
RevokedComesBackOnlyByRace ==
    \A c \in Caller : (Accepted(c) /\ local[c].after) => local[c].token \in raced

\* However it got in, revoked or not, a session dies at its expiry: a request is let in
\* later only by the rounding to whole seconds and by the time a SET was under way
\* (session-store.ts:41-51, 82-88).
SessionDiesAtExpiry ==
    \A c \in Caller : Accepted(c) =>
        LET k == local[c].token
        IN  local[c].read < rows[k].expiresAt + SECOND + lag[k]

\* A session is turned away only if its row says so: never because the cache lost its
\* key, or because another call's write was under way or failed (session-store.ts:71-80).
RefusedForCause ==
    \A c \in Caller : answer[c] = "unauthorized" =>
        LET row == rows[local[c].token]
        IN  row.isRevoked \/ row.expiresAt <= local[c].read

=============================================================================
