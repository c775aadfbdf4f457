--------------------------- MODULE DashboardSessions ---------------------------
(***************************************************************************)
(* Dashboard sessions: a row in Postgres behind a key in Redis, by         *)
(* src/src/adapters/auth/session-store.ts, and what the requireAuthor      *)
(* middleware of src/src/rest/auth.ts makes of them.                       *)
(*                                                                         *)
(* A Caller is a slot for one call in any process; every database or Redis *)
(* call is an action.  The clock ticks in fractions of a second, Redis     *)
(* counts whole seconds.  A Redis key is the time at which it expires.     *)
(***************************************************************************)
EXTENDS Integers, FiniteSets

CONSTANTS
    Caller, Token,
    TtlSeconds,         \* the lifetimes sessions are created with
    SECOND,             \* ticks in a second
    NoSession,
    MaxClock,           \* bound: the clock stops here
    MaxErrors           \* bound: database and Redis calls that fail

ASSUME SecondAssumption ==
    /\ Token # {} /\ SECOND \in Nat \ {0} /\ TtlSeconds \subseteq Nat \ {0}
    /\ NoSession \notin [expiresAt : Nat, isRevoked : BOOLEAN]
    /\ MaxClock \in Nat /\ MaxErrors \in Nat

VARIABLES
    clock,
    errors,      \* failed calls so far
    rows,        \* the dashboard_sessions table, by token hash
    cache,       \* Redis: when the token's key expires, 0 if it was never set
    issued,      \* tokens that were handed to their author
    step,        \* each call's next database or Redis call
    local,       \* what it remembers
    answer,      \* how the slot's last call ended
    revoked,     \* history: tokens whose revocation has returned
    raced,       \* history: tokens revoked while a validation was about to cache them
    lag          \* history: the longest a SET was behind the clock reading it is from

dashVars == <<clock, errors, rows, cache, issued, step, local, answer, revoked, raced, lag>>

-----------------------------------------------------------------------------

SessionRow == [expiresAt : Nat, isRevoked : BOOLEAN]

\* token: its hash; read: a clock reading; seconds: the EX of a SET;
\* after: had a revocation of the token returned when the call began?
Remembered == [token : Token, read : Nat, seconds : Nat, after : BOOLEAN]

Answers == {"none", "created", "author", "unauthorized", "revoked", "error"}

DashInit ==
    /\ clock = 0 /\ errors = 0
    /\ rows = [k \in Token |-> NoSession]
    /\ cache = [k \in Token |-> 0]
    /\ issued = {} /\ revoked = {} /\ raced = {}
    /\ lag = [k \in Token |-> 0]
    /\ step = [c \in Caller |-> "idle"]
    /\ answer = [c \in Caller |-> "none"]
    /\ local = [c \in Caller |-> [token |-> CHOOSE k \in Token : TRUE,
                                  read |-> 0, seconds |-> 0, after |-> FALSE]]

Cached(k) == clock < cache[k]

\* SET with EX
CacheSet(k, seconds) == [cache EXCEPT ![k] = clock + seconds * SECOND]

Lagged(c) ==
    LET k == local[c].token
    IN  [lag EXCEPT ![k] = IF clock - local[c].read > @ THEN clock - local[c].read ELSE @]

Ended(c, a) == /\ step' = [step EXCEPT ![c] = "idle"]
               /\ answer' = [answer EXCEPT ![c] = a]

Goes(c, where) == /\ step' = [step EXCEPT ![c] = where]
                  /\ answer' = [answer EXCEPT ![c] = "none"]

-----------------------------------------------------------------------------
(* create *)

\* A fresh random token; expiresAt is worked out from the clock.
Create(c, k, ttl) ==
    /\ step[c] = "idle"
    /\ rows[k] = NoSession
    /\ \A o \in Caller : step[o] = "insert" => local[o].token # k
    /\ local' = [local EXCEPT ![c] =
                   [token |-> k, read |-> clock, seconds |-> ttl, after |-> FALSE]]
    /\ Goes(c, "insert")
    /\ UNCHANGED <<clock, errors, rows, cache, issued, revoked, raced, lag>>

CreateRow(c) ==
    /\ step[c] = "insert"
    /\ rows' = [rows EXCEPT ![local[c].token] =
                  [expiresAt |-> local[c].read + local[c].seconds * SECOND, isRevoked |-> FALSE]]
    /\ Goes(c, "set")
    /\ UNCHANGED <<clock, errors, cache, issued, local, revoked, raced, lag>>

CreateSet(c) ==
    /\ step[c] = "set"
    /\ cache' = CacheSet(local[c].token, local[c].seconds)
    /\ issued' = issued \cup {local[c].token}
    /\ lag' = Lagged(c)
    /\ Ended(c, "created")
    /\ UNCHANGED <<clock, errors, rows, local, revoked, raced>>

-----------------------------------------------------------------------------
(* validate, and the middleware that calls it *)

\* GET: a hit is believed.
Validate(c, k) ==
    /\ step[c] = "idle"
    /\ k \in issued
    /\ local' = [local EXCEPT ![c] =
                   [token |-> k, read |-> clock, seconds |-> 0, after |-> k \in revoked]]
    /\ Goes(c, IF Cached(k) THEN "ttl" ELSE "find")
    /\ UNCHANGED <<clock, errors, rows, cache, issued, revoked, raced, lag>>

\* TTL: only the reported expiry depends on it.
ValidateTtl(c) ==
    /\ step[c] = "ttl"
    /\ Ended(c, "author")
    /\ UNCHANGED <<clock, errors, rows, cache, issued, local, revoked, raced, lag>>

\* Mutant: revokedAt is not looked at.
RefusesExpired(row) == row = NoSession \/ row.expiresAt <= clock

Refuses(row) == row = NoSession \/ row.isRevoked \/ row.expiresAt <= clock

\* Mutant: the whole of expiresAt is taken for the remaining time.
RemainingWhole(row) == (row.expiresAt + SECOND - 1) \div SECOND

\* Math.ceil of the remaining milliseconds in seconds
RemainingSeconds(row) == (row.expiresAt - clock + SECOND - 1) \div SECOND

\* findUnique
ValidateFind(c) ==
    /\ step[c] = "find"
    /\ LET row == rows[local[c].token]
       IN  IF Refuses(row)
           THEN /\ Ended(c, "unauthorized")
                /\ local' = [local EXCEPT ![c].read = clock]
           ELSE /\ Goes(c, "fill")
                /\ local' = [local EXCEPT ![c].read = clock, ![c].seconds = RemainingSeconds(row)]
    /\ UNCHANGED <<clock, errors, rows, cache, issued, revoked, raced, lag>>

\* SET of what was read, whatever has happened to the row since.
ValidateFill(c) ==
    /\ step[c] = "fill"
    /\ cache' = CacheSet(local[c].token, local[c].seconds)
    /\ lag' = Lagged(c)
    /\ Ended(c, "author")
    /\ UNCHANGED <<clock, errors, rows, issued, local, revoked, raced>>

-----------------------------------------------------------------------------
(* revoke *)

\* updateMany
Revoke(c, k) ==
    /\ step[c] = "idle"
    /\ k \in issued
    /\ rows' = [rows EXCEPT ![k].isRevoked = TRUE]
    /\ local' = [local EXCEPT ![c] =
                   [token |-> k, read |-> clock, seconds |-> 0, after |-> FALSE]]
    /\ Goes(c, "del")
    /\ UNCHANGED <<clock, errors, cache, issued, revoked, raced, lag>>

Filling(k) == \E c \in Caller : step[c] = "fill" /\ local[c].token = k

\* DEL
RevokeDel(c) ==
    /\ step[c] = "del"
    /\ LET k == local[c].token
       IN  /\ cache' = [cache EXCEPT ![k] = 0]
           /\ revoked' = revoked \cup {k}
           /\ raced' = IF Filling(k) THEN raced \cup {k} ELSE raced
    /\ Ended(c, "revoked")
    /\ UNCHANGED <<clock, errors, rows, issued, local, lag>>

-----------------------------------------------------------------------------

\* A database or Redis call fails, or its process dies: the call ends there.
StoreError(c) ==
    /\ step[c] # "idle"
    /\ errors < MaxErrors
    /\ errors' = errors + 1
    /\ Ended(c, "error")
    /\ UNCHANGED <<clock, rows, cache, issued, local, revoked, raced, lag>>

\* Redis, which may evict and restart, loses the key.
CacheLoss(k) ==
    /\ Cached(k)
    /\ cache' = [cache EXCEPT ![k] = 0]
    /\ UNCHANGED <<clock, errors, rows, issued, step, local, answer, revoked, raced, lag>>

ClockTick ==
    /\ clock < MaxClock
    /\ clock' = clock + 1
    /\ UNCHANGED <<errors, rows, cache, issued, step, local, answer, revoked, raced, lag>>

DashNext ==
    \/ \E c \in Caller :
         \/ \E k \in Token, ttl \in TtlSeconds : Create(c, k, ttl)
         \/ \E k \in Token : Validate(c, k) \/ Revoke(c, k)
         \/ CreateRow(c) \/ CreateSet(c)
         \/ ValidateTtl(c) \/ ValidateFind(c) \/ ValidateFill(c)
         \/ RevokeDel(c) \/ StoreError(c)
    \/ \E k \in Token : CacheLoss(k)
    \/ ClockTick

DashSpec == DashInit /\ [][DashNext]_dashVars

=============================================================================
