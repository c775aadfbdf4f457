------------------------------ MODULE RateLimiter ------------------------------
(***************************************************************************)
(* The fixed-window limiter of src/src/adapters/cache/rate-limiter.ts, for *)
(* one subject.  Any number of processes call check at once; the counters  *)
(* are Redis keys, one for each window, that INCR creates and EXPIRE gives *)
(* a lifetime in a second call.                                            *)
(***************************************************************************)
EXTENDS Integers, FiniteSets

CONSTANTS
    Check,          \* slots for calls of check
    LIMIT,          \* limitPerMinute
    WINDOW,         \* ticks in a window (WINDOW_MS)
    MaxCalls,       \* bound: calls begin below this many INCRs in a window
    MaxTime,        \* bound: the clock stops here
    MaxLost         \* bound: Redis calls that fail

ASSUME LimitAssumption ==
    /\ LIMIT \in Nat /\ WINDOW \in Nat \ {0}
    /\ MaxCalls \in Nat /\ MaxTime \in Nat /\ MaxLost \in Nat

Window == 0..(MaxTime \div WINDOW)

VARIABLES
    time,
    lost,       \* failed Redis calls so far
    counter,    \* Redis: the counter of each window
    deadline,   \* when it expires; Never if it has no lifetime
    stage,      \* each call's next Redis call
    read,       \* the clock reading its key is named from
    result,     \* what the slot's last call returned
    incs,       \* history: INCRs made during each window
    grants,     \* history: when requests were allowed, and after how many INCRs in the window
    delayed     \* history: did an INCR come in a later window than its key names?

limitVars == <<time, lost, counter, deadline, stage, read, result, incs, grants, delayed>>

Never == MaxTime + 2 * WINDOW + 1

NoResult == [allowed |-> FALSE, remaining |-> 0, at |-> 0, done |-> FALSE]

LimitInit ==
    /\ time = 0 /\ lost = 0
    /\ counter = [w \in Window |-> 0]
    /\ deadline = [w \in Window |-> Never]
    /\ stage = [c \in Check |-> "idle"]
    /\ read = [c \in Check |-> 0]
    /\ result = [c \in Check |-> NoResult]
    /\ incs = [w \in Window |-> 0]
    /\ grants = {}
    /\ delayed = FALSE

\* The window that a clock reading names.
WindowStart(at) == at \div WINDOW

CheckBegin(c) ==
    /\ stage[c] = "idle"
    /\ incs[time \div WINDOW] < MaxCalls
    /\ stage' = [stage EXCEPT ![c] = "incr"]
    /\ read' = [read EXCEPT ![c] = time]
    /\ result' = [result EXCEPT ![c] = NoResult]
    /\ UNCHANGED <<time, lost, counter, deadline, incs, grants, delayed>>

Remaining(count) == IF count <= LIMIT THEN LIMIT - count ELSE 0

\* Mutant: one request too many.
AllowedOneMore(count) == count <= LIMIT + 1

Allowed(count) == count <= LIMIT

\* INCR: an absent key counts from 0.  The first call of a key goes on to EXPIRE.
Incr(c) ==
    LET w == WindowStart(read[c])
        count == counter[w] + 1
    IN  /\ stage[c] = "incr"
        /\ counter' = [counter EXCEPT ![w] = count]
        /\ incs' = [incs EXCEPT ![time \div WINDOW] = @ + 1]
        /\ result' = [result EXCEPT ![c] =
             [allowed |-> Allowed(count), remaining |-> Remaining(count), at |-> time, done |-> TRUE]]
        /\ stage' = [stage EXCEPT ![c] = IF count = 1 THEN "expire" ELSE "idle"]
        /\ grants' = IF Allowed(count)
                     THEN grants \cup {[at |-> time, nth |-> incs'[time \div WINDOW]]}
                     ELSE grants
        /\ delayed' = (delayed \/ read[c] \div WINDOW # time \div WINDOW)
        /\ UNCHANGED <<time, lost, deadline, read>>

\* EXPIRE, of twice the window; nothing if the key is gone.
Expire(c) ==
    LET w == WindowStart(read[c])
    IN  /\ stage[c] = "expire"
        /\ deadline' = IF counter[w] > 0 THEN [deadline EXCEPT ![w] = time + 2 * WINDOW]
                       ELSE deadline
        /\ stage' = [stage EXCEPT ![c] = "idle"]
        /\ UNCHANGED <<time, lost, counter, read, result, incs, grants, delayed>>

\* A Redis call fails: check throws.
RedisError(c) ==
    /\ stage[c] # "idle"
    /\ lost < MaxLost
    /\ lost' = lost + 1
    /\ stage' = [stage EXCEPT ![c] = "idle"]
    /\ result' = [result EXCEPT ![c] = NoResult]
    /\ UNCHANGED <<time, counter, deadline, read, incs, grants, delayed>>

\* Time passes; keys whose lifetime is over are gone.
TimePasses ==
    /\ time < MaxTime
    /\ time' = time + 1
    /\ counter' = [w \in Window |-> IF deadline[w] <= time + 1 THEN 0 ELSE counter[w]]
    /\ deadline' = [w \in Window |-> IF deadline[w] <= time + 1 THEN Never ELSE deadline[w]]
    /\ UNCHANGED <<lost, stage, read, result, incs, grants, delayed>>

LimitNext ==
    \/ \E c \in Check : CheckBegin(c) \/ Incr(c) \/ Expire(c) \/ RedisError(c)
    \/ TimePasses

LimitSpec == LimitInit /\ [][LimitNext]_limitVars

-----------------------------------------------------------------------------
(* What it guarantees *)

\* The one type invariant.
LimitTypeOK ==
    /\ time \in 0..MaxTime /\ lost \in 0..MaxLost
    /\ counter \in [Window -> Nat] /\ incs \in [Window -> Nat]
    /\ deadline \in [Window -> 0..Never]
    /\ stage \in [Check -> {"idle", "incr", "expire"}]
    /\ read \in [Check -> 0..MaxTime]
    /\ result \in
         [Check -> [allowed : BOOLEAN, remaining : 0..LIMIT, at : 0..MaxTime, done : BOOLEAN]]
    /\ grants \subseteq [at : 0..MaxTime, nth : Nat] /\ delayed \in BOOLEAN

Granted(from, to) == Cardinality({g \in grants : g.at \in from..to})

\* Any number of calls at once, with EXPIRE early, late or never: as long as no call is
\* delayed beyond its window, the budget of a window is never exceeded, any stretch of a
\* window's length sees at most two budgets, and nobody is refused who has not used the
\* budget of that very window, so a counter that a failed EXPIRE left for ever never counts
\* against a later one (rate-limiter.ts:30-41).
BudgetRespected ==
    ~delayed =>
        /\ \A w \in Window : Granted(w * WINDOW, ((w + 1) * WINDOW) - 1) <= LIMIT
        /\ \A t \in 0..(MaxTime - WINDOW) : Granted(t + 1, t + WINDOW) <= 2 * LIMIT
        /\ \A c \in Check : (result[c].done /\ ~result[c].allowed)
                               => incs[result[c].at \div WINDOW] > LIMIT

=============================================================================
