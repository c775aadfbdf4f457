------------------------------- MODULE Scheduling -------------------------------
(***************************************************************************)
(* When an author's next scheduled run is due (src/src/core/use-cases/     *)
(* scheduling.ts, core/policies/cadence.ts) as the rows of workflow_runs   *)
(* and author_configs say (prisma-scheduling-repository.ts), and what the  *)
(* two writers of workflow_runs do to the answer: triggerRun, which finds  *)
(* or creates the run of an idempotency key, and a publish, which upserts  *)
(* the row of its own key (prisma-article-repository.ts).  The keys share  *)
(* one unique index; a request that names none has the empty key.  Time is *)
(* in days.                                                                *)
(***************************************************************************)
EXTENDS Naturals, FiniteSets

CONSTANTS
    Author,
    Key,           \* idempotency keys
    Cadence,       \* strings of weeklyCadence that occur
    CADENCE_DAYS,  \* the interval of each cadence the program knows (1, 7 and 14 days)
    MaxDay         \* bound: days 0..MaxDay

VARIABLES
    day,           \* today
    cadence,       \* author_configs.weeklyCadence
    keyed,         \* workflow_runs: the row of a key, if there is one
    status,        \* the GET /scheduling/status that was asked last
    lookup,        \* publishes that found no run of their key, and are to record one
    joined         \* history: authors of whom a run started since the last-run read

scheduleVars == <<day, cadence, keyed, status, lookup, joined>>

NoRun == {}
None == {}
Row == [author : Author, at : 0..MaxDay]

DEFAULT_CADENCE == "weekly"

ASSUME ScheduleAssumption ==
    /\ MaxDay \in Nat
    /\ DEFAULT_CADENCE \in DOMAIN CADENCE_DAYS
    /\ \A c \in DOMAIN CADENCE_DAYS : CADENCE_DAYS[c] \in Nat

\* The strings are compared in lower case; "Daily" stands for those that are not.
LowerCase(c) == IF c = "Daily" THEN "daily" ELSE c

\* An unknown cadence is weekly.
cadenceDays(c) ==
    IF LowerCase(c) \in DOMAIN CADENCE_DAYS
    THEN CADENCE_DAYS[LowerCase(c)] ELSE CADENCE_DAYS[DEFAULT_CADENCE]

\* Mutant: on the very day, the run is not due yet.
IsOverdue(lastRun, today, c) == \A last \in lastRun : today - last > cadenceDays(c)

\* lastRun holds the start of the last run, or nothing.
isDue(lastRun, today, c) == \A last \in lastRun : today - last >= cadenceDays(c)

Starts(a) == {row.at : row \in UNION {{r \in keyed[k] : r.author = a} : k \in Key}}

\* The start of the author's newest row, whoever wrote it.
getLastRunAt(a) == {s \in Starts(a) : \A t \in Starts(a) : t <= s}

ScheduleInit ==
    /\ day = 0
    /\ cadence \in [Author -> Cadence]
    /\ keyed = [k \in Key |-> NoRun]
    /\ status = None
    /\ lookup = {}
    /\ joined = {}

-----------------------------------------------------------------------------

Tick ==
    /\ day < MaxDay
    /\ day' = day + 1
    /\ UNCHANGED <<cadence, keyed, status, lookup, joined>>

\* Mutant: the row is written whether or not the key has one.
Overwrites(k) == TRUE

IsFree(k) == keyed[k] = NoRun

\* triggerRun: the run of the key, whoever's it is; or a new one.  The unique index makes
\* the lookup and the insert of startRun one step: the loser of a race throws.
triggerRun(a, k) ==
    /\ IsFree(k)
    /\ keyed' = [keyed EXCEPT ![k] = {[author |-> a, at |-> day]}]
    /\ joined' = joined \cup {a}
    /\ UNCHANGED <<day, cadence, status, lookup>>

\* publishArticle looks its key up before it checks anything ...
resolveIdempotency(a, k) ==
    /\ keyed[k] = NoRun /\ lookup = {}
    /\ lookup' = {[author |-> a, key |-> k]}
    /\ UNCHANGED <<day, cadence, keyed, status, joined>>

\* ... and records its run later: the upsert moves a row that came to be in between to
\* its author; startedAt is written with the row and kept.
recordRun(p) ==
    LET a == p.author
        k == p.key
    IN  /\ p \in lookup
        /\ keyed' = [keyed EXCEPT ![k] =
                       IF @ = NoRun THEN {[author |-> a, at |-> day]}
                       ELSE {[row EXCEPT !.author = a] : row \in @}]
        /\ lookup' = lookup \ {p}
        /\ joined' = joined \cup {a}
        /\ UNCHANGED <<day, cadence, status>>

\* It is refused before it records anything.
PublishStops(p) ==
    /\ p \in lookup
    /\ lookup' = lookup \ {p}
    /\ UNCHANGED <<day, cadence, keyed, status, joined>>

\* shouldRun reads the last run ...
ReadLastRun(a) ==
    /\ \A asked \in status : asked.answered
    /\ status' = {[author |-> a, last |-> getLastRunAt(a), answered |-> FALSE,
                   day |-> 0, due |-> FALSE]}
    /\ joined' = {}
    /\ UNCHANGED <<day, cadence, keyed, lookup>>

\* ... then the cadence, and compares them with the clock as it is then.
shouldRun(asked) ==
    /\ asked \in status /\ ~asked.answered
    /\ status' = {[asked EXCEPT !.answered = TRUE, !.day = day,
                               !.due = isDue(asked.last, day, cadence[asked.author])]}
    /\ UNCHANGED <<day, cadence, keyed, lookup, joined>>

ScheduleNext ==
    \/ Tick
    \/ \E a \in Author, k \in Key : triggerRun(a, k) \/ resolveIdempotency(a, k)
    \/ \E p \in lookup : recordRun(p) \/ PublishStops(p)
    \/ \E a \in Author : ReadLastRun(a)
    \/ \E asked \in status : shouldRun(asked)

ScheduleSpec == ScheduleInit /\ [][ScheduleNext]_scheduleVars

-----------------------------------------------------------------------------

\* The one type invariant.
ScheduleTypeOK ==
    /\ day \in 0..MaxDay
    /\ cadence \in [Author -> Cadence]
    /\ \A k \in Key : keyed[k] \subseteq Row /\ Cardinality(keyed[k]) <= 1
    /\ \A asked \in status : asked.author \in Author /\ Cardinality(asked.last) <= 1
    /\ lookup \subseteq [author : Author, key : Key]

\* "Not due" is answered only if a run of the author, scheduled or a publish, started
\* within the interval of his cadence; "due" is wrong only if a run started after the last
\* run was read, or a publish took the row over (scheduling.ts:77, cadence.ts:19-28).
AnsweredForCause ==
    \A asked \in status : asked.answered =>
        LET a == asked.author
            Recent(rows) == {r \in rows : r + cadenceDays(cadence[a]) > asked.day}
        IN  /\ ~asked.due => Recent(asked.last) # {}
            /\ (asked.due /\ Recent(Starts(a)) # {}) => a \in joined

\* The run of a key stays its author's.  The one exception is a publish that looked the
\* key up while it was free and records after another's run was created under it
\* (article-management.ts:280, prisma-article-repository.ts:242).
RunChangesHandsByRaceOnly ==
    [][\A k \in Key : \A old \in keyed[k] :
          /\ keyed'[k] # NoRun
          /\ \A new \in keyed'[k] :
               /\ new.at = old.at
               /\ new.author # old.author =>
                    \E p \in lookup : p = [author |-> new.author, key |-> k]]_scheduleVars

=============================================================================
