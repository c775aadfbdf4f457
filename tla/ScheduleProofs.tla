----------------------------- MODULE ScheduleProofs -----------------------------
(***************************************************************************)
(* Proofs about the schedule, for any authors, keys and cadences: whose a  *)
(* run is, and what the answer "due" can be relied on for.                 *)
(***************************************************************************)
EXTENDS Scheduling, FiniteSetTheorems, WellFoundedInduction, TLAPS

Rows == [author : Author, at : Nat]
Status == [author : Author, last : SUBSET Nat, answered : BOOLEAN, day : Nat, due : BOOLEAN]

ScheduleShape ==
    /\ day \in Nat
    /\ keyed \in [Key -> SUBSET Rows]
    /\ lookup \subseteq [author : Author, key : Key]
    /\ status \subseteq Status

\* An answer goes back to the last run as it was read, and that run to every start of the
\* author, unless another started since.
AskedInv ==
    \A asked \in status :
        /\ asked.answered =>
              asked.due = isDue(asked.last, asked.day, cadence[asked.author])
        /\ asked.author \notin joined =>
              \A s \in Starts(asked.author) : \E l \in asked.last : s <= l

ScheduleInv == ScheduleShape /\ AskedInv

\* An interval is a number of days.
LEMMA IntervalIsNat ==
    ASSUME NEW c
    PROVE  cadenceDays(c) \in Nat
BY ScheduleAssumption DEF cadenceDays

\* Every start is a day.
LEMMA StartsAreDays ==
    ASSUME ScheduleShape, NEW a
    PROVE  Starts(a) \subseteq Nat
BY DEF ScheduleShape, Starts, Rows

\* A set of days up to today has a last one: the one with the fewest days after it.
LEMMA LastDay ==
    ASSUME NEW S \in SUBSET Nat, NEW today \in Nat, \A s \in S : s <= today, S # {}
    PROVE  \E l \in S : \A s \in S : s <= l
<1> DEFINE T == {today - s : s \in S}
           R == OpToRel(<, Nat)
<1>1. T \subseteq Nat /\ T # {}
  <2>1. \A s \in S : today - s \in Nat
    OBVIOUS
  <2> QED BY <2>1
<1>2. IsWellFoundedOn(R, Nat)
  BY NatLessThanWellFounded
<1>3. \A x, y \in Nat : <<y, x>> \in R <=> y < x
  BY DEF OpToRel
<1> HIDE DEF R
<1>4. PICK x \in T : \A y \in T : <<y, x>> \notin R
  BY <1>1, <1>2, WFMin
<1>5. PICK l \in S : x = today - l
  BY <1>4
<1>6. ASSUME NEW s \in S PROVE s <= l
  <2>1. today - s \in T /\ today - s \in Nat /\ x \in Nat
    BY <1>1, <1>4
  <2>2. ~(today - s < x)
    BY <1>3, <1>4, <2>1
  <2> QED BY <1>5, <2>2
<1> QED BY <1>6

\* No start is later than today.
StartsArePast == \A k \in Key : \A row \in keyed[k] : row.at <= day

\* The last run covers every start.
LEMMA LastRunCovers ==
    ASSUME ScheduleShape, StartsArePast, NEW a \in Author
    PROVE  /\ getLastRunAt(a) \subseteq Nat
           /\ \A s \in Starts(a) : \E l \in getLastRunAt(a) : s <= l
<1>1. Starts(a) \in SUBSET Nat /\ day \in Nat
  BY StartsAreDays DEF ScheduleShape
<1>2. \A s \in Starts(a) : s <= day
  BY DEF StartsArePast, Starts
<1>3. CASE Starts(a) # {}
  <2>1. PICK l \in Starts(a) : \A s \in Starts(a) : s <= l
    BY <1>1, <1>2, <1>3, LastDay
  <2> QED BY <1>1, <2>1 DEF getLastRunAt
<1>4. CASE Starts(a) = {}
  BY <1>4 DEF getLastRunAt
<1> QED BY <1>3, <1>4

-----------------------------------------------------------------------------

\* A step that writes a row of b leaves the starts of the other authors, or takes one away.
LEMMA OthersKeepStarts ==
    ASSUME ScheduleShape, NEW b, NEW a, a # b, NEW k \in Key, NEW rows,
           keyed' = [keyed EXCEPT ![k] = rows], \A row \in rows : row.author = b
    PROVE  Starts(a)' \subseteq Starts(a)
<1>1. \A j \in Key : keyed'[j] = IF j = k THEN rows ELSE keyed[j]
  BY DEF ScheduleShape
<1>2. ASSUME NEW j \in Key, NEW row \in keyed'[j], row.author = a
      PROVE  j # k /\ row \in keyed[j]
  BY <1>1, <1>2
<1> QED BY <1>2 DEF Starts

\* Every step keeps the invariant.
LEMMA ScheduleStep ==
    ASSUME ScheduleInv, StartsArePast, [ScheduleNext]_scheduleVars
    PROVE  ScheduleInv' /\ StartsArePast'
<1>0. ScheduleShape /\ AskedInv /\ day \in Nat
  BY DEF ScheduleInv, ScheduleShape
<1>1. CASE Tick
  <2>1. day' = day + 1 /\ UNCHANGED <<cadence, keyed, status, lookup, joined>>
    BY <1>1 DEF Tick
  <2>2. ScheduleShape'
    BY <1>0, <2>1 DEF ScheduleShape
  <2>3. AskedInv'
    BY <1>0, <2>1 DEF AskedInv, Starts
  <2>4. \A k \in Key : \A row \in keyed[k] : row.at \in Nat
    BY <1>0 DEF ScheduleShape, Rows
  <2>5. StartsArePast'
    BY <1>0, <2>1, <2>4 DEF StartsArePast
  <2> QED BY <2>2, <2>3, <2>5 DEF ScheduleInv
<1>2. ASSUME NEW a \in Author, NEW k \in Key, triggerRun(a, k)
      PROVE  ScheduleInv' /\ StartsArePast'
  <2> DEFINE rows == {[author |-> a, at |-> day]}
  <2>1. /\ keyed' = [keyed EXCEPT ![k] = rows] /\ joined' = joined \cup {a}
        /\ UNCHANGED <<day, cadence, status, lookup>>
    BY <1>2 DEF triggerRun
  <2>2. rows \subseteq Rows /\ \A row \in rows : row.author = a /\ row.at <= day
    BY <1>0 DEF Rows
  <2> HIDE DEF rows
  <2>3. \A b : b # a => Starts(b)' \subseteq Starts(b)
    BY <1>0, <2>1, <2>2, OthersKeepStarts
  <2>4. ScheduleShape'
    BY <1>0, <2>1, <2>2 DEF ScheduleShape
  <2>5. AskedInv'
    BY <1>0, <2>1, <2>3 DEF AskedInv
  <2>6. StartsArePast'
    BY <1>0, <2>1, <2>2 DEF StartsArePast, ScheduleShape
  <2> QED BY <2>4, <2>5, <2>6 DEF ScheduleInv
<1>3. ASSUME NEW a \in Author, NEW k \in Key, resolveIdempotency(a, k)
      PROVE  ScheduleInv' /\ StartsArePast'
  <2>1. /\ lookup' = {[author |-> a, key |-> k]}
        /\ UNCHANGED <<day, cadence, keyed, status, joined>>
    BY <1>3 DEF resolveIdempotency
  <2>2. ScheduleShape' /\ StartsArePast'
    BY <1>0, <2>1 DEF ScheduleShape, StartsArePast
  <2>3. AskedInv'
    BY <1>0, <2>1 DEF AskedInv, Starts
  <2> QED BY <2>2, <2>3 DEF ScheduleInv
<1>4. ASSUME NEW p \in lookup, recordRun(p)
      PROVE  ScheduleInv' /\ StartsArePast'
  <2> DEFINE a == p.author
             k == p.key
             rows == IF keyed[k] = NoRun THEN {[author |-> a, at |-> day]}
                     ELSE {[row EXCEPT !.author = a] : row \in keyed[k]}
  <2>0. a \in Author /\ k \in Key /\ keyed[k] \subseteq Rows
    BY <1>0 DEF ScheduleShape
  <2>1. /\ keyed' = [keyed EXCEPT ![k] = rows] /\ joined' = joined \cup {a}
        /\ lookup' = lookup \ {p} /\ UNCHANGED <<day, cadence, status>>
    BY <1>4 DEF recordRun
  <2>2. rows \subseteq Rows /\ \A row \in rows : row.author = a /\ row.at <= day
    <3>1. CASE keyed[k] = NoRun
      BY <1>0, <2>0, <3>1 DEF Rows
    <3>2. CASE keyed[k] # NoRun
      <4>1. rows = {[row EXCEPT !.author = a] : row \in keyed[k]}
        BY <3>2
      <4>2. ASSUME NEW row \in keyed[k]
            PROVE  /\ [row EXCEPT !.author = a] \in Rows
                   /\ [row EXCEPT !.author = a].author = a
                   /\ [row EXCEPT !.author = a].at <= day
        <5>1. row \in Rows /\ row.at <= day
          BY <2>0, <4>2 DEF StartsArePast
        <5> QED BY <2>0, <5>1 DEF Rows
      <4> HIDE DEF rows
      <4> QED BY <4>1, <4>2
    <3> QED BY <3>1, <3>2
  <2> HIDE DEF rows, a, k
  <2>3. \A b : b # a => Starts(b)' \subseteq Starts(b)
    BY <1>0, <2>0, <2>1, <2>2, OthersKeepStarts
  <2>4. ScheduleShape'
    BY <1>0, <2>0, <2>1, <2>2 DEF ScheduleShape
  <2>5. AskedInv'
    BY <1>0, <2>1, <2>3 DEF AskedInv
  <2>6. StartsArePast'
    BY <1>0, <2>0, <2>1, <2>2 DEF StartsArePast, ScheduleShape
  <2> QED BY <2>4, <2>5, <2>6 DEF ScheduleInv
<1>5. ASSUME NEW p \in lookup, PublishStops(p)
      PROVE  ScheduleInv' /\ StartsArePast'
  <2>1. lookup' = lookup \ {p} /\ UNCHANGED <<day, cadence, keyed, status, joined>>
    BY <1>5 DEF PublishStops
  <2>2. ScheduleShape' /\ StartsArePast'
    BY <1>0, <2>1 DEF ScheduleShape, StartsArePast
  <2>3. AskedInv'
    BY <1>0, <2>1 DEF AskedInv, Starts
  <2> QED BY <2>2, <2>3 DEF ScheduleInv
<1>6. ASSUME NEW a \in Author, ReadLastRun(a)
      PROVE  ScheduleInv' /\ StartsArePast'
  <2>1. /\ status' = {[author |-> a, last |-> getLastRunAt(a), answered |-> FALSE,
                       day |-> 0, due |-> FALSE]}
        /\ UNCHANGED <<day, cadence, keyed, lookup>>
    BY <1>6 DEF ReadLastRun
  <2>2. /\ getLastRunAt(a) \subseteq Nat
        /\ \A s \in Starts(a) : \E l \in getLastRunAt(a) : s <= l
    BY <1>0, LastRunCovers
  <2>3. ScheduleShape' /\ StartsArePast'
    BY <1>0, <2>1, <2>2 DEF ScheduleShape, StartsArePast, Status
  <2>4. Starts(a)' = Starts(a)
    BY <2>1 DEF Starts
  <2>5. AskedInv'
    BY <2>1, <2>2, <2>4 DEF AskedInv
  <2> QED BY <2>3, <2>5 DEF ScheduleInv
<1>7. ASSUME NEW asked \in status, shouldRun(asked)
      PROVE  ScheduleInv' /\ StartsArePast'
  <2> DEFINE due == isDue(asked.last, day, cadence[asked.author])
             answer == [asked EXCEPT !.answered = TRUE, !.day = day, !.due = due]
  <2>1. status' = {answer} /\ UNCHANGED <<day, cadence, keyed, lookup, joined>>
    BY <1>7 DEF shouldRun
  <2>2. due \in BOOLEAN /\ asked \in Status
    BY <1>0 DEF isDue, ScheduleShape
  <2> HIDE DEF due
  <2>3. /\ answer \in Status /\ answer.author = asked.author /\ answer.last = asked.last
        /\ answer.answered /\ answer.day = day /\ answer.due = due
    BY <1>0, <2>2 DEF Status
  <2> HIDE DEF answer
  <2>4. ScheduleShape' /\ StartsArePast'
    BY <1>0, <2>1, <2>3 DEF ScheduleShape, StartsArePast
  <2>5. AskedInv'
    BY <1>0, <2>1, <2>3 DEF AskedInv, Starts, due
  <2> QED BY <2>4, <2>5 DEF ScheduleInv
<1>8. CASE UNCHANGED scheduleVars
  BY <1>0, <1>8 DEF scheduleVars, ScheduleInv, ScheduleShape, AskedInv, StartsArePast, Starts
<1> QED BY <1>1, <1>2, <1>3, <1>4, <1>5, <1>6, <1>7, <1>8 DEF ScheduleNext

\* It holds before the first run.
LEMMA ScheduleInitInv == ScheduleInit => ScheduleInv /\ StartsArePast
BY DEF ScheduleInit, ScheduleInv, ScheduleShape, AskedInv, StartsArePast, NoRun, None

\* All of it in every state.
LEMMA ScheduleSafe == ScheduleSpec => [](ScheduleInv /\ StartsArePast)
BY ScheduleInitInv, ScheduleStep, PTL DEF ScheduleSpec

\* "Not due" always has a run of the author within his interval behind it, and "due" is
\* wrong only if a run started, or was taken over, after the last run was read; for every
\* cadence and any number of authors and keys (scheduling.ts:77-81, cadence.ts:19-28).
THEOREM AnsweredForCauseHolds == ScheduleSpec => []AnsweredForCause
<1>1. ScheduleInv => AnsweredForCause
  <2> SUFFICES ASSUME ScheduleInv, NEW asked \in status, asked.answered
               PROVE  LET a == asked.author
                          Recent(rows) == {r \in rows : r + cadenceDays(cadence[a]) > asked.day}
                      IN  /\ ~asked.due => Recent(asked.last) # {}
                          /\ (asked.due /\ Recent(Starts(a)) # {}) => a \in joined
    BY DEF AnsweredForCause
  <2> DEFINE days == cadenceDays(cadence[asked.author])
  <2>1. asked \in Status /\ days \in Nat
    BY IntervalIsNat DEF ScheduleInv, ScheduleShape
  <2>2. asked.last \subseteq Nat /\ asked.day \in Nat /\ Starts(asked.author) \subseteq Nat
    BY <2>1, StartsAreDays DEF ScheduleInv, Status
  <2>3. asked.due = (\A last \in asked.last : asked.day - last >= days)
    BY DEF ScheduleInv, AskedInv, isDue
  <2>4. asked.author \notin joined =>
           \A s \in Starts(asked.author) : \E l \in asked.last : s <= l
    BY DEF ScheduleInv, AskedInv
  <2> HIDE DEF days
  <2>5. ASSUME ~asked.due PROVE \E r \in asked.last : r + days > asked.day
    BY <2>1, <2>2, <2>3, <2>5
  <2>6. ASSUME asked.due, asked.author \notin joined, NEW r \in Starts(asked.author)
        PROVE  ~(r + days > asked.day)
    <3>1. PICK l \in asked.last : r <= l
      BY <2>4, <2>6
    <3>2. asked.day - l >= days
      BY <2>3, <2>6
    <3> QED BY <2>1, <2>2, <3>1, <3>2
  <2> QED BY <2>5, <2>6 DEF days
<1> QED BY <1>1, ScheduleSafe, PTL

\* The unique index: a key has one row.
OneRow == \A k \in Key : \A r1, r2 \in keyed[k] : r1 = r2

\* No step gives a key a second row.
LEMMA OneRowStep ==
    ASSUME ScheduleInv, OneRow, [ScheduleNext]_scheduleVars
    PROVE  OneRow'
<1>1. ASSUME NEW a \in Author, NEW k \in Key, triggerRun(a, k) PROVE OneRow'
  BY <1>1 DEF triggerRun, OneRow, ScheduleInv, ScheduleShape
<1>2. ASSUME NEW p \in lookup, recordRun(p) PROVE OneRow'
  BY <1>2 DEF recordRun, OneRow, ScheduleInv, ScheduleShape, NoRun
<1>3. CASE keyed' = keyed
  BY <1>3 DEF OneRow
<1> QED BY <1>1, <1>2, <1>3 DEF ScheduleNext, Tick, resolveIdempotency, PublishStops,
                               ReadLastRun, shouldRun, scheduleVars

\* And none has one.
LEMMA OneRowSafe == ScheduleSpec => []OneRow
<1>1. ScheduleInit => OneRow
  BY DEF ScheduleInit, OneRow, NoRun
<1> QED BY <1>1, OneRowStep, ScheduleSafe, PTL DEF ScheduleSpec

\* The days stay within the bound, and the last run asked for is one day or none.
ScheduleBounds ==
    /\ day \in 0..MaxDay /\ cadence \in [Author -> Cadence]
    /\ \A asked \in status : \A l, m \in asked.last : l = m

\* No two days are both the last.
LEMMA OneLastRun ==
    ASSUME NEW a, Starts(a) \subseteq Nat
    PROVE  \A l, m \in getLastRunAt(a) : l = m
BY DEF getLastRunAt

\* Every step stays within the bounds.
LEMMA BoundsStep ==
    ASSUME ScheduleInv, ScheduleBounds, [ScheduleNext]_scheduleVars
    PROVE  ScheduleBounds'
<1>1. CASE Tick
  BY <1>1, ScheduleAssumption DEF Tick, ScheduleBounds
<1>2. ASSUME NEW a \in Author, ReadLastRun(a) PROVE ScheduleBounds'
  <2>1. \A l, m \in getLastRunAt(a) : l = m
    BY OneLastRun, StartsAreDays DEF ScheduleInv
  <2> QED BY <1>2, <2>1 DEF ReadLastRun, ScheduleBounds
<1>3. ASSUME NEW asked \in status, shouldRun(asked) PROVE ScheduleBounds'
  <2> DEFINE answer == [asked EXCEPT !.answered = TRUE, !.day = day,
                                     !.due = isDue(asked.last, day, cadence[asked.author])]
  <2>1. asked \in Status
    BY DEF ScheduleInv, ScheduleShape
  <2>2. answer.last = asked.last
    BY <2>1 DEF Status
  <2>3. status' = {answer} /\ UNCHANGED <<day, cadence>>
    BY <1>3 DEF shouldRun
  <2> HIDE DEF answer
  <2> QED BY <2>2, <2>3 DEF ScheduleBounds
<1>4. CASE UNCHANGED <<day, cadence, status>>
  BY <1>4 DEF ScheduleBounds
<1> QED BY <1>1, <1>2, <1>3, <1>4 DEF ScheduleNext, triggerRun, resolveIdempotency, recordRun,
                                     PublishStops, scheduleVars

\* A set without two members has at most one.
LEMMA AtMostOne ==
    ASSUME NEW S, \A x, y \in S : x = y
    PROVE  Cardinality(S) <= 1
<1>1. CASE S = {}
  <2>1. Cardinality(S) = 0
    BY <1>1, FS_EmptySet
  <2> QED BY <2>1
<1>2. ASSUME NEW x \in S PROVE Cardinality(S) <= 1
  <2>1. S = {x}
    BY <1>2
  <2>2. Cardinality({x}) = 1
    BY FS_Singleton
  <2> QED BY <2>1, <2>2
<1> QED BY <1>1, <1>2

\* The invariants bound every part of the state.
LEMMA ScheduleTypes ==
    ASSUME ScheduleInv, StartsArePast, OneRow, ScheduleBounds
    PROVE  ScheduleTypeOK
<1>1. day \in 0..MaxDay /\ cadence \in [Author -> Cadence]
  BY DEF ScheduleBounds
<1>2. ASSUME NEW k \in Key
      PROVE  keyed[k] \subseteq Row /\ Cardinality(keyed[k]) <= 1
  <2>1. Cardinality(keyed[k]) <= 1
    BY AtMostOne DEF OneRow
  <2>2. ASSUME NEW row \in keyed[k] PROVE row \in Row
    <3>1. row \in Rows /\ row.at <= day
      BY <2>2 DEF ScheduleInv, ScheduleShape, StartsArePast
    <3> QED BY <1>1, <3>1, ScheduleAssumption DEF Rows, Row
  <2> QED BY <2>1, <2>2
<1>3. ASSUME NEW asked \in status
      PROVE  asked.author \in Author /\ Cardinality(asked.last) <= 1
  <2>1. asked \in Status
    BY DEF ScheduleInv, ScheduleShape
  <2> QED BY <2>1, AtMostOne DEF Status, ScheduleBounds
<1> QED BY <1>1, <1>2, <1>3 DEF ScheduleTypeOK, ScheduleInv, ScheduleShape

\* Among any number of authors, triggers and publishes, the run of a key changes its author
\* only through a publish that had looked the key up while it was free
\* (article-management.ts:280, prisma-article-repository.ts:242).
THEOREM RunChangesHandsByRaceOnlyHolds == ScheduleSpec => RunChangesHandsByRaceOnly
<1> DEFINE Kept(k) ==
             \A old \in keyed[k] :
                /\ keyed'[k] # NoRun
                /\ \A new \in keyed'[k] :
                     /\ new.at = old.at
                     /\ new.author # old.author =>
                          \E p \in lookup : p = [author |-> new.author, key |-> k]
<1>1. ASSUME ScheduleInv, OneRow, [ScheduleNext]_scheduleVars, NEW k \in Key
      PROVE  Kept(k)
  <2>1. CASE keyed' = keyed
    BY <1>1, <2>1 DEF OneRow, NoRun
  <2>2. ASSUME NEW a \in Author, NEW j \in Key, triggerRun(a, j) PROVE Kept(k)
    <3>1. /\ keyed[j] = {}
          /\ keyed' = [keyed EXCEPT ![j] = {[author |-> a, at |-> day]}]
      BY <2>2 DEF triggerRun, IsFree, NoRun
    <3>2. keyed'[k] = keyed[k] \/ keyed[k] = {}
      BY <1>1, <3>1 DEF ScheduleInv, ScheduleShape
    <3> QED BY <1>1, <3>2 DEF OneRow, NoRun
  <2>3. ASSUME NEW p \in lookup, recordRun(p) PROVE Kept(k)
    <3>1. p \in [author : Author, key : Key] /\ keyed[p.key] \subseteq Rows
      BY <1>1 DEF ScheduleInv, ScheduleShape
    <3>2. keyed[p.key] # NoRun =>
             keyed' = [keyed EXCEPT ![p.key] = {[row EXCEPT !.author = p.author] : row \in @}]
      BY <2>3 DEF recordRun
    <3>3. \A j \in Key : j # p.key => keyed'[j] = keyed[j]
      BY <1>1, <2>3 DEF recordRun, ScheduleInv, ScheduleShape
    <3>4. CASE k # p.key
      BY <1>1, <3>3, <3>4 DEF OneRow, NoRun
    <3>5. CASE k = p.key /\ keyed[k] # NoRun
      <4>1. keyed'[k] = {[row EXCEPT !.author = p.author] : row \in keyed[k]}
        BY <1>1, <3>1, <3>2, <3>5 DEF ScheduleInv, ScheduleShape
      <4>2. ASSUME NEW old \in keyed[k], NEW new \in keyed'[k]
            PROVE  new.at = old.at /\ new.author = p.author
        <5>1. PICK row \in keyed[k] : new = [row EXCEPT !.author = p.author]
          BY <4>1, <4>2
        <5>2. row = old /\ row \in Rows
          BY <1>1, <3>1, <3>5 DEF OneRow
        <5> QED BY <5>1, <5>2 DEF Rows
      <4>3. keyed'[k] # NoRun
        BY <3>5, <4>1 DEF NoRun
      <4>4. p = [author |-> p.author, key |-> k]
        BY <3>1, <3>5
      <4> QED BY <4>2, <4>3, <4>4
    <3>6. CASE keyed[k] = NoRun
      BY <3>6 DEF NoRun
    <3> QED BY <3>4, <3>5, <3>6
  <2> QED BY <1>1, <2>1, <2>2, <2>3 DEF ScheduleNext, Tick, resolveIdempotency, PublishStops,
                                       ReadLastRun, shouldRun, scheduleVars
<1>2. ASSUME ScheduleInv, OneRow, [ScheduleNext]_scheduleVars
      PROVE  [\A k \in Key : Kept(k)]_scheduleVars
  BY <1>1, <1>2
<1> HIDE DEF Kept
<1>3. ScheduleSpec => [][\A k \in Key : Kept(k)]_scheduleVars
  BY <1>2, ScheduleSafe, OneRowSafe, PTL DEF ScheduleSpec
<1> QED BY <1>3 DEF RunChangesHandsByRaceOnly, Kept

=============================================================================
