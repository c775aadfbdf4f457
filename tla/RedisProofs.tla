----------------------------- MODULE RedisProofs -----------------------------
(***************************************************************************)
(* Proofs about what is kept in Redis: dashboard sessions, for any number  *)
(* of calls and tokens, any lifetimes and any failures, and the counters   *)
(* of the rate limiter, for any limit, window and number of calls.         *)
(*                                                                         *)
(* The table of sessions is sound by itself: a row is inserted once and a  *)
(* revocation is never undone.  What takes an argument is the cache, which *)
(* calls fill from what they read earlier; CacheSound says what of it may  *)
(* be trusted.                                                             *)
(***************************************************************************)
EXTENDS DashboardProperties, RateLimiter, FiniteSetTheorems, TLAPS

Creating(c) == step[c] \in {"insert", "set"}

\* A call that knows of a session knows one that was issued; one that is being created
\* is not issued yet, and nobody else creates it.
CallsSound ==
    \A c \in Caller :
        LET k == local[c].token
        IN  /\ step[c] = "insert" => rows[k] = NoSession
            /\ step[c] = "set" => rows[k] # NoSession /\ k \notin issued
            /\ step[c] \in {"ttl", "find", "fill", "del"} => k \in issued
            /\ step[c] = "del" => rows[k].isRevoked
            /\ answer[c] \in {"author", "unauthorized"} => k \in issued
            /\ \A d \in Caller : Creating(c) /\ Creating(d) /\ local[d].token = k => c = d

\* A token that was issued has a row, and a revoked one a revoked row.
RowsSound ==
    /\ revoked \subseteq issued
    /\ \A k \in issued : rows[k] # NoSession
    /\ \A k \in revoked : rows[k].isRevoked

\* A revoked session that no fill raced with is not cached, and no call is about to
\* cache it.
CacheSound ==
    /\ \A k \in revoked \ raced : cache[k] = 0
    /\ \A c \in Caller :
         LET k == local[c].token
         IN  /\ step[c] = "fill" /\ k \in revoked => k \in raced
             /\ step[c] \in {"ttl", "find", "fill"} /\ local[c].after => k \in revoked
             /\ step[c] = "ttl" /\ local[c].after => k \in raced

DashInv == DashTypeOK /\ CallsSound /\ RowsSound /\ CacheSound
             /\ RevokedComesBackOnlyByRace /\ RefusedForCause

USE DEF Creating

-----------------------------------------------------------------------------

LEMMA DashInitInv == DashInit => DashInv
  BY SecondAssumption DEF DashInit, DashInv, DashTypeOK, Remembered, CallsSound, RowsSound, CacheSound,
     RevokedComesBackOnlyByRace, RefusedForCause, Accepted, Answers, SessionRow

LEMMA Products == \A m, n \in Nat : m * n \in Nat
  OBVIOUS

\* What CacheSet stores is a time.
LEMMA CacheSetTyped ==
    ASSUME DashTypeOK, NEW k \in Token, NEW n \in Nat
    PROVE  CacheSet(k, n) \in [Token -> Nat]
<1>1. n * SECOND \in Nat  BY Products, SecondAssumption
<1>2. clock + n * SECOND \in Nat  BY <1>1 DEF DashTypeOK
<1> QED  BY <1>2 DEF DashTypeOK, CacheSet

LEMMA LaggedTyped ==
    ASSUME DashTypeOK, NEW c \in Caller
    PROVE  Lagged(c) \in [Token -> Nat]
<1> DEFINE r == local[c].read
<1>1. r \in Nat /\ local[c].token \in Token  BY DEF DashTypeOK, Remembered
<1>2. clock - r > lag[local[c].token] => clock - r \in Nat  BY <1>1 DEF DashTypeOK
<1> QED  BY <1>1, <1>2 DEF DashTypeOK, Lagged

LEMMA RemainingTyped ==
    ASSUME DashTypeOK, NEW row \in SessionRow, ~Refuses(row)
    PROVE  RemainingSeconds(row) \in Nat
<1>1. row.expiresAt - clock \in Nat \ {0}  BY DEF Refuses, SessionRow, DashTypeOK
<1>2. row.expiresAt - clock + SECOND - 1 \in Nat  BY <1>1, SecondAssumption
<1>3. \A n \in Nat, m \in Nat \ {0} : n \div m \in Nat  OBVIOUS
<1> QED  BY <1>2, <1>3, SecondAssumption DEF RemainingSeconds

LEMMA RowsDiffer == \A row \in SessionRow : row # NoSession
  BY SecondAssumption DEF SessionRow

\* A revocation changes the mark of one row and its time not.
LEMMA RevokeEffect ==
    ASSUME DashInv, NEW c \in Caller, NEW k \in Token, Revoke(c, k)
    PROVE  /\ k \in issued
           /\ rows[k] \in SessionRow
           /\ rows' \in [Token -> SessionRow \cup {NoSession}]
           /\ rows'[k].isRevoked /\ rows'[k].expiresAt = rows[k].expiresAt
           /\ rows'[k] # NoSession
           /\ \A j \in Token : j # k => rows'[j] = rows[j]
<1>1. k \in issued /\ rows' = [rows EXCEPT ![k].isRevoked = TRUE]  BY DEF Revoke
<1>2. rows[k] \in SessionRow  BY <1>1 DEF DashInv, DashTypeOK, RowsSound
<1> DEFINE new == [rows[k] EXCEPT !.isRevoked = TRUE]
<1>3. new \in SessionRow  BY <1>2 DEF SessionRow
<1>4. new.isRevoked  BY <1>2 DEF SessionRow
<1>10. new.expiresAt = rows[k].expiresAt  BY <1>2 DEF SessionRow
<1>5. rows' = [rows EXCEPT ![k] = new]  BY <1>1
<1> HIDE DEF new
<1>6. new # NoSession  BY <1>3, RowsDiffer
<1>7. rows \in [Token -> SessionRow \cup {NoSession}]  BY DEF DashInv, DashTypeOK
<1>8. rows' \in [Token -> SessionRow \cup {NoSession}]  BY <1>3, <1>5, <1>7
<1>9. rows'[k] = new  BY <1>5, <1>7
<1>11. \A j \in Token : j # k => rows'[j] = rows[j]  BY <1>5, <1>7
<1> QED  BY <1>1, <1>2, <1>4, <1>6, <1>8, <1>9, <1>10, <1>11

\* Each step keeps the types.
LEMMA DashTypes ==
    ASSUME DashInv, NEW c \in Caller,
           \/ \E k \in Token, ttl \in TtlSeconds : Create(c, k, ttl)
           \/ \E k \in Token : Validate(c, k) \/ Revoke(c, k)
           \/ CreateRow(c) \/ CreateSet(c) \/ ValidateTtl(c) \/ ValidateFind(c)
           \/ ValidateFill(c) \/ RevokeDel(c) \/ StoreError(c)
    PROVE  DashTypeOK'
<1> USE SecondAssumption DEF DashInv, DashTypeOK, Remembered, SessionRow, Answers, Ended, Goes
<1>1. CASE \E k \in Token, ttl \in TtlSeconds : Create(c, k, ttl)  BY <1>1 DEF Create
<1>2. CASE \E k \in Token : Validate(c, k)  BY <1>2 DEF Validate
<1>3. CASE \E k \in Token : Revoke(c, k)
  <2>1. PICK k \in Token : Revoke(c, k)  BY <1>3
  <2>2. rows' \in [Token -> SessionRow \cup {NoSession}]  BY <2>1, RevokeEffect
  <2> QED  BY <2>1, <2>2 DEF Revoke
<1>5. CASE CreateRow(c)
  <2>1. local[c].seconds * SECOND \in Nat  BY Products
  <2>2. local[c].read + local[c].seconds * SECOND \in Nat  BY <2>1
  <2> QED  BY <1>5, <2>2 DEF CreateRow
<1>6. CASE CreateSet(c)  BY <1>6, CacheSetTyped, LaggedTyped DEF CreateSet
<1>7. CASE ValidateTtl(c)  BY <1>7 DEF ValidateTtl
<1>8. CASE ValidateFind(c)
  <2> DEFINE row == rows[local[c].token]
  <2>1. row # NoSession => row \in SessionRow  OBVIOUS
  <2>2. ~Refuses(row) => RemainingSeconds(row) \in Nat  BY <2>1, RemainingTyped DEF Refuses
  <2>3. /\ step' \in [Caller -> {"idle", "insert", "set", "ttl", "find", "fill", "del"}]
        /\ answer' \in [Caller -> {"none", "created", "author", "unauthorized", "revoked", "error"}]
        /\ UNCHANGED <<clock, errors, rows, cache, issued, revoked, raced, lag>>
    BY <1>8 DEF ValidateFind
  <2>4. local' \in [Caller -> Remembered]
    <3>1. CASE Refuses(row)  BY <1>8, <3>1 DEF ValidateFind
    <3>2. CASE ~Refuses(row)
      <4>1. local' = [local EXCEPT ![c].read = clock, ![c].seconds = RemainingSeconds(row)]
        BY <1>8, <3>2 DEF ValidateFind
      <4>2. RemainingSeconds(row) \in Nat  BY <2>2, <3>2
      <4>3. [local[c] EXCEPT !.read = clock, !.seconds = RemainingSeconds(row)] \in Remembered
        BY <4>2
      <4>4. local' = [local EXCEPT ![c] = [local[c] EXCEPT !.read = clock,
                                                          !.seconds = RemainingSeconds(row)]]
        BY <4>1
      <4> QED  BY <4>3, <4>4
    <3> QED  BY <3>1, <3>2
  <2> QED  BY <2>3, <2>4
<1>9. CASE ValidateFill(c)  BY <1>9, CacheSetTyped, LaggedTyped DEF ValidateFill
<1>10. CASE RevokeDel(c)  BY <1>10 DEF RevokeDel
<1>11. CASE StoreError(c)  BY <1>11 DEF StoreError
<1> QED
  BY <1>1, <1>2, <1>3, <1>5, <1>6, <1>7, <1>8, <1>9, <1>10, <1>11

\* The calls.  A call changes its own slot, at most the row and the key of its token, and
\* of the histories those of its token.
LEMMA CallStep ==
    ASSUME DashInv, NEW c \in Caller,
           \/ \E k \in Token, ttl \in TtlSeconds : Create(c, k, ttl)
           \/ \E k \in Token : Validate(c, k) \/ Revoke(c, k)
           \/ CreateRow(c) \/ CreateSet(c) \/ ValidateTtl(c) \/ ValidateFind(c)
           \/ ValidateFill(c) \/ RevokeDel(c) \/ StoreError(c)
    PROVE  DashInv'
<1>1. DashTypeOK'  BY DashTypes
<1> USE DEF DashInv, DashTypeOK, CallsSound, RowsSound, CacheSound, RevokedComesBackOnlyByRace,
            RefusedForCause, Accepted, Remembered, Ended, Goes
<1>2. CASE \E k \in Token, ttl \in TtlSeconds : Create(c, k, ttl)
  BY <1>1, <1>2 DEF Create
<1>3. CASE \E k \in Token : Validate(c, k)
  <2>1. PICK k \in Token : Validate(c, k)  BY <1>3
  <2>2. k \in revoked \ raced => ~Cached(k)  BY DEF Cached
  <2>3. /\ k \in issued
        /\ local'[c].token = k /\ (local'[c].after <=> k \in revoked)
        /\ step'[c] = IF Cached(k) THEN "ttl" ELSE "find"
        /\ answer'[c] = "none"
        /\ \A d \in Caller : d # c => /\ step'[d] = step[d] /\ answer'[d] = answer[d]
                                     /\ local'[d] = local[d]
        /\ UNCHANGED <<clock, rows, cache, issued, revoked, raced>>
    BY <2>1 DEF Validate
  <2>4. CallsSound'  BY <2>3
  <2>5. RowsSound'  BY <2>3
  <2>6. CacheSound'  BY <2>2, <2>3
  <2>7. RevokedComesBackOnlyByRace' /\ RefusedForCause'  BY <2>3
  <2> QED  BY <1>1, <2>4, <2>5, <2>6, <2>7
<1>4. CASE \E k \in Token : Revoke(c, k)
  <2>1. PICK k \in Token : Revoke(c, k)  BY <1>4
  <2>2. /\ local'[c].token = k /\ ~local'[c].after
        /\ step'[c] = "del" /\ answer'[c] = "none"
        /\ \A d \in Caller : d # c => /\ step'[d] = step[d] /\ answer'[d] = answer[d]
                                     /\ local'[d] = local[d]
        /\ UNCHANGED <<clock, cache, issued, revoked, raced>>
    BY <2>1 DEF Revoke
  <2>3. /\ k \in issued
        /\ rows'[k].isRevoked /\ rows'[k].expiresAt = rows[k].expiresAt
        /\ rows'[k] # NoSession
        /\ \A j \in Token : j # k => rows'[j] = rows[j]
    BY <2>1, RevokeEffect
  <2>4. CallsSound'
    <3> SUFFICES ASSUME NEW d \in Caller
                 PROVE  LET j == local'[d].token
                        IN  /\ step'[d] = "insert" => rows'[j] = NoSession
                            /\ step'[d] = "set" => rows'[j] # NoSession /\ j \notin issued'
                            /\ step'[d] \in {"ttl", "find", "fill", "del"} => j \in issued'
                            /\ step'[d] = "del" => rows'[j].isRevoked
                            /\ answer'[d] \in {"author", "unauthorized"} => j \in issued'
                            /\ \A e \in Caller :
                                 (step'[d] \in {"insert", "set"} /\ step'[e] \in {"insert", "set"}
                                    /\ local'[e].token = j) => d = e
      OBVIOUS
    <3>1. rows[k] # NoSession  BY <2>3
    <3>2. CASE d = c  BY <2>2, <2>3, <3>2
    <3>3. CASE d # c
      <4> DEFINE j == local[d].token
      <4>1. j = k \/ rows'[j] = rows[j]  BY <2>3
      <4> QED  BY <2>2, <2>3, <3>1, <3>3, <4>1
    <3> QED  BY <3>2, <3>3
  <2>5. RowsSound'  BY <2>2, <2>3
  <2>6. CacheSound'  BY <2>2
  <2>7. RevokedComesBackOnlyByRace'  BY <2>2
  <2>8. RefusedForCause'  BY <2>2, <2>3
  <2> QED  BY <1>1, <2>4, <2>5, <2>6, <2>7, <2>8
<1>5. CASE CreateRow(c)
  <2> DEFINE k == local[c].token
             new == [expiresAt |-> local[c].read + local[c].seconds * SECOND, isRevoked |-> FALSE]
  <2>1. rows[k] = NoSession /\ k \notin issued /\ k \notin revoked  BY <1>5 DEF CreateRow
  <2>2. new # NoSession
    <3>1. local[c].seconds * SECOND \in Nat  BY Products, SecondAssumption
    <3>2. local[c].read + local[c].seconds * SECOND \in Nat  BY <3>1
    <3>3. new \in SessionRow  BY <3>2 DEF SessionRow
    <3> QED  BY <3>3, RowsDiffer
  <2>3. /\ step'[c] = "set" /\ answer'[c] = "none" /\ rows'[k] = new
        /\ \A d \in Caller : d # c => step'[d] = step[d] /\ answer'[d] = answer[d]
        /\ \A j \in Token : j # k => rows'[j] = rows[j]
        /\ UNCHANGED <<clock, cache, issued, local, revoked, raced>>
    BY <1>5 DEF CreateRow
  <2> HIDE DEF new
  <2>4. CallsSound'
    <3>1. step[c] = "insert"  BY <1>5 DEF CreateRow
    <3>2. \A d \in Caller : d # c /\ step[d] \in {"insert", "set"} => local[d].token # k  BY <3>1
    <3>3. \A d \in Caller : d # c /\ rows'[local[d].token] # rows[local[d].token]
                              => local[d].token = k
      BY <2>3
    <3>4. \A d \in Caller : local[d].token = k => step[d] \notin {"ttl", "find", "fill", "del"}
      BY <2>1
    <3> QED  BY <2>1, <2>2, <2>3, <3>1, <3>2, <3>3, <3>4
  <2>5. RowsSound'  BY <2>1, <2>3
  <2>6. CacheSound'  BY <2>3
  <2>7. RevokedComesBackOnlyByRace'  BY <2>3
  <2>8. RefusedForCause'
    <3>1. \A j \in issued : rows'[j] = rows[j]  BY <2>1, <2>3
    <3>2. \A d \in Caller : answer[d] = "unauthorized" => local[d].token \in issued
      OBVIOUS
    <3> QED  BY <2>3, <3>1, <3>2
  <2> QED  BY <1>1, <2>4, <2>5, <2>6, <2>7, <2>8
<1>6. CASE CreateSet(c)  BY <1>1, <1>6 DEF CreateSet, CacheSet
<1>7. CASE ValidateTtl(c)  BY <1>1, <1>7 DEF ValidateTtl
<1>8. CASE ValidateFind(c)
  <2> DEFINE k == local[c].token
  <2>1. step[c] = "find" /\ k \in issued /\ rows[k] # NoSession  BY <1>8 DEF ValidateFind
  <2>2. k \in revoked => Refuses(rows[k])  BY DEF Refuses
  <2>3. /\ local'[c].token = k /\ local'[c].after = local[c].after /\ local'[c].read = clock
        /\ \/ Refuses(rows[k]) /\ step'[c] = "idle" /\ answer'[c] = "unauthorized"
           \/ ~Refuses(rows[k]) /\ step'[c] = "fill" /\ answer'[c] = "none"
        /\ \A d \in Caller : d # c => /\ step'[d] = step[d] /\ answer'[d] = answer[d]
                                     /\ local'[d] = local[d]
        /\ UNCHANGED <<clock, rows, cache, issued, revoked, raced>>
    BY <1>8 DEF ValidateFind
  <2>4. CallsSound'  BY <2>1, <2>3
  <2>5. RowsSound'  BY <2>3
  <2>6. CacheSound'  BY <2>1, <2>2, <2>3
  <2>7. RevokedComesBackOnlyByRace'  BY <2>3
  <2>8. RefusedForCause'  BY <2>1, <2>3 DEF Refuses
  <2> QED  BY <1>1, <2>4, <2>5, <2>6, <2>7, <2>8
<1>9. CASE ValidateFill(c)  BY <1>1, <1>9 DEF ValidateFill, CacheSet
<1>10. CASE RevokeDel(c)  BY <1>1, <1>10 DEF RevokeDel, Filling
<1>11. CASE StoreError(c)  BY <1>1, <1>11 DEF StoreError
<1> QED
  BY <1>2, <1>3, <1>4, <1>5, <1>6, <1>7, <1>8, <1>9, <1>10, <1>11

LEMMA DashNextInv == DashInv /\ [DashNext]_dashVars => DashInv'
<1> SUFFICES ASSUME DashInv, [DashNext]_dashVars PROVE DashInv'
  OBVIOUS
<1> USE DEF DashInv, DashTypeOK, CallsSound, RowsSound, CacheSound, RevokedComesBackOnlyByRace,
            RefusedForCause, Accepted
<1>1. CASE \E k \in Token : CacheLoss(k)  BY <1>1 DEF CacheLoss
<1>2. CASE ClockTick  BY <1>2 DEF ClockTick
<1>3. CASE UNCHANGED dashVars  BY <1>3 DEF dashVars
<1>4. CASE \E c \in Caller :
         \/ \E k \in Token, ttl \in TtlSeconds : Create(c, k, ttl)
         \/ \E k \in Token : Validate(c, k) \/ Revoke(c, k)
         \/ CreateRow(c) \/ CreateSet(c)
         \/ ValidateTtl(c) \/ ValidateFind(c) \/ ValidateFill(c)
         \/ RevokeDel(c) \/ StoreError(c)
  BY <1>4, CallStep
<1> QED  BY <1>1, <1>2, <1>3, <1>4 DEF DashNext

-----------------------------------------------------------------------------

THEOREM DashSafe == DashSpec => []DashInv
  BY DashInitInv, DashNextInv, PTL DEF DashSpec

\* Rows, cache and calls keep their types, whatever fails.
THEOREM DashTypeSafe == DashSpec => []DashTypeOK
  BY DashSafe, PTL DEF DashInv

\* For any number of calls in any number of processes: after revoke has returned, a
\* session gets in again only if a fill raced with the revocation
\* (session-store.ts:71-98).
THEOREM RevokedComesBackOnlyByRaceHolds == DashSpec => []RevokedComesBackOnlyByRace
  BY DashSafe, PTL DEF DashInv

\* Nobody is turned away but for what his row says (session-store.ts:71-80).
THEOREM RefusedForCauseHolds == DashSpec => []RefusedForCause
  BY DashSafe, PTL DEF DashInv

-----------------------------------------------------------------------------
(* Expiry.  A key in Redis outlives its row by less than the rounding to      *)
(* whole seconds and the delay of the SET that wrote it; a call that is about *)
(* to write one has worked that out already.                                  *)

Span(c) == local[c].seconds * SECOND

ExpirySound ==
    /\ \A k \in Token : IF rows[k] = NoSession THEN cache[k] = 0
                       ELSE cache[k] < rows[k].expiresAt + SECOND + lag[k]
    /\ \A c \in Caller :
         LET k == local[c].token
         IN  /\ step[c] # "idle" => local[c].read <= clock
             /\ step[c] \in {"set", "fill"} =>
                  local[c].read + Span(c) < rows[k].expiresAt + SECOND
             /\ step[c] = "ttl" => local[c].read < rows[k].expiresAt + SECOND + lag[k]

ExpiryInv == ExpirySound /\ SessionDiesAtExpiry

LEMMA Ceiling == \A n \in Nat, s \in Nat \ {0} : (n \div s) * s <= n
  OBVIOUS

LEMMA SpanTyped == DashTypeOK => \A c \in Caller : Span(c) \in Nat
  BY Products, SecondAssumption DEF Span, DashTypeOK, Remembered

\* Rounding up adds less than a second.
LEMMA RemainingRounds ==
    ASSUME DashTypeOK, NEW row \in SessionRow, ~Refuses(row)
    PROVE  RemainingSeconds(row) * SECOND < row.expiresAt - clock + SECOND
<1> DEFINE n == row.expiresAt - clock + SECOND - 1
<1>1. row.expiresAt - clock \in Nat \ {0} /\ n \in Nat
  BY SecondAssumption DEF Refuses, SessionRow, DashTypeOK, RowsDiffer
<1> HIDE DEF n
<1>2. (n \div SECOND) * SECOND <= n  BY <1>1, Ceiling, SecondAssumption
<1>3. RemainingSeconds(row) * SECOND <= n  BY <1>2 DEF RemainingSeconds, n
<1>4. RemainingSeconds(row) \in Nat  BY RemainingTyped
<1>5. RemainingSeconds(row) * SECOND \in Nat  BY <1>4, Products, SecondAssumption
<1> HIDE DEF RemainingSeconds
<1> QED  BY <1>1, <1>3, <1>5, SecondAssumption DEF n, SessionRow, DashTypeOK

\* A SET that is behind its clock reading adds as much as lag then shows.
LEMMA LaggedEffect ==
    ASSUME DashTypeOK, NEW c \in Caller, lag' = Lagged(c)
    PROVE  /\ \A k \in Token : lag[k] <= lag'[k]
           /\ clock - local[c].read <= lag'[local[c].token]
  BY DEF DashTypeOK, Lagged, Remembered

\* What a call leaves alone.
Others(c) == \A d \in Caller : d # c => /\ step'[d] = step[d] /\ answer'[d] = answer[d]
                                      /\ local'[d] = local[d] /\ Span(d)' = Span(d)

LEMMA SameSpan == \A d \in Caller : local'[d] = local[d] => Span(d)' = Span(d)
  BY DEF Span

\* The rows that are there keep their expiry, the cache and lag are as they were.
StoresStand ==
    /\ \A k \in Token : rows[k] # NoSession =>
          rows'[k] # NoSession /\ rows'[k].expiresAt = rows[k].expiresAt
    /\ \A k \in Token : rows'[k] # NoSession => rows[k] # NoSession
    /\ UNCHANGED <<clock, cache, lag>>

\* What is to be shown of one call after a step.
InTime(c) ==
    LET k == local[c].token
    IN  /\ step[c] # "idle" => local[c].read <= clock
        /\ step[c] \in {"set", "fill"} => local[c].read + Span(c) < rows[k].expiresAt + SECOND
        /\ step[c] = "ttl" => local[c].read < rows[k].expiresAt + SECOND + lag[k]
        /\ answer[c] = "author" => local[c].read < rows[k].expiresAt + SECOND + lag[k]

KeysInTime ==
    \A k \in Token : IF rows[k] = NoSession THEN cache[k] = 0
                     ELSE cache[k] < rows[k].expiresAt + SECOND + lag[k]

LEMMA ExpiryInvIs == ExpiryInv <=> KeysInTime /\ \A c \in Caller : InTime(c)
  BY DEF ExpiryInv, ExpirySound, SessionDiesAtExpiry, Accepted, KeysInTime, InTime

LEMMA ExpiryInvNext ==
    ASSUME KeysInTime', \A c \in Caller : InTime(c)'
    PROVE  ExpiryInv'
  BY DEF ExpiryInv, ExpirySound, SessionDiesAtExpiry, Accepted, KeysInTime, InTime

\* A call that did nothing is in time if its row keeps its expiry and lag grows.
LEMMA InTimeKept ==
    ASSUME DashInv, DashInv', NEW d \in Caller, InTime(d),
           local'[d] = local[d], Span(d)' = Span(d), clock' = clock,
           step'[d] = step[d], answer'[d] = answer[d],
           step[d] \in {"set", "fill", "ttl"} \/ answer[d] = "author" =>
              /\ rows[local[d].token] # NoSession
              /\ rows'[local[d].token].expiresAt = rows[local[d].token].expiresAt
              /\ lag[local[d].token] <= lag'[local[d].token]
    PROVE  InTime(d)'
<1> DEFINE k == local[d].token
<1>1. /\ k \in Token /\ local[d].read \in Nat /\ lag[k] \in Nat /\ lag'[k] \in Nat
      /\ rows[k] # NoSession => rows[k].expiresAt \in Nat
  BY DEF DashInv, DashTypeOK, Remembered, SessionRow
<1>2. local'[d].token = k /\ local'[d].read = local[d].read  OBVIOUS
<1> HIDE DEF k
<1>3. step[d] \in {"ttl"} \/ answer[d] = "author" =>
         local[d].read < rows'[k].expiresAt + SECOND + lag'[k]
  BY <1>1, SecondAssumption DEF InTime, k
<1>4. step[d] \in {"set", "fill"} => local[d].read + Span(d) < rows'[k].expiresAt + SECOND
  BY DEF InTime, k
<1>5. step[d] # "idle" => local[d].read <= clock  BY DEF InTime
<1> QED  BY <1>2, <1>3, <1>4, <1>5 DEF InTime

\* A step of one call that leaves the stores as they are concerns nobody else.
LEMMA OnlyThisCall ==
    ASSUME DashInv, DashInv', ExpiryInv, NEW c \in Caller, StoresStand, Others(c), InTime(c)'
    PROVE  ExpiryInv'
<1>1. KeysInTime'
  <2>1. KeysInTime  BY ExpiryInvIs
  <2> QED  BY <2>1 DEF KeysInTime, StoresStand
<1>2. ASSUME NEW d \in Caller, d # c PROVE InTime(d)'
  <2> DEFINE k == local[d].token
  <2>1. InTime(d)  BY ExpiryInvIs
  <2>2. k \in Token  BY DEF DashInv, DashTypeOK, Remembered
  <2>3. step[d] \in {"set", "fill", "ttl"} \/ answer[d] = "author" => rows[k] # NoSession
    BY <2>2 DEF DashInv, CallsSound, RowsSound
  <2>4. rows[k] # NoSession => rows'[k].expiresAt = rows[k].expiresAt  BY <2>2 DEF StoresStand
  <2>5. /\ step'[d] = step[d] /\ answer'[d] = answer[d] /\ local'[d] = local[d]
        /\ Span(d)' = Span(d) /\ clock' = clock /\ lag' = lag
    BY <1>2 DEF Others, StoresStand
  <2>6. lag[k] <= lag'[k]  BY <2>2, <2>5 DEF DashInv, DashTypeOK
  <2> QED  BY <2>1, <2>3, <2>4, <2>5, <2>6, InTimeKept
<1> QED  BY <1>1, <1>2, ExpiryInvNext

LEMMA ExpiryStep ==
    ASSUME DashInv, DashInv', ExpiryInv, NEW c \in Caller,
           \/ \E k \in Token, ttl \in TtlSeconds : Create(c, k, ttl)
           \/ \E k \in Token : Validate(c, k) \/ Revoke(c, k)
           \/ CreateRow(c) \/ CreateSet(c) \/ ValidateTtl(c) \/ ValidateFind(c)
           \/ ValidateFill(c) \/ RevokeDel(c) \/ StoreError(c)
    PROVE  ExpiryInv'
<1> USE SecondAssumption, SpanTyped, SameSpan
<1> USE DEF DashInv, DashTypeOK, CallsSound, RowsSound, ExpiryInv, ExpirySound,
            SessionDiesAtExpiry, Accepted, Remembered, SessionRow, Ended, Goes
<1>1. CASE \E k \in Token, ttl \in TtlSeconds : Create(c, k, ttl)
  <2>1. StoresStand /\ Others(c)  BY <1>1 DEF Create, StoresStand, Others
  <2>2. step'[c] = "insert" /\ answer'[c] = "none" /\ local'[c].read <= clock'
    BY <1>1 DEF Create
  <2>3. InTime(c)'  BY <2>2 DEF InTime
  <2> QED  BY <2>1, <2>3, OnlyThisCall
<1>2. CASE \E k \in Token : Validate(c, k)
  <2>1. PICK k \in Token : Validate(c, k)  BY <1>2
  <2>2. StoresStand /\ Others(c)  BY <2>1 DEF Validate, StoresStand, Others
  <2>3. /\ k \in issued /\ UNCHANGED <<clock, rows, lag>>
        /\ local'[c].token = k /\ local'[c].read = clock /\ answer'[c] = "none"
        /\ step'[c] \in {"ttl", "find"} /\ (step'[c] = "ttl" => clock < cache[k])
    BY <2>1 DEF Validate, Cached
  <2>4. cache[k] < rows[k].expiresAt + SECOND + lag[k]  BY <2>3
  <2>5. InTime(c)'  BY <2>3, <2>4 DEF InTime
  <2> QED  BY <2>2, <2>5, OnlyThisCall
<1>3. CASE \E k \in Token : Revoke(c, k)
  <2>1. PICK k \in Token : Revoke(c, k)  BY <1>3
  <2>2. /\ Others(c) /\ UNCHANGED <<clock, cache, lag>>
        /\ step'[c] = "del" /\ answer'[c] = "none" /\ local'[c].read = clock
    BY <2>1 DEF Revoke, Others
  <2>3. /\ rows[k] # NoSession /\ rows'[k] # NoSession /\ rows'[k].expiresAt = rows[k].expiresAt
        /\ \A j \in Token : j # k => rows'[j] = rows[j]
    BY <2>1, RevokeEffect
  <2>4. StoresStand  BY <2>2, <2>3 DEF StoresStand
  <2>5. InTime(c)'  BY <2>2 DEF InTime
  <2> QED  BY <2>2, <2>4, <2>5, OnlyThisCall
<1>4. CASE CreateRow(c)
  <2> DEFINE k == local[c].token
  <2>1. /\ rows[k] = NoSession /\ k \notin issued /\ rows'[k].expiresAt = local[c].read + Span(c)
        /\ \A j \in Token : j # k => rows'[j] = rows[j]
        /\ local' = local
        /\ \A d \in Caller : d # c => step'[d] = step[d] /\ answer'[d] = answer[d]
        /\ step'[c] = "set" /\ answer'[c] = "none" /\ local[c].read <= clock
        /\ UNCHANGED <<clock, cache, lag>>
    BY <1>4 DEF CreateRow, Span
  <2>9. \A d \in Caller : Span(d)' = Span(d)  BY <2>1 DEF Span
  <2>2. InTime(c)'
    <3>1. local'[c] = local[c] /\ Span(c)' = Span(c) /\ rows'[local'[c].token] = rows'[k]
      BY <2>1, <2>9
    <3>2. local[c].read + Span(c) < rows'[k].expiresAt + SECOND  BY <2>1
    <3> QED  BY <2>1, <3>1, <3>2 DEF InTime
  <2>3. ASSUME NEW d \in Caller, d # c PROVE InTime(d)'
    <3>1. InTime(d)  BY ExpiryInvIs
    <3>2. CASE local[d].token = k
      <4>1. step[d] \notin {"set", "fill", "ttl"} /\ answer[d] # "author"
        BY <1>4, <2>1, <2>3, <3>2 DEF CreateRow
      <4> QED  BY <2>1, <2>9, <2>3, <3>1, <4>1, InTimeKept
    <3>3. CASE local[d].token # k
      <4>1. rows'[local[d].token] = rows[local[d].token]  BY <2>1, <3>3
      <4>2. step[d] \in {"set", "fill", "ttl"} \/ answer[d] = "author"
              => rows[local[d].token] # NoSession
        OBVIOUS
      <4>3. lag[local[d].token] <= lag'[local[d].token]  BY <2>1
      <4> QED  BY <2>1, <2>9, <2>3, <3>1, <4>1, <4>2, <4>3, InTimeKept
    <3> QED  BY <3>2, <3>3
  <2>4. KeysInTime'  BY <2>1 DEF KeysInTime
  <2> QED  BY <2>2, <2>3, <2>4, ExpiryInvNext
<1>5. CASE CreateSet(c) \/ ValidateFill(c)
  <2> DEFINE k == local[c].token
  <2>1. /\ step[c] \in {"set", "fill"} /\ lag' = Lagged(c) /\ rows' = rows /\ clock' = clock
        /\ cache' = [cache EXCEPT ![k] = clock + Span(c)]
        /\ local' = local
        /\ \A d \in Caller : d # c => step'[d] = step[d] /\ answer'[d] = answer[d]
        /\ step'[c] = "idle"
    BY <1>5 DEF CreateSet, ValidateFill, CacheSet, Span
  <2>9. \A d \in Caller : Span(d)' = Span(d)  BY <2>1 DEF Span
  <2>2. /\ \A j \in Token : lag[j] <= lag'[j]
        /\ clock - local[c].read <= lag'[k]
    BY <2>1, LaggedEffect
  <2>3. rows[k] # NoSession /\ local[c].read + Span(c) < rows[k].expiresAt + SECOND  BY <2>1
  <2>4. cache'[k] < rows[k].expiresAt + SECOND + lag'[k]  BY <2>1, <2>2, <2>3
  <2>5. local[c].read < rows[k].expiresAt + SECOND + lag'[k]  BY <2>2, <2>3
  <2>6. KeysInTime'
    <3>1. ASSUME NEW j \in Token, rows[j] # NoSession
          PROVE  cache'[j] < rows[j].expiresAt + SECOND + lag'[j]
      <4>1. CASE j = k  BY <2>4, <4>1
      <4>2. CASE j # k
        <5>1. cache'[j] = cache[j] /\ cache[j] < rows[j].expiresAt + SECOND + lag[j]
          BY <2>1, <3>1, <4>2
        <5> QED  BY <5>1, <2>2, <3>1
      <4> QED  BY <4>1, <4>2
    <3>2. \A j \in Token : rows[j] = NoSession => cache'[j] = 0  BY <2>1, <2>3
    <3> QED  BY <2>1, <3>1, <3>2 DEF KeysInTime
  <2>7. InTime(c)'
    <3>1. local'[c] = local[c]  BY <2>1
    <3> QED  BY <2>1, <2>5, <3>1 DEF InTime
  <2>8. ASSUME NEW d \in Caller, d # c PROVE InTime(d)'
    <3> DEFINE j == local[d].token
    <3>1. InTime(d)  BY ExpiryInvIs
    <3>2. step[d] \in {"set", "fill", "ttl"} \/ answer[d] = "author" => rows[j] # NoSession
      OBVIOUS
    <3>3. lag[j] <= lag'[j]  BY <2>2
    <3> QED  BY <2>1, <2>9, <2>8, <3>1, <3>2, <3>3, InTimeKept
  <2> QED  BY <2>6, <2>7, <2>8, ExpiryInvNext
<1>6. CASE ValidateTtl(c) \/ StoreError(c)
  BY <1>6 DEF ValidateTtl, StoreError, Span
<1>7. CASE ValidateFind(c)
  <2> DEFINE k == local[c].token
  <2>1. StoresStand /\ Others(c)  BY <1>7 DEF ValidateFind, StoresStand, Others
  <2>2. /\ UNCHANGED <<rows, clock>> /\ rows[k] # NoSession
        /\ local'[c].token = k /\ local'[c].read = clock /\ answer'[c] # "author"
        /\ \/ step'[c] = "idle"
           \/ /\ step'[c] = "fill" /\ ~Refuses(rows[k])
              /\ local'[c].seconds = RemainingSeconds(rows[k])
    BY <1>7 DEF ValidateFind
  <2>3. rows[k] \in SessionRow  BY <2>2
  <2>4. step'[c] = "fill" => Span(c)' < rows[k].expiresAt - clock + SECOND
    BY <2>2, <2>3, RemainingRounds DEF Span
  <2>5. Span(c)' \in Nat  BY Products DEF Span
  <2>6. InTime(c)'  BY <2>2, <2>3, <2>4, <2>5 DEF InTime
  <2> QED  BY <2>1, <2>6, OnlyThisCall
<1>8. CASE RevokeDel(c)
  BY <1>8 DEF RevokeDel, Span
<1> QED
  BY <1>1, <1>2, <1>3, <1>4, <1>5, <1>6, <1>7, <1>8

LEMMA ExpiryNext == DashInv /\ DashInv' /\ ExpiryInv /\ [DashNext]_dashVars => ExpiryInv'
<1> SUFFICES ASSUME DashInv, DashInv', ExpiryInv, [DashNext]_dashVars PROVE ExpiryInv'
  OBVIOUS
<1> USE DEF DashInv, DashTypeOK, CallsSound, RowsSound, ExpiryInv, ExpirySound,
            SessionDiesAtExpiry, Accepted, Remembered, SessionRow, Span
<1>1. CASE \E k \in Token : CacheLoss(k)
  BY <1>1, SecondAssumption DEF CacheLoss
<1>2. CASE ClockTick  BY <1>2 DEF ClockTick
<1>3. CASE UNCHANGED dashVars  BY <1>3 DEF dashVars
<1>4. CASE \E c \in Caller :
         \/ \E k \in Token, ttl \in TtlSeconds : Create(c, k, ttl)
         \/ \E k \in Token : Validate(c, k) \/ Revoke(c, k)
         \/ CreateRow(c) \/ CreateSet(c)
         \/ ValidateTtl(c) \/ ValidateFind(c) \/ ValidateFill(c)
         \/ RevokeDel(c) \/ StoreError(c)
  BY <1>4, ExpiryStep
<1> QED  BY <1>1, <1>2, <1>3, <1>4 DEF DashNext

\* However it got in, a session dies at its expiry, but for the rounding and the delay of
\* one SET, for every length of a second and every lifetime (session-store.ts:41-51, 82).
THEOREM SessionDiesAtExpiryHolds == DashSpec => []SessionDiesAtExpiry
<1>1. DashInit => ExpiryInv
  BY DEF DashInit, ExpiryInv, ExpirySound, SessionDiesAtExpiry, Accepted
<1>2. ExpiryInv => SessionDiesAtExpiry  BY DEF ExpiryInv
<1> QED  BY <1>1, <1>2, ExpiryNext, DashSafe, PTL DEF DashSpec

-----------------------------------------------------------------------------
(* The rate limiter *)

\* What a division is.
LEMMA Division ==
    ASSUME NEW n \in Nat, NEW w \in Nat \ {0}
    PROVE  /\ n \div w \in Nat
           /\ (n \div w) * w <= n /\ n < ((n \div w) * w) + w
<1>1. n \div w \in Int /\ n % w \in 0..(w - 1) /\ n = w * (n \div w) + (n % w)
  OBVIOUS
<1>2. n \div w >= 0
  OBVIOUS
<1> QED BY <1>1, <1>2

LEMMA Quotient ==
    ASSUME NEW n \in Nat, NEW w \in Nat \ {0}, NEW k \in Nat, k * w <= n, n < (k * w) + w
    PROVE  n \div w = k
<1> DEFINE q == n \div w
<1>1. q \in Nat /\ q * w <= n /\ n < (q * w) + w
  BY Division
<1> HIDE DEF q
<1>2. CASE q < k
  <2>1. (q + 1) * w <= k * w
    BY <1>1, <1>2
  <2>2. (q + 1) * w = (q * w) + w
    BY <1>1
  <2> QED BY <1>1, <2>1, <2>2
<1>3. CASE k < q
  <2>1. (k + 1) * w <= q * w
    BY <1>1, <1>3
  <2>2. (k + 1) * w = (k * w) + w
    OBVIOUS
  <2> QED BY <1>1, <2>1, <2>2
<1> QED BY <1>1, <1>2, <1>3 DEF q

\* Every moment is in a window.
LEMMA MomentHasWindow ==
    ASSUME NEW t \in 0..MaxTime
    PROVE  t \div WINDOW \in Window
<1> DEFINE k == t \div WINDOW
           l == MaxTime \div WINDOW
<1>1. /\ k \in Nat /\ k * WINDOW <= t
      /\ l \in Nat /\ MaxTime < (l * WINDOW) + WINDOW
  BY LimitAssumption, Division
<1> HIDE DEF k, l
<1>2. CASE l < k
  <2>1. (l + 1) * WINDOW <= k * WINDOW
    BY <1>1, <1>2, LimitAssumption
  <2>2. (l + 1) * WINDOW = (l * WINDOW) + WINDOW
    BY <1>1, LimitAssumption
  <2> QED BY <1>1, <2>1, <2>2, LimitAssumption
<1> QED BY <1>1, <1>2 DEF Window, k, l

\* The lifetime of a key ends two windows after its window begins, or later.
LastsUntil(w) == (w * WINDOW) + (2 * WINDOW)

\* What was counted as long as no INCR came late: the counters that are not gone are the
\* INCRs of their windows, and the grants of a window have each a place in its budget.
CountedInWindow ==
    /\ \A w \in Window : time < LastsUntil(w) => counter[w] = incs[w]
    /\ \A g \in grants : g.nth \in 1..LIMIT /\ g.nth <= incs[g.at \div WINDOW]
    /\ \A g, h \in grants : g.at \div WINDOW = h.at \div WINDOW /\ g.nth = h.nth => g = h
    /\ \A c \in Check : (result[c].done /\ ~result[c].allowed)
                           => incs[result[c].at \div WINDOW] > LIMIT

LimitInv ==
    /\ LimitTypeOK
    /\ \A c \in Check : read[c] <= time
    /\ \A w \in Window : deadline[w] >= LastsUntil(w)
    /\ ~delayed => CountedInWindow

LEMMA LastsLong ==
    ASSUME NEW w \in Window
    PROVE  /\ w * WINDOW \in Nat /\ w * WINDOW <= MaxTime
           /\ LastsUntil(w) \in Nat /\ LastsUntil(w) < Never
<1>1. MaxTime \div WINDOW \in Nat /\ (MaxTime \div WINDOW) * WINDOW <= MaxTime
  BY LimitAssumption, Division
<1>2. w \in Nat /\ w <= MaxTime \div WINDOW
  BY <1>1 DEF Window
<1>3. w * WINDOW \in Nat /\ w * WINDOW <= (MaxTime \div WINDOW) * WINDOW
  BY <1>1, <1>2, LimitAssumption
<1> QED BY <1>1, <1>3, LimitAssumption DEF LastsUntil, Never

LEMMA LimitInitInv == LimitInit => LimitInv
<1> SUFFICES ASSUME LimitInit PROVE LimitInv
  OBVIOUS
<1>1. LimitTypeOK
  <2>1. Never \in Nat /\ 0 \in 0..MaxTime /\ 0 \in 0..MaxLost /\ 0 \in 0..LIMIT
    BY LimitAssumption DEF Never
  <2>2. Never \in 0..Never
    BY <2>1
  <2> QED BY <2>1, <2>2 DEF LimitInit, LimitTypeOK, NoResult
<1>2. \A w \in Window : deadline[w] >= LastsUntil(w)
  <2>1. Never \in Nat
    BY LimitAssumption DEF Never
  <2> QED BY <2>1, LastsLong DEF LimitInit
<1>3. CountedInWindow
  BY DEF LimitInit, CountedInWindow, NoResult
<1> QED BY <1>1, <1>2, <1>3 DEF LimitInit, LimitInv

\* A step that neither counts nor forgets.
LEMMA BeginStep ==
    ASSUME LimitInv, NEW c \in Check, CheckBegin(c) \/ RedisError(c)
    PROVE  LimitInv'
<1>1. LimitTypeOK'
  <2>1. NoResult \in
          [allowed : BOOLEAN, remaining : 0..LIMIT, at : 0..MaxTime, done : BOOLEAN]
    BY LimitAssumption DEF NoResult
  <2>2. CASE CheckBegin(c)
    BY <2>1, <2>2 DEF LimitInv, LimitTypeOK, CheckBegin
  <2>3. CASE RedisError(c)
    BY <2>1, <2>3, LimitAssumption DEF LimitInv, LimitTypeOK, RedisError
  <2> QED BY <2>2, <2>3
<1>2. UNCHANGED <<time, counter, deadline, incs, grants, delayed>>
  BY DEF CheckBegin, RedisError
<1>3. \A d \in Check : read'[d] <= time'
  BY DEF LimitInv, LimitTypeOK, CheckBegin, RedisError
<1>4. \A d \in Check : result'[d].done => result'[d] = result[d]
  BY DEF LimitInv, LimitTypeOK, CheckBegin, RedisError, NoResult
<1>5. CountedInWindow => CountedInWindow'
  BY <1>2, <1>4 DEF CountedInWindow, LastsUntil
<1> QED BY <1>1, <1>2, <1>3, <1>5 DEF LimitInv, LastsUntil

LEMMA IncrStep ==
    ASSUME LimitInv, NEW c \in Check, Incr(c)
    PROVE  LimitInv'
<1> DEFINE w == WindowStart(read[c])
           now == time \div WINDOW
           count == counter[w] + 1
           made == [at |-> time, nth |-> incs'[now]]
<1>1. time \in 0..MaxTime /\ read[c] \in 0..MaxTime
  BY DEF LimitInv, LimitTypeOK
<1>2. w \in Window /\ now \in Window
  BY <1>1, MomentHasWindow DEF WindowStart
<1>3. counter[w] \in Nat /\ incs[now] \in Nat
  BY <1>2 DEF LimitInv, LimitTypeOK
<1>4. /\ counter' = [counter EXCEPT ![w] = count]
      /\ incs' = [incs EXCEPT ![now] = @ + 1]
      /\ result' = [result EXCEPT ![c] = [allowed |-> Allowed(count),
                      remaining |-> Remaining(count), at |-> time, done |-> TRUE]]
      /\ grants' = IF Allowed(count) THEN grants \cup {made} ELSE grants
      /\ delayed' = (delayed \/ w # now)
      /\ UNCHANGED <<time, lost, deadline, read>>
  BY DEF Incr, WindowStart
<1>5. stage' \in [Check -> {"idle", "incr", "expire"}]
  BY DEF LimitInv, LimitTypeOK, Incr
<1>6. Allowed(count) \in BOOLEAN /\ Remaining(count) \in 0..LIMIT
  BY <1>3, LimitAssumption DEF Allowed, Remaining
<1> HIDE DEF w, now, count
<1>7. incs' \in [Window -> Nat] /\ incs'[now] = incs[now] + 1
      /\ \A v \in Window : v # now => incs'[v] = incs[v]
  BY <1>2, <1>3, <1>4 DEF LimitInv, LimitTypeOK
<1>8. LimitTypeOK'
  <2>1. counter' \in [Window -> Nat]
    BY <1>2, <1>3, <1>4 DEF LimitInv, LimitTypeOK, count
  <2>2. result' \in
         [Check -> [allowed : BOOLEAN, remaining : 0..LIMIT, at : 0..MaxTime, done : BOOLEAN]]
    BY <1>1, <1>4, <1>6 DEF LimitInv, LimitTypeOK
  <2>3. grants' \subseteq [at : 0..MaxTime, nth : Nat]
    BY <1>1, <1>2, <1>4, <1>7 DEF LimitInv, LimitTypeOK
  <2>4. delayed' \in BOOLEAN
    BY <1>4 DEF LimitInv, LimitTypeOK
  <2> QED BY <1>4, <1>5, <1>7, <2>1, <2>2, <2>3, <2>4 DEF LimitInv, LimitTypeOK
<1>9. ASSUME ~delayed' PROVE CountedInWindow'
  <2>1. w = now /\ ~delayed /\ CountedInWindow
    BY <1>4, <1>9 DEF LimitInv, LimitTypeOK
  <2>2. time < LastsUntil(now)
    <3>1. now \in Nat /\ time < (now * WINDOW) + WINDOW
      BY <1>1, Division, LimitAssumption DEF now
    <3> QED BY <1>1, <1>2, <3>1, LastsLong, LimitAssumption DEF LastsUntil
  <2>3. count = incs[now] + 1
    BY <1>2, <2>1, <2>2 DEF CountedInWindow, count
  <2>4. ASSUME NEW v \in Window, time' < LastsUntil(v)'  PROVE counter'[v] = incs'[v]
    <3>1. counter[v] = incs[v]
      BY <1>4, <2>1, <2>4 DEF CountedInWindow, LastsUntil
    <3> QED BY <1>2, <1>4, <1>7, <2>1, <2>3, <3>1 DEF LimitInv, LimitTypeOK
  <2>5. \A g \in grants : g.at \div WINDOW \in Window
    BY MomentHasWindow DEF LimitInv, LimitTypeOK
  <2>6. \A g \in grants : /\ g.nth \in 1..LIMIT /\ g.nth <= incs'[g.at \div WINDOW]
                          /\ g.at \div WINDOW = now => g.nth < incs'[now]
    BY <1>3, <1>7, <2>1, <2>5 DEF CountedInWindow, LimitInv, LimitTypeOK
  <2>7. Allowed(count) => /\ made.nth \in 1..LIMIT /\ made.nth = incs'[now]
                          /\ made.at \div WINDOW = now
    BY <1>3, <1>7, <2>3, LimitAssumption DEF Allowed, now
  <2>8. \A g \in grants' : g.nth \in 1..LIMIT /\ g.nth <= incs'[g.at \div WINDOW]
    <3>1. incs'[now] \in Nat
      BY <1>2, <1>7
    <3> QED BY <1>4, <2>6, <2>7, <3>1
  <2>9. ASSUME NEW g \in grants', NEW h \in grants',
               g.at \div WINDOW = h.at \div WINDOW, g.nth = h.nth
        PROVE  g = h
    <3>1. CASE g \in grants /\ h \in grants
      BY <2>1, <2>9, <3>1 DEF CountedInWindow
    <3>2. CASE g \notin grants \/ h \notin grants
      <4>1. incs'[now] \in Nat /\ \A x \in grants : x.nth \in Nat
        BY <1>2, <1>7, <2>6
      <4>2. Allowed(count) /\ (g = made \/ h = made)
            /\ (g \in grants \/ g = made) /\ (h \in grants \/ h = made)
        BY <1>4, <3>2
      <4> HIDE DEF made
      <4>3. \A x \in grants : ~(x.at \div WINDOW = made.at \div WINDOW /\ x.nth = made.nth)
        BY <2>6, <2>7, <4>1, <4>2
      <4> QED BY <2>9, <4>2, <4>3
    <3> QED BY <3>1, <3>2
  <2>10. ASSUME NEW d \in Check, result'[d].done, ~result'[d].allowed
         PROVE  incs'[result'[d].at \div WINDOW] > LIMIT
    <3>1. CASE d = c
      <4>1. result'[d].allowed = Allowed(count) /\ result'[d].at = time
        BY <1>4, <3>1 DEF LimitInv, LimitTypeOK
      <4>2. ~(incs'[now] <= LIMIT)
        BY <1>7, <2>3, <2>10, <4>1 DEF Allowed
      <4>3. incs'[now] \in Nat
        BY <1>2, <1>7
      <4> QED BY <4>1, <4>2, <4>3, LimitAssumption DEF now
    <3>2. CASE d # c
      <4>1. result'[d] = result[d] /\ result[d].at \in 0..MaxTime
        BY <1>4, <3>2 DEF LimitInv, LimitTypeOK
      <4>2. incs[result[d].at \div WINDOW] > LIMIT /\ result[d].at \div WINDOW \in Window
        BY <2>1, <2>10, <4>1, MomentHasWindow DEF CountedInWindow
      <4> QED BY <1>3, <1>7, <4>1, <4>2, LimitAssumption DEF LimitInv, LimitTypeOK
    <3> QED BY <3>1, <3>2
  <2> QED BY <2>4, <2>8, <2>9, <2>10 DEF CountedInWindow
<1> QED BY <1>4, <1>8, <1>9 DEF LimitInv, LastsUntil

LEMMA ExpireStep ==
    ASSUME LimitInv, NEW c \in Check, Expire(c)
    PROVE  LimitInv'
<1> DEFINE w == WindowStart(read[c])
<1>1. time \in 0..MaxTime /\ read[c] \in 0..MaxTime /\ read[c] <= time
  BY DEF LimitInv, LimitTypeOK
<1>2. w \in Window /\ w \in Nat /\ w * WINDOW <= read[c]
  BY <1>1, MomentHasWindow, Division, LimitAssumption DEF WindowStart
<1>3. LastsUntil(w) <= time + (2 * WINDOW) /\ time + (2 * WINDOW) \in 0..Never
  BY <1>1, <1>2, LastsLong, LimitAssumption DEF LastsUntil, Never
<1>4. deadline' \in {deadline, [deadline EXCEPT ![w] = time + (2 * WINDOW)]}
  BY DEF Expire
<1>5. LimitTypeOK'
  BY <1>2, <1>3, <1>4 DEF LimitInv, LimitTypeOK, Expire
<1>6. UNCHANGED <<time, counter, read, result, incs, grants, delayed>>
  BY DEF Expire
<1> HIDE DEF w
<1>7. \A v \in Window : deadline'[v] >= LastsUntil(v)
  BY <1>2, <1>3, <1>4 DEF LimitInv, LimitTypeOK
<1>8. CountedInWindow => CountedInWindow'
  BY <1>6 DEF CountedInWindow, LastsUntil
<1> QED BY <1>5, <1>6, <1>7, <1>8 DEF LimitInv, LastsUntil

LEMMA TimeStep ==
    ASSUME LimitInv, TimePasses
    PROVE  LimitInv'
<1>1. /\ time \in 0..MaxTime /\ time' = time + 1 /\ time' \in 0..MaxTime
      /\ UNCHANGED <<lost, stage, read, result, incs, grants, delayed>>
      /\ counter' = [w \in Window |-> IF deadline[w] <= time + 1 THEN 0 ELSE counter[w]]
      /\ deadline' = [w \in Window |-> IF deadline[w] <= time + 1 THEN Never ELSE deadline[w]]
  BY LimitAssumption DEF LimitInv, LimitTypeOK, TimePasses
<1>2. Never \in Nat
  BY LimitAssumption DEF Never
<1>3. LimitTypeOK'
  BY <1>1, <1>2 DEF LimitInv, LimitTypeOK
<1>4. \A w \in Window : deadline'[w] >= LastsUntil(w)
  BY <1>1, <1>2, LastsLong DEF LimitInv, LimitTypeOK
<1>5. \A w \in Window : time' < LastsUntil(w) => counter'[w] = counter[w] /\ time < LastsUntil(w)
  BY <1>1, LastsLong DEF LimitInv, LimitTypeOK
<1>6. CountedInWindow => CountedInWindow'
  BY <1>1, <1>5 DEF CountedInWindow, LastsUntil
<1>7. \A c \in Check : read'[c] <= time'
  BY <1>1 DEF LimitInv, LimitTypeOK
<1> QED BY <1>1, <1>3, <1>4, <1>6, <1>7 DEF LimitInv, LastsUntil

\* Every step keeps the invariant.
LEMMA LimitStep ==
    ASSUME LimitInv, [LimitNext]_limitVars
    PROVE  LimitInv'
<1>1. ASSUME UNCHANGED limitVars PROVE LimitInv'
  BY <1>1 DEF LimitInv, LimitTypeOK, CountedInWindow, LastsUntil, limitVars
<1> QED BY <1>1, BeginStep, IncrStep, ExpireStep, TimeStep DEF LimitNext

\* And it holds in every state.
LEMMA LimitSafe == LimitSpec => []LimitInv
BY LimitInitInv, LimitStep, PTL DEF LimitSpec

\* The grants of a window each take a place of its budget.
LEMMA BudgetOfWindow ==
    ASSUME LimitInv, CountedInWindow, NEW w \in Nat
    PROVE  LET of == {g \in grants : g.at \div WINDOW = w}
           IN  IsFiniteSet(of) /\ Cardinality(of) \in Nat /\ Cardinality(of) <= LIMIT
<1> DEFINE of == {g \in grants : g.at \div WINDOW = w}
           place == [g \in of |-> g.nth]
<1>1. place \in Injection(of, 1..LIMIT)
  BY DEF CountedInWindow, Injection, IsInjective
<1>2. IsFiniteSet(1..LIMIT) /\ Cardinality(1..LIMIT) = LIMIT
  BY FS_Interval, LimitAssumption
<1>3. IsFiniteSet(of) /\ Cardinality(of) <= LIMIT
  <2> HIDE DEF of, place
  <2> QED BY <1>1, <1>2, FS_Injection
<1> QED BY <1>3, FS_CardinalityType

\* BudgetRespected: no call late, the budget of a window is kept however the calls
\* interleave, and whatever EXPIRE does (rate-limiter.ts:30-41).
THEOREM BudgetRespectedHolds == LimitSpec => []BudgetRespected
<1>1. LimitInv => BudgetRespected
  <2> SUFFICES ASSUME LimitInv, CountedInWindow
               PROVE  /\ \A w \in Window : Granted(w * WINDOW, ((w + 1) * WINDOW) - 1) <= LIMIT
                      /\ \A t \in 0..(MaxTime - WINDOW) :
                            Granted(t + 1, t + WINDOW) <= 2 * LIMIT
    BY DEF LimitInv, BudgetRespected, CountedInWindow
  <2> DEFINE Of(w) == {g \in grants : g.at \div WINDOW = w}
  <2>1. \A g \in grants : g.at \in Nat
    BY DEF LimitInv, LimitTypeOK
  <2>2. ASSUME NEW w \in Window
        PROVE  Granted(w * WINDOW, ((w + 1) * WINDOW) - 1) <= LIMIT
    <3>1. w \in Nat /\ w * WINDOW \in Nat /\ ((w + 1) * WINDOW) - 1 = (w * WINDOW) + WINDOW - 1
      BY LastsLong, LimitAssumption DEF Window
    <3>2. \A g \in grants : g.at \in (w * WINDOW)..(((w + 1) * WINDOW) - 1)
                               => g.at \div WINDOW = w
      BY <2>1, <3>1, Quotient, LimitAssumption
    <3> DEFINE there == {g \in grants : g.at \in (w * WINDOW)..(((w + 1) * WINDOW) - 1)}
    <3>3. there \in SUBSET Of(w)
      BY <3>2
    <3>4. IsFiniteSet(Of(w)) /\ Cardinality(Of(w)) \in Nat /\ Cardinality(Of(w)) <= LIMIT
      BY <3>1, BudgetOfWindow
    <3> HIDE DEF there, Of
    <3>5. Cardinality(there) <= Cardinality(Of(w)) /\ Cardinality(there) \in Nat
      BY <3>3, <3>4, FS_Subset, FS_CardinalityType
    <3> QED BY <3>4, <3>5, LimitAssumption DEF Granted, there
  <2>3. ASSUME NEW t \in 0..(MaxTime - WINDOW)
        PROVE  Granted(t + 1, t + WINDOW) <= 2 * LIMIT
    <3> DEFINE w == (t + 1) \div WINDOW
               there == {g \in grants : g.at \in (t + 1)..(t + WINDOW)}
    <3>1. w \in Nat /\ w * WINDOW <= t + 1 /\ t + 1 < (w * WINDOW) + WINDOW
      BY Division, LimitAssumption
    <3>2. w * WINDOW \in Nat /\ (w + 1) * WINDOW = (w * WINDOW) + WINDOW
      BY <3>1, LimitAssumption
    <3> HIDE DEF w
    <3>3. ASSUME NEW g \in there PROVE g \in Of(w) \cup Of(w + 1)
      <4>1. g.at \in Nat /\ t + 1 <= g.at /\ g.at <= t + WINDOW
        BY <2>1, <3>3, LimitAssumption
      <4>2. CASE g.at < (w * WINDOW) + WINDOW
        BY <3>1, <3>2, <3>3, <4>1, <4>2, Quotient, LimitAssumption
      <4>3. CASE g.at >= (w * WINDOW) + WINDOW
        <5>1. g.at < ((w + 1) * WINDOW) + WINDOW /\ (w + 1) * WINDOW <= g.at
          BY <3>1, <3>2, <4>1, <4>3, LimitAssumption
        <5>2. PICK k \in Nat : k = w + 1
          BY <3>1
        <5>3. g.at \div WINDOW = k
          BY <4>1, <5>1, <5>2, Quotient, LimitAssumption
        <5> QED BY <3>3, <5>2, <5>3
      <4> QED BY <3>2, <4>1, <4>2, <4>3, LimitAssumption
    <3>4. there \in SUBSET (Of(w) \cup Of(w + 1))
      BY <3>3
    <3>5. /\ IsFiniteSet(Of(w)) /\ Cardinality(Of(w)) \in Nat /\ Cardinality(Of(w)) <= LIMIT
          /\ IsFiniteSet(Of(w + 1)) /\ Cardinality(Of(w + 1)) \in Nat
          /\ Cardinality(Of(w + 1)) <= LIMIT
      BY <3>1, BudgetOfWindow
    <3> HIDE DEF there, Of
    <3>6. /\ IsFiniteSet(Of(w) \cup Of(w + 1))
          /\ Cardinality(Of(w) \cup Of(w + 1)) \in Nat
          /\ Cardinality(Of(w) \cup Of(w + 1)) <= Cardinality(Of(w)) + Cardinality(Of(w + 1))
      <4>1. Cardinality(Of(w) \cap Of(w + 1)) \in Nat
        BY <3>5, FS_Intersection, FS_CardinalityType
      <4>2. /\ IsFiniteSet(Of(w) \cup Of(w + 1))
            /\ Cardinality(Of(w) \cup Of(w + 1)) = Cardinality(Of(w)) + Cardinality(Of(w + 1))
                                                     - Cardinality(Of(w) \cap Of(w + 1))
        BY <3>5, FS_Union
      <4>3. Cardinality(Of(w) \cup Of(w + 1)) \in Nat
        BY <4>2, FS_CardinalityType
      <4> QED BY <3>5, <4>1, <4>2, <4>3
    <3>7. Cardinality(there) <= Cardinality(Of(w) \cup Of(w + 1)) /\ Cardinality(there) \in Nat
      BY <3>4, <3>6, FS_Subset, FS_CardinalityType
    <3> QED BY <3>5, <3>6, <3>7, LimitAssumption DEF Granted, there
  <2> QED BY <2>2, <2>3
<1> QED BY <1>1, LimitSafe, PTL

=============================================================================
