----------------------------- MODULE ServiceProofs -----------------------------
(***************************************************************************)
(* The services of MCServices side by side, for any of their constants:    *)
(* the parts share no state, so a step of the whole is a step of each part *)
(* or leaves it alone, and each keeps its own invariant.                   *)
(***************************************************************************)
EXTENDS MCServices, RedisProofs, AlgoliaProofs, ScheduleProofs, ContentProofs

\* What each part keeps.
PartsInv ==
    /\ DashInv /\ LimitInv /\ IndexInv
    /\ SearchInv /\ SiteKeyBounded
    /\ ScheduleInv /\ StartsArePast /\ OneRow /\ ScheduleBounds

\* Every part begins with its own initial state, the resting ones too.
LEMMA PartsBegin == ServicesInit => PartsInv
<1> SUFFICES ASSUME ServicesInit PROVE PartsInv
  OBVIOUS
<1>1. DashInit /\ LimitInit /\ SearchInit /\ IndexInit /\ ScheduleInit
  BY DEF ServicesInit
<1>2. DashInv /\ LimitInv /\ IndexInv
  BY <1>1, DashInitInv, LimitInitInv, InitIndex
<1>3. SearchInv /\ SiteKeyBounded
  BY <1>1, SearchAssumption, SearchInitInv DEF SearchInit, SiteKeyBounded
<1>4. ScheduleInv /\ StartsArePast /\ OneRow /\ ScheduleBounds
  BY <1>1, ScheduleAssumption, ScheduleInitInv DEF ScheduleInit, ScheduleBounds, OneRow, NoRun, None
<1> QED BY <1>2, <1>3, <1>4 DEF PartsInv

\* A step of the whole is one of each part, or leaves the part alone.
LEMMA PartsStep ==
    ASSUME PartsInv, [ServicesNext]_servicesVars
    PROVE  PartsInv'
<1>1. /\ [DashNext]_dashVars /\ [LimitNext]_limitVars /\ [SearchNext]_searchVars
      /\ [IndexNext]_indexVars /\ [ScheduleNext]_scheduleVars
  BY DEF ServicesNext, servicesVars
<1>2. DashInv' /\ LimitInv' /\ IndexInv'
  BY <1>1, DashNextInv, LimitStep, IndexStep DEF PartsInv
<1>3. SearchInv' /\ SiteKeyBounded'
  BY <1>1, SearchStep, SiteKeyStep DEF PartsInv
<1>4. ScheduleInv' /\ StartsArePast' /\ OneRow' /\ ScheduleBounds'
  BY <1>1, ScheduleStep, OneRowStep, BoundsStep DEF PartsInv
<1> QED BY <1>2, <1>3, <1>4 DEF PartsInv

\* ServicesTypeOK: whatever callers, checks, searches, ingests and authors there are, the
\* sessions, counters, credentials, index rows and workflow rows keep their shape.
THEOREM ServicesTypeSafe == ServicesSpec => []ServicesTypeOK
<1>1. PartsInv => ServicesTypeOK
  <2> SUFFICES ASSUME PartsInv PROVE ServicesTypeOK
    OBVIOUS
  <2>1. DashTypeOK /\ LimitTypeOK
    BY DEF PartsInv, DashInv, LimitInv
  <2>2. SearchTypeOK
    BY SearchTypes DEF PartsInv
  <2>3. IndexTypeOK
    <3>1. IndexTyped
      BY DEF PartsInv, IndexInv
    <3>2. ASSUME NEW c \in Ingest, NEW k \in DOMAIN ingest[c].got
          PROVE  ingest[c].got[k] \in 0..Len(ingest[c].toEmbed)
      <4>1. ingest[c] \in Call /\ Fits(ingest[c].got, ingest[c].toEmbed)
        BY <3>1 DEF IndexTyped
      <4>2. /\ Len(ingest[c].toEmbed) \in Nat
            /\ DOMAIN ingest[c].toEmbed = 1..Len(ingest[c].toEmbed)
        BY <4>1, CallFields
      <4> QED BY <4>1, <4>2 DEF Fits
    <3>3. \A c \in Ingest :
             ingest[c].at \in {"idle", "upsert", "embed", "store", "done", "failed"}
      BY <3>1 DEF IndexTyped, Call
    <3> QED BY <3>1, <3>2, <3>3 DEF IndexTyped, IndexTypeOK
  <2>4. ScheduleTypeOK
    BY ScheduleTypes DEF PartsInv
  <2> QED BY <2>1, <2>2, <2>3, <2>4 DEF ServicesTypeOK
<1> QED BY <1>1, PartsBegin, PartsStep, PTL DEF ServicesSpec

=============================================================================
