--------------------------- MODULE AlgoliaCredentials ---------------------------
(***************************************************************************)
(* Article search against Algolia with the key that dev.to's search page   *)
(* shows (src/src/adapters/forem/devto-algolia-search.ts).  Searches run   *)
(* side by side and share one promise of the credentials; the site may     *)
(* replace the key at any time, and then Algolia refuses the old one.      *)
(*                                                                         *)
(* A promise is the number of the page read that settles it, and a key is  *)
(* the number of the rotation that made it.                                *)
(***************************************************************************)
EXTENDS Naturals, Sequences, FiniteSets

CONSTANTS
    Search,          \* searches, each made once
    MaxRotations,    \* bound: how often the site replaces the key
    MaxPageFailures  \* bound: reads of the search page that fail

ASSUME SearchAssumption ==
    IsFiniteSet(Search) /\ MaxRotations \in Nat /\ MaxPageFailures \in Nat

VARIABLES
    siteKey,         \* the key the page shows and Algolia accepts
    pages,           \* page reads so far, each "pending", a failure, or the key it found
    credentials,     \* the promise kept; 0 is undefined
    searchStep,      \* where each search is
    query,           \* which of its two queries a search is at
    awaits,          \* the promise it awaits, or took its key from
    refusedAt,       \* history: the site's key when its first query was refused
    searchResult

searchVars == <<siteKey, pages, credentials, searchStep, query, awaits, refusedAt, searchResult>>

Pending == [state |-> "pending"]
Failed(how) == [state |-> how]
Found(key) == [state |-> "ok", key |-> key]
PageFailure == {"http403", "other"}
Failures == {p \in DOMAIN pages : pages[p].state \in PageFailure}

SearchInit ==
    /\ siteKey = 0
    /\ pages = <<>> /\ credentials = 0
    /\ searchStep = [s \in Search |-> "idle"]
    /\ query = [s \in Search |-> 1]
    /\ awaits = [s \in Search |-> 0]
    /\ refusedAt = [s \in Search |-> 0]
    /\ searchResult = [s \in Search |-> "none"]

-----------------------------------------------------------------------------

\* The promise kept if there is one, else a new read of the page, kept from now on.
loadCredentials(s, kept) ==
    IF kept # 0
    THEN /\ awaits' = [awaits EXCEPT ![s] = kept]
         /\ credentials' = kept
         /\ UNCHANGED pages
    ELSE /\ pages' = Append(pages, Pending)
         /\ credentials' = Len(pages')
         /\ awaits' = [awaits EXCEPT ![s] = Len(pages')]

\* Arguments are checked before anything is read: a bad search_fields ends the search.
search(s) ==
    /\ searchStep[s] = "idle"
    /\ searchStep' = [searchStep EXCEPT ![s] = "loading"]
    /\ loadCredentials(s, credentials)
    /\ UNCHANGED <<siteKey, query, refusedAt, searchResult>>

\* The .catch forgets whatever promise is kept by then, its own or a newer one.
Forgets == credentials' = 0

\* A read of the page ends; its promise settles.
fetchCredentials(p) ==
    /\ pages[p] = Pending
    /\ \/ /\ pages' = [pages EXCEPT ![p] = Found(siteKey)]
          /\ UNCHANGED credentials
       \/ /\ Cardinality(Failures) < MaxPageFailures
          /\ \E how \in PageFailure : pages' = [pages EXCEPT ![p] = Failed(how)]
          /\ Forgets
    /\ UNCHANGED <<siteKey, searchStep, query, awaits, refusedAt, searchResult>>

Finish(s, how) == /\ searchStep' = [searchStep EXCEPT ![s] = "done"]
                  /\ searchResult' = [searchResult EXCEPT ![s] = how]

\* Mutant: the second query uses the same key again.
KeptKey == credentials

\* What is kept when the second query looks.
Reset == 0

\* A 403 of either service: forgotten and asked again once, without an await between.
Refused(s) ==
    IF query[s] = 1
    THEN /\ query' = [query EXCEPT ![s] = 2]
         /\ refusedAt' = [refusedAt EXCEPT ![s] = siteKey]
         /\ searchStep' = [searchStep EXCEPT ![s] = "loading"]
         /\ loadCredentials(s, Reset)
         /\ UNCHANGED searchResult
    ELSE /\ Finish(s, "http403")
         /\ UNCHANGED <<query, refusedAt, pages, credentials, awaits>>

Fails(s) == /\ Finish(s, "other")
            /\ UNCHANGED <<query, refusedAt, pages, credentials, awaits>>

\* The await of the credentials returns the key, or throws what the read threw.
Loaded(s) ==
    LET page == pages[awaits[s]]
    IN  /\ searchStep[s] = "loading"
        /\ \/ /\ page.state = "ok"
              /\ searchStep' = [searchStep EXCEPT ![s] = "querying"]
              /\ UNCHANGED <<query, refusedAt, pages, credentials, awaits, searchResult>>
           \/ page.state = "http403" /\ Refused(s)
           \/ page.state = "other" /\ Fails(s)
        /\ UNCHANGED siteKey

\* Algolia answers, or the request fails in some other way.
Answered(s) ==
    /\ searchStep[s] = "querying"
    /\ \/ /\ pages[awaits[s]].key = siteKey
          /\ Finish(s, "ok")
          /\ UNCHANGED <<query, refusedAt, pages, credentials, awaits>>
       \/ pages[awaits[s]].key # siteKey /\ Refused(s)
       \/ Fails(s)
    /\ UNCHANGED siteKey

Rotate ==
    /\ siteKey < MaxRotations
    /\ siteKey' = siteKey + 1
    /\ UNCHANGED <<pages, credentials, searchStep, query, awaits, refusedAt, searchResult>>

SearchNext ==
    \/ \E s \in Search : search(s) \/ Loaded(s) \/ Answered(s)
    \/ \E p \in DOMAIN pages : fetchCredentials(p)
    \/ Rotate

SearchSpec == SearchInit /\ [][SearchNext]_searchVars

-----------------------------------------------------------------------------

\* The one type invariant.
SearchTypeOK ==
    /\ siteKey \in 0..MaxRotations
    /\ \A p \in DOMAIN pages :
         pages[p] \in {Pending} \cup {Failed(how) : how \in PageFailure}
                        \cup {Found(key) : key \in 0..siteKey}
    /\ credentials \in 0..Len(pages)
    /\ searchStep \in [Search -> {"idle", "loading", "querying", "done"}]
    /\ query \in [Search -> {1, 2}]
    /\ awaits \in [Search -> 0..Len(pages)]
    /\ refusedAt \in [Search -> 0..MaxRotations]
    /\ searchResult \in [Search -> {"none", "ok", "http403", "other"}]

\* A failed read of the page is never kept, whichever of several reads that are under
\* way fails, and in whatever order: the next search reads again
\* (devto-algolia-search.ts:104-108).
NoFailedReadKept ==
    credentials # 0 => pages[credentials].state \notin PageFailure

\* A search that was refused ends refused again only if the key was replaced once more
\* since, or the page itself refused its own second read; the searches beside it, which
\* forget and read for themselves, cannot make it fail (devto-algolia-search.ts:66-73).
RefusedTwiceForCause ==
    \A s \in Search :
        searchResult[s] = "http403" =>
            siteKey > refusedAt[s] \/ pages[awaits[s]].state = "http403"

\* While no read fails and the key stays, any number of searches read the page once
\* (devto-algolia-search.ts:104-110).
OneReadIsShared == (siteKey = 0 /\ Failures = {}) => Len(pages) <= 1

\* After one rotation each search reads at most once more: the extra reads never exceed
\* the searches that were refused, so refusals do not multiply among searches that
\* forget each other's promise (devto-algolia-search.ts:71, :104).
ReadsAreAccountedFor ==
    Len(pages) <= 1 + Cardinality({s \in Search : query[s] = 2}) + Cardinality(Failures)

=============================================================================
