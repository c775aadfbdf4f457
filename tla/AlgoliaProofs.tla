----------------------------- MODULE AlgoliaProofs -----------------------------
(***************************************************************************)
(* Proofs about the shared Algolia credentials, for any number of searches,*)
(* rotations and failing reads.  What makes them inductive is how a list   *)
(* of promises changes: a read is added at its end, or a pending one       *)
(* settles, and what a search awaits stays what it is.                     *)
(***************************************************************************)
EXTENDS AlgoliaCredentials, FiniteSetTheorems, TLAPS

Page == {Pending} \cup {Failed(how) : how \in PageFailure} \cup {Found(key) : key \in Nat}

Shapes ==
    /\ siteKey \in Nat
    /\ pages \in Seq(Page)
    /\ credentials \in 0..Len(pages)
    /\ searchStep \in [Search -> {"idle", "loading", "querying", "done"}]
    /\ query \in [Search -> {1, 2}]
    /\ awaits \in [Search -> 0..Len(pages)]
    /\ refusedAt \in [Search -> Nat]
    /\ searchResult \in [Search -> {"none", "ok", "http403", "other"}]

\* The key a page shows is not from the future.
KeysArePast == \A p \in 1..Len(pages) : pages[p].state = "ok" => pages[p].key <= siteKey

\* A search that is under way has a promise, and one that queries has its key.
SearchesAwait ==
    \A s \in Search :
        /\ searchStep[s] # "idle" => awaits[s] \in 1..Len(pages)
        /\ searchStep[s] = "querying" => pages[awaits[s]].state = "ok"
        /\ searchStep[s] = "idle" => query[s] = 1
        /\ searchStep[s] # "done" => searchResult[s] = "none"

\* The promise of a second query was made after the refusal of the first.
SecondIsNewer ==
    \A s \in Search :
        /\ refusedAt[s] <= siteKey
        /\ (query[s] = 2 /\ pages[awaits[s]].state = "ok") => pages[awaits[s]].key >= refusedAt[s]
        /\ searchResult[s] = "http403" => query[s] = 2

SearchInv ==
    /\ Shapes /\ KeysArePast /\ SearchesAwait /\ SecondIsNewer
    /\ NoFailedReadKept /\ RefusedTwiceForCause

-----------------------------------------------------------------------------
(* Pages *)

\* A page is pending, found or failed.
LEMMA PageCases ==
    ASSUME NEW page \in Page
    PROVE  /\ page.state \in {"pending", "ok", "http403", "other"}
           /\ page = Pending <=> page.state = "pending"
           /\ page.state = "ok" => page.key \in Nat
BY DEF Page, Pending, Failed, Found, PageFailure

\* Pages are added or settle: what is settled stays, and what settles well has the key
\* of that moment.
Later ==
    /\ pages' \in Seq(Page)
    /\ Len(pages) <= Len(pages')
    /\ \A p \in 1..Len(pages) :
         \/ pages'[p] = pages[p]
         \/ /\ pages[p].state = "pending"
            /\ pages'[p].state = "ok" => pages'[p].key = siteKey
    /\ \A p \in 1..Len(pages') :
         p > Len(pages) => pages'[p].state = "pending"

\* loadCredentials keeps the pages or adds one, and returns a promise that is kept.
LEMMA LoadLater ==
    ASSUME Shapes, NEW s \in Search, NEW kept \in {0, credentials}, loadCredentials(s, kept)
    PROVE  /\ Later
           /\ credentials' \in 1..Len(pages')
           /\ awaits' = [awaits EXCEPT ![s] = credentials']
           /\ \/ pages' = pages /\ credentials' = kept /\ kept # 0
              \/ /\ pages' = Append(pages, Pending) /\ credentials' = Len(pages) + 1
                 /\ pages'[credentials'].state = "pending" /\ kept = 0
                 /\ Len(pages') = Len(pages) + 1
<1>1. CASE kept # 0
  <2>1. pages' = pages /\ credentials' = kept /\ awaits' = [awaits EXCEPT ![s] = credentials']
    BY <1>1 DEF loadCredentials
  <2>2. credentials' \in 1..Len(pages')
    BY <2>1, <1>1 DEF Shapes
  <2>3. Later
    BY <2>1 DEF Later, Shapes
  <2> QED BY <2>1, <2>2, <2>3, <1>1
<1>2. CASE kept = 0
  <2>1. pages' = Append(pages, Pending) /\ credentials' = Len(pages')
        /\ awaits' = [awaits EXCEPT ![s] = credentials']
    BY <1>2 DEF loadCredentials
  <2>2. Pending \in Page /\ Pending.state = "pending"
    BY DEF Page, Pending
  <2>3. /\ Len(pages') = Len(pages) + 1 /\ Len(pages) \in Nat
        /\ \A p \in 1..Len(pages) : pages'[p] = pages[p]
        /\ pages'[Len(pages) + 1] = Pending
        /\ pages' \in Seq(Page)
    BY <2>1, <2>2 DEF Shapes
  <2>4. Later
    BY <2>2, <2>3 DEF Later
  <2> QED BY <2>1, <2>2, <2>3, <2>4, <1>2
<1> QED BY <1>1, <1>2

\* A read that ends settles its page.
LEMMA FetchLater ==
    ASSUME Shapes, NEW p \in DOMAIN pages, fetchCredentials(p)
    PROVE  /\ Later /\ Len(pages') = Len(pages)
           /\ \/ credentials' = credentials /\ pages'[p].state = "ok" /\ pages'[p].key = siteKey
              \/ credentials' = 0 /\ pages'[p].state \in PageFailure
           /\ \A q \in 1..Len(pages) : q # p => pages'[q] = pages[q]
           /\ pages[p].state = "pending"
<1>1. PICK page \in Page : /\ pages' = [pages EXCEPT ![p] = page]
                           /\ \/ /\ credentials' = credentials
                                 /\ page.state = "ok" /\ page.key = siteKey
                              \/ credentials' = 0 /\ page.state \in PageFailure
  <2>1. CASE pages' = [pages EXCEPT ![p] = Found(siteKey)] /\ UNCHANGED credentials
    <3>1. Found(siteKey) \in Page /\ Found(siteKey).state = "ok" /\ Found(siteKey).key = siteKey
      BY DEF Page, Found, Shapes
    <3> QED BY <2>1, <3>1
  <2>2. CASE Forgets /\ \E how \in PageFailure : pages' = [pages EXCEPT ![p] = Failed(how)]
    <3>1. PICK how \in PageFailure : pages' = [pages EXCEPT ![p] = Failed(how)]
      BY <2>2
    <3>2. Failed(how) \in Page /\ Failed(how).state = how
      BY DEF Page, Failed
    <3> QED BY <2>2, <3>1, <3>2 DEF Forgets
  <2> QED BY <2>1, <2>2 DEF fetchCredentials
<1>2. pages[p].state = "pending" /\ p \in 1..Len(pages)
  BY DEF fetchCredentials, Pending, Shapes
<1>3. /\ pages' \in Seq(Page) /\ Len(pages') = Len(pages) /\ pages'[p] = page
      /\ \A q \in 1..Len(pages) : q # p => pages'[q] = pages[q]
  BY <1>1, <1>2 DEF Shapes
<1>4. Later
  <2>1. page.state = "ok" => page.key = siteKey
    BY <1>1 DEF PageFailure
  <2> QED BY <1>2, <1>3, <2>1 DEF Later, Shapes
<1> QED BY <1>1, <1>2, <1>3, <1>4

\* Keys stay past, whatever is added or settles.
LEMMA KeysLater ==
    ASSUME SearchInv, Later, siteKey' \in Nat, siteKey <= siteKey'
    PROVE  KeysArePast'
<1> SUFFICES ASSUME NEW p \in 1..Len(pages'), pages'[p].state = "ok"
             PROVE  pages'[p].key <= siteKey'
  BY DEF KeysArePast
<1>1. p \in 1..Len(pages)
  BY DEF Later, SearchInv, Shapes
<1>2. CASE pages'[p] = pages[p]
  <2>1. pages[p].key \in Nat
    BY <1>1, <1>2, PageCases DEF SearchInv, Shapes
  <2> QED BY <1>1, <1>2, <2>1 DEF SearchInv, KeysArePast, Shapes
<1>3. CASE pages'[p].key = siteKey
  BY <1>3 DEF SearchInv, Shapes
<1> QED BY <1>1, <1>2, <1>3 DEF Later

-----------------------------------------------------------------------------
(* The invariant *)

\* What is known of the promise a search keeps awaiting survives what happens to the pages.
LEMMA AwaitedLater ==
    ASSUME SearchInv, Later, siteKey' = siteKey, NEW s \in Search, searchStep[s] # "idle"
    PROVE  /\ awaits[s] \in 1..Len(pages')
           /\ pages[awaits[s]].state # "pending" => pages'[awaits[s]] = pages[awaits[s]]
           /\ (query[s] = 2 /\ pages'[awaits[s]].state = "ok")
                 => pages'[awaits[s]].key >= refusedAt[s]
<1>1. awaits[s] \in 1..Len(pages)
  BY DEF SearchInv, SearchesAwait
<1>2. awaits[s] \in 1..Len(pages')
  BY <1>1 DEF Later, SearchInv, Shapes
<1>3. pages[awaits[s]].state # "pending" => pages'[awaits[s]] = pages[awaits[s]]
  BY <1>1 DEF Later
<1>4. (query[s] = 2 /\ pages'[awaits[s]].state = "ok") => pages'[awaits[s]].key >= refusedAt[s]
  <2> SUFFICES ASSUME query[s] = 2, pages'[awaits[s]].state = "ok"
               PROVE  pages'[awaits[s]].key >= refusedAt[s]
    OBVIOUS
  <2>1. refusedAt[s] <= siteKey /\ refusedAt[s] \in Nat /\ siteKey \in Nat
    BY DEF SearchInv, SecondIsNewer, Shapes
  <2>2. CASE pages'[awaits[s]] = pages[awaits[s]]
    BY <2>2 DEF SearchInv, SecondIsNewer
  <2>3. CASE pages'[awaits[s]].key = siteKey
    BY <2>1, <2>3
  <2> QED BY <1>1, <2>2, <2>3 DEF Later
<1> QED BY <1>2, <1>3, <1>4

\* A search that is idle, or was refused for the first time, goes to a promise.
LEMMA Reloads ==
    ASSUME SearchInv, NEW s \in Search, NEW kept \in {0, credentials}, loadCredentials(s, kept),
           siteKey' = siteKey, searchResult' = searchResult, searchResult[s] = "none",
           searchStep' = [searchStep EXCEPT ![s] = "loading"],
           \/ /\ query' = query /\ refusedAt' = refusedAt /\ query[s] = 1
           \/ /\ query' = [query EXCEPT ![s] = 2] /\ refusedAt' = [refusedAt EXCEPT ![s] = siteKey]
              /\ kept = 0
    PROVE  SearchInv'
<1>0. Shapes /\ SearchesAwait /\ SecondIsNewer /\ RefusedTwiceForCause /\ NoFailedReadKept
  BY DEF SearchInv
<1>1. /\ Later
      /\ credentials' \in 1..Len(pages')
      /\ awaits' = [awaits EXCEPT ![s] = credentials']
      /\ \/ pages' = pages /\ credentials' = kept /\ kept # 0
         \/ /\ pages' = Append(pages, Pending) /\ credentials' = Len(pages) + 1
            /\ pages'[credentials'].state = "pending" /\ kept = 0
            /\ Len(pages') = Len(pages) + 1
  BY <1>0, LoadLater
<1>2. KeysArePast'
  <2>1. siteKey' \in Nat /\ siteKey <= siteKey'
    BY <1>0 DEF Shapes
  <2> QED BY <1>1, <2>1, KeysLater
<1>3. Shapes'
  <2>1. query' \in [Search -> {1, 2}] /\ refusedAt' \in [Search -> Nat]
    <3>1. query \in [Search -> {1, 2}] /\ refusedAt \in [Search -> Nat] /\ siteKey \in Nat
      BY <1>0 DEF Shapes
    <3>2. CASE query' = query /\ refusedAt' = refusedAt
      BY <3>1, <3>2
    <3>3. CASE /\ query' = [query EXCEPT ![s] = 2]
               /\ refusedAt' = [refusedAt EXCEPT ![s] = siteKey]
      BY <3>1, <3>3
    <3> QED BY <3>2, <3>3
  <2>2. awaits' \in [Search -> 0..Len(pages')] /\ credentials' \in 0..Len(pages')
    BY <1>0, <1>1 DEF Shapes, Later
  <2>3. searchStep' \in [Search -> {"idle", "loading", "querying", "done"}]
    BY <1>0 DEF Shapes
  <2>4. pages' \in Seq(Page)
    BY <1>1 DEF Later
  <2> QED BY <1>0, <2>1, <2>2, <2>3, <2>4 DEF Shapes
<1>4. \A t \in Search \ {s} : /\ searchStep'[t] = searchStep[t] /\ query'[t] = query[t]
                              /\ awaits'[t] = awaits[t] /\ refusedAt'[t] = refusedAt[t]
  BY <1>0, <1>1 DEF Shapes
<1>5. searchStep'[s] = "loading" /\ awaits'[s] = credentials'
  BY <1>0, <1>1 DEF Shapes
<1>6. SearchesAwait'
  <2> SUFFICES ASSUME NEW t \in Search
               PROVE  /\ searchStep'[t] # "idle" => awaits'[t] \in 1..Len(pages')
                      /\ searchStep'[t] = "querying" => pages'[awaits'[t]].state = "ok"
                      /\ searchStep'[t] = "idle" => query'[t] = 1
                      /\ searchStep'[t] # "done" => searchResult'[t] = "none"
    BY DEF SearchesAwait
  <2>1. CASE t = s
    BY <1>1, <1>5, <2>1
  <2>2. CASE t # s
    BY <1>0, <1>1, <1>4, <2>2, AwaitedLater DEF SearchesAwait
  <2> QED BY <2>1, <2>2
<1>7. SecondIsNewer'
  <2> SUFFICES ASSUME NEW t \in Search
               PROVE  /\ refusedAt'[t] <= siteKey'
                      /\ (query'[t] = 2 /\ pages'[awaits'[t]].state = "ok")
                            => pages'[awaits'[t]].key >= refusedAt'[t]
                      /\ searchResult'[t] = "http403" => query'[t] = 2
    BY DEF SecondIsNewer
  <2>1. CASE t = s
    <3>1. refusedAt'[s] <= siteKey
      BY <1>0 DEF Shapes, SecondIsNewer
    <3>2. query'[s] = 2 => pages'[credentials'].state = "pending"
      BY <1>0, <1>1 DEF Shapes
    <3> QED BY <1>5, <2>1, <3>1, <3>2
  <2>2. CASE t # s
    <3>1. CASE searchStep[t] = "idle"
      BY <1>0, <1>4, <2>2, <3>1 DEF SearchesAwait, SecondIsNewer
    <3>2. CASE searchStep[t] # "idle"
      BY <1>0, <1>1, <1>4, <2>2, <3>2, AwaitedLater DEF SecondIsNewer
    <3> QED BY <3>1, <3>2
  <2> QED BY <2>1, <2>2
<1>8. NoFailedReadKept'
  BY <1>0, <1>1 DEF NoFailedReadKept, PageFailure
<1>9. RefusedTwiceForCause'
  <2> SUFFICES ASSUME NEW t \in Search, searchResult[t] = "http403"
               PROVE  siteKey' > refusedAt'[t] \/ pages'[awaits'[t]].state = "http403"
    BY DEF RefusedTwiceForCause
  <2>1. t # s /\ searchStep[t] # "idle"
    BY <1>0 DEF SearchesAwait
  <2> QED BY <1>0, <1>1, <1>4, <2>1, AwaitedLater DEF RefusedTwiceForCause
<1> QED BY <1>2, <1>3, <1>6, <1>7, <1>8, <1>9 DEF SearchInv

\* A search that ends leaves the rest alone.
LEMMA Finishes ==
    ASSUME SearchInv, NEW s \in Search, searchStep[s] # "idle",
           UNCHANGED <<siteKey, query, refusedAt, pages, credentials, awaits>>,
           NEW how \in {"ok", "http403", "other"}, Finish(s, how),
           how = "http403" => /\ query[s] = 2
                              /\ \/ pages[awaits[s]].state = "http403"
                                 \/ /\ pages[awaits[s]].state = "ok"
                                    /\ pages[awaits[s]].key # siteKey
    PROVE  SearchInv'
<1>0. Shapes /\ SearchesAwait /\ SecondIsNewer /\ RefusedTwiceForCause /\ KeysArePast
      /\ NoFailedReadKept
  BY DEF SearchInv
<1>1. /\ searchStep' = [searchStep EXCEPT ![s] = "done"]
      /\ searchResult' = [searchResult EXCEPT ![s] = how]
  BY DEF Finish
<1>2. Shapes' /\ KeysArePast' /\ NoFailedReadKept'
  BY <1>0, <1>1 DEF Shapes, KeysArePast, NoFailedReadKept
<1>3. SearchesAwait'
  BY <1>0, <1>1 DEF Shapes, SearchesAwait
<1>4. SecondIsNewer'
  BY <1>0, <1>1 DEF Shapes, SecondIsNewer
<1>5. how = "http403" => siteKey > refusedAt[s] \/ pages[awaits[s]].state = "http403"
  <2> SUFFICES ASSUME how = "http403", pages[awaits[s]].state = "ok",
                      pages[awaits[s]].key # siteKey
               PROVE  siteKey > refusedAt[s]
    OBVIOUS
  <2>1. awaits[s] \in 1..Len(pages) /\ pages[awaits[s]] \in Page
    BY <1>0 DEF SearchesAwait, Shapes
  <2>2. pages[awaits[s]].key \in Nat
    BY <2>1, PageCases
  <2>3. /\ pages[awaits[s]].key <= siteKey /\ pages[awaits[s]].key >= refusedAt[s]
        /\ siteKey \in Nat /\ refusedAt[s] \in Nat
    BY <1>0, <2>1 DEF KeysArePast, SecondIsNewer, Shapes
  <2> QED BY <2>2, <2>3
<1>6. RefusedTwiceForCause'
  BY <1>0, <1>1, <1>5 DEF RefusedTwiceForCause, Shapes
<1> QED BY <1>2, <1>3, <1>4, <1>6 DEF SearchInv

\* A refusal: another try, or the end.
LEMMA RefusedKeeps ==
    ASSUME SearchInv, NEW s \in Search, searchStep[s] \in {"loading", "querying"}, Refused(s),
           siteKey' = siteKey,
           \/ pages[awaits[s]].state = "http403"
           \/ pages[awaits[s]].state = "ok" /\ pages[awaits[s]].key # siteKey
    PROVE  SearchInv'
<1>0. searchResult[s] = "none"
  BY DEF SearchInv, SearchesAwait
<1>1. CASE query[s] = 1
  <2>1. /\ query' = [query EXCEPT ![s] = 2]
        /\ refusedAt' = [refusedAt EXCEPT ![s] = siteKey]
        /\ searchStep' = [searchStep EXCEPT ![s] = "loading"]
        /\ loadCredentials(s, 0)
        /\ searchResult' = searchResult
    BY <1>1 DEF Refused, Reset
  <2> QED BY <1>0, <2>1, Reloads
<1>2. CASE query[s] # 1
  <2>1. query[s] = 2
    BY <1>2 DEF SearchInv, Shapes
  <2>2. Finish(s, "http403") /\ UNCHANGED <<query, refusedAt, pages, credentials, awaits>>
    BY <1>2 DEF Refused
  <2>3. UNCHANGED <<siteKey, query, refusedAt, pages, credentials, awaits>>
    BY <2>2
  <2> QED BY <2>1, <2>2, <2>3, Finishes
<1> QED BY <1>1, <1>2

\* The credentials arrive, or the read threw.
LEMMA LoadedKeeps ==
    ASSUME SearchInv, NEW s \in Search, Loaded(s)
    PROVE  SearchInv'
<1>0. searchStep[s] = "loading" /\ siteKey' = siteKey
  BY DEF Loaded
<1>1. CASE pages[awaits[s]].state = "ok" /\ searchStep' = [searchStep EXCEPT ![s] = "querying"]
           /\ UNCHANGED <<query, refusedAt, pages, credentials, awaits, searchResult>>
  <2>1. Shapes' /\ KeysArePast' /\ NoFailedReadKept' /\ SecondIsNewer' /\ RefusedTwiceForCause'
    BY <1>0, <1>1 DEF SearchInv, Shapes, KeysArePast, NoFailedReadKept, SecondIsNewer,
                      RefusedTwiceForCause
  <2>2. SearchesAwait'
    BY <1>0, <1>1 DEF SearchInv, Shapes, SearchesAwait
  <2> QED BY <2>1, <2>2 DEF SearchInv
<1>2. CASE pages[awaits[s]].state = "http403" /\ Refused(s)
  BY <1>0, <1>2, RefusedKeeps
<1>3. CASE Fails(s)
  <2>1. Finish(s, "other")
        /\ UNCHANGED <<siteKey, query, refusedAt, pages, credentials, awaits>>
    BY <1>0, <1>3 DEF Fails
  <2> QED BY <1>0, <2>1, Finishes
<1> QED BY <1>1, <1>2, <1>3 DEF Loaded

\* Algolia answers.
LEMMA AnsweredKeeps ==
    ASSUME SearchInv, NEW s \in Search, Answered(s)
    PROVE  SearchInv'
<1>0. /\ searchStep[s] = "querying" /\ siteKey' = siteKey
      /\ pages[awaits[s]].state = "ok"
  BY DEF Answered, SearchInv, SearchesAwait
<1>1. CASE Finish(s, "ok") /\ UNCHANGED <<query, refusedAt, pages, credentials, awaits>>
  <2>1. UNCHANGED <<siteKey, query, refusedAt, pages, credentials, awaits>>
    BY <1>0, <1>1
  <2> QED BY <1>0, <1>1, <2>1, Finishes
<1>2. CASE pages[awaits[s]].key # siteKey /\ Refused(s)
  BY <1>0, <1>2, RefusedKeeps
<1>3. CASE Fails(s)
  <2>1. Finish(s, "other")
        /\ UNCHANGED <<siteKey, query, refusedAt, pages, credentials, awaits>>
    BY <1>0, <1>3 DEF Fails
  <2> QED BY <1>0, <2>1, Finishes
<1> QED BY <1>1, <1>2, <1>3 DEF Answered

\* A read ends: whoever awaits it learns the key of this moment, or that it failed, and then
\* nothing is kept.
LEMMA FetchKeeps ==
    ASSUME SearchInv, NEW p \in DOMAIN pages, fetchCredentials(p)
    PROVE  SearchInv'
<1>0. Shapes /\ SearchesAwait /\ SecondIsNewer /\ RefusedTwiceForCause /\ NoFailedReadKept
  BY DEF SearchInv
<1>1. /\ Later /\ Len(pages') = Len(pages)
      /\ \/ credentials' = credentials /\ pages'[p].state = "ok" /\ pages'[p].key = siteKey
         \/ credentials' = 0 /\ pages'[p].state \in PageFailure
      /\ \A q \in 1..Len(pages) : q # p => pages'[q] = pages[q]
      /\ pages[p].state = "pending"
  BY <1>0, FetchLater
<1>2. UNCHANGED <<siteKey, searchStep, query, awaits, refusedAt, searchResult>>
  BY DEF fetchCredentials
<1>3. Shapes'
  <2>1. pages' \in Seq(Page) /\ credentials' \in 0..Len(pages')
    BY <1>0, <1>1 DEF Later, Shapes
  <2> QED BY <1>0, <1>1, <1>2, <2>1 DEF Shapes
<1>4. KeysArePast'
  <2>1. siteKey' \in Nat /\ siteKey <= siteKey'
    BY <1>0, <1>2 DEF Shapes
  <2> QED BY <1>1, <2>1, KeysLater
<1>5. SearchesAwait'
  BY <1>0, <1>1, <1>2, AwaitedLater DEF SearchesAwait
<1>6. SecondIsNewer'
  <2> SUFFICES ASSUME NEW s \in Search
               PROVE  /\ refusedAt[s] <= siteKey
                      /\ (query[s] = 2 /\ pages'[awaits[s]].state = "ok")
                            => pages'[awaits[s]].key >= refusedAt[s]
                      /\ searchResult[s] = "http403" => query[s] = 2
    BY <1>2 DEF SecondIsNewer
  <2>1. CASE searchStep[s] = "idle"
    BY <1>0, <2>1 DEF SearchesAwait, SecondIsNewer
  <2>2. CASE searchStep[s] # "idle"
    BY <1>0, <1>1, <1>2, <2>2, AwaitedLater DEF SecondIsNewer
  <2> QED BY <2>1, <2>2
<1>7. NoFailedReadKept'
  <2>1. CASE credentials' = credentials
    <3> SUFFICES ASSUME credentials # 0 PROVE pages'[credentials].state \notin PageFailure
      BY <2>1 DEF NoFailedReadKept
    <3>1. credentials \in 1..Len(pages)
      BY <1>0 DEF Shapes
    <3>2. CASE credentials = p
      <4>1. credentials' # 0
        BY <2>1
      <4>2. pages'[p].state = "ok"
        BY <1>1, <4>1
      <4> QED BY <3>2, <4>2 DEF PageFailure
    <3> QED BY <1>0, <1>1, <3>1, <3>2 DEF NoFailedReadKept
  <2>2. CASE credentials' = 0
    BY <2>2 DEF NoFailedReadKept
  <2> QED BY <1>1, <2>1, <2>2
<1>8. RefusedTwiceForCause'
  <2> SUFFICES ASSUME NEW s \in Search, searchResult[s] = "http403"
               PROVE  siteKey > refusedAt[s] \/ pages'[awaits[s]].state = "http403"
    BY <1>2 DEF RefusedTwiceForCause
  <2>1. searchStep[s] # "idle"
    BY <1>0 DEF SearchesAwait
  <2> QED BY <1>0, <1>1, <1>2, <2>1, AwaitedLater DEF RefusedTwiceForCause
<1> QED BY <1>3, <1>4, <1>5, <1>6, <1>7, <1>8 DEF SearchInv

\* Every step keeps the invariant.
LEMMA SearchStep ==
    ASSUME SearchInv, [SearchNext]_searchVars
    PROVE  SearchInv'
<1>1. ASSUME NEW s \in Search, search(s) PROVE SearchInv'
  <2>1. searchStep[s] = "idle" /\ query[s] = 1 /\ searchResult[s] = "none"
    BY <1>1 DEF search, SearchInv, SearchesAwait
  <2>2. /\ loadCredentials(s, credentials)
        /\ searchStep' = [searchStep EXCEPT ![s] = "loading"]
        /\ siteKey' = siteKey /\ searchResult' = searchResult
        /\ query' = query /\ refusedAt' = refusedAt
    BY <1>1 DEF search
  <2> QED BY <2>1, <2>2, Reloads
<1>2. CASE Rotate
  <2>1. siteKey' = siteKey + 1 /\ siteKey \in Nat
    BY <1>2 DEF Rotate, SearchInv, Shapes
  <2>2. UNCHANGED <<pages, credentials, searchStep, query, awaits, refusedAt, searchResult>>
    BY <1>2 DEF Rotate
  <2>3. Later
    BY <2>2 DEF Later, SearchInv, Shapes
  <2>4. KeysArePast'
    BY <2>1, <2>3, KeysLater
  <2>5. Shapes' /\ SearchesAwait' /\ NoFailedReadKept'
    BY <2>1, <2>2 DEF SearchInv, Shapes, SearchesAwait, NoFailedReadKept
  <2>6. SecondIsNewer' /\ RefusedTwiceForCause'
    BY <2>1, <2>2 DEF SearchInv, Shapes, SecondIsNewer, RefusedTwiceForCause
  <2> QED BY <2>4, <2>5, <2>6 DEF SearchInv
<1>3. CASE UNCHANGED searchVars
  BY <1>3 DEF searchVars, SearchInv, Shapes, KeysArePast, SearchesAwait, SecondIsNewer,
              NoFailedReadKept, RefusedTwiceForCause
<1> QED BY <1>1, <1>2, <1>3, LoadedKeeps, AnsweredKeeps, FetchKeeps DEF SearchNext

\* The bound on rotations is kept.
SiteKeyBounded == siteKey \in 0..MaxRotations

\* Only a rotation changes the key.
LEMMA SiteKeyStep ==
    ASSUME SiteKeyBounded, [SearchNext]_searchVars
    PROVE  SiteKeyBounded'
<1>1. CASE Rotate
  BY <1>1, SearchAssumption DEF Rotate, SiteKeyBounded
<1>2. CASE siteKey' = siteKey
  BY <1>2 DEF SiteKeyBounded
<1> QED BY <1>1, <1>2 DEF SearchNext, search, Loaded, Answered, fetchCredentials, searchVars

\* The invariants bound every part of the state.
LEMMA SearchTypes ==
    ASSUME SearchInv, SiteKeyBounded
    PROVE  SearchTypeOK
<1>1. Shapes /\ KeysArePast /\ SecondIsNewer
  BY DEF SearchInv
<1>2. DOMAIN pages = 1..Len(pages)
  BY <1>1 DEF Shapes
<1>3. ASSUME NEW p \in DOMAIN pages
      PROVE  pages[p] \in {Pending} \cup {Failed(how) : how \in PageFailure}
                            \cup {Found(key) : key \in 0..siteKey}
  <2>1. pages[p] \in Page
    BY <1>1, <1>3 DEF Shapes
  <2>2. ASSUME NEW key \in Nat, pages[p] = Found(key) PROVE key \in 0..siteKey
    <3>1. pages[p].state = "ok" /\ pages[p].key = key
      BY <2>2 DEF Found
    <3>2. key <= siteKey
      BY <1>1, <1>2, <1>3, <3>1 DEF KeysArePast
    <3> QED BY <1>1, <3>2 DEF Shapes
  <2> QED BY <2>1, <2>2 DEF Page
<1>4. refusedAt \in [Search -> 0..MaxRotations]
  <2>1. \A s \in Search : refusedAt[s] \in Nat /\ refusedAt[s] <= siteKey
    BY <1>1 DEF Shapes, SecondIsNewer
  <2>2. \A s \in Search : refusedAt[s] \in 0..MaxRotations
    BY <2>1, SearchAssumption DEF SiteKeyBounded
  <2> QED BY <1>1, <2>2 DEF Shapes
<1> QED BY <1>1, <1>3, <1>4 DEF SearchTypeOK, Shapes, SiteKeyBounded

\* It holds before the first search.
LEMMA SearchInitInv == SearchInit => SearchInv
BY DEF SearchInit, SearchInv, Shapes, KeysArePast, SearchesAwait, SecondIsNewer,
       NoFailedReadKept, RefusedTwiceForCause

\* Everything above holds in every state.
LEMMA SearchSafe == SearchSpec => []SearchInv
BY SearchInitInv, SearchStep, PTL DEF SearchSpec

\* Whichever of any number of reads fails, and in whatever order, a failed one is never
\* kept for the next search (devto-algolia-search.ts:104-108).
THEOREM NoFailedReadKeptHolds == SearchSpec => []NoFailedReadKept
<1>1. SearchInv => NoFailedReadKept
  BY DEF SearchInv
<1> QED BY <1>1, SearchSafe, PTL

\* However many searches forget and read beside it, a search that was refused is refused
\* again only because the key was replaced once more, or its own page read was refused
\* (devto-algolia-search.ts:66-73).
THEOREM RefusedTwiceForCauseHolds == SearchSpec => []RefusedTwiceForCause
<1>1. SearchInv => RefusedTwiceForCause
  BY DEF SearchInv
<1> QED BY <1>1, SearchSafe, PTL

-----------------------------------------------------------------------------
(* How many reads there are *)

\* The searches that were refused.
Second == {s \in Search : query[s] = 2}

\* Every read has a refused search or a failed read of its own, but for the one whose
\* promise is kept; and it takes a new key or a failure to refuse a search.
Accounts ==
    /\ SearchInv
    /\ Len(pages) <= (IF credentials = 0 THEN 0 ELSE 1)
                       + Cardinality(Second) + Cardinality(Failures)
    /\ Second # {} => siteKey > 0 \/ Failures # {}

\* What is counted is finite, so the counts are numbers.
LEMMA Countable ==
    ASSUME SearchInv
    PROVE  /\ IsFiniteSet(Second) /\ Cardinality(Second) \in Nat
           /\ IsFiniteSet(Failures) /\ Cardinality(Failures) \in Nat
<1>1. IsFiniteSet(Second)
  BY SearchAssumption, FS_Subset DEF Second
<1>2. IsFiniteSet(Failures)
  <2>1. Len(pages) \in Nat /\ DOMAIN pages = 1..Len(pages)
    BY DEF SearchInv, Shapes
  <2>2. IsFiniteSet(1..Len(pages))
    BY <2>1, FS_Interval
  <2> QED BY <2>1, <2>2, FS_Subset DEF Failures
<1> QED BY <1>1, <1>2, FS_CardinalityType

\* loadCredentials fails no read, and adds one only where none was kept.
LEMMA LoadCounts ==
    ASSUME SearchInv, NEW s \in Search, NEW kept \in {0, credentials}, loadCredentials(s, kept)
    PROVE  /\ Failures' = Failures
           /\ credentials' # 0
           /\ \/ kept # 0 /\ Len(pages') = Len(pages)
              \/ kept = 0 /\ Len(pages') = Len(pages) + 1
<1>0. Shapes
  BY DEF SearchInv
<1>1. /\ Later
      /\ credentials' \in 1..Len(pages')
      /\ \/ pages' = pages /\ kept # 0
         \/ /\ pages' = Append(pages, Pending) /\ credentials' = Len(pages) + 1
            /\ pages'[credentials'].state = "pending" /\ kept = 0
            /\ Len(pages') = Len(pages) + 1
  BY <1>0, LoadLater
<1>2. Len(pages) \in Nat /\ DOMAIN pages = 1..Len(pages)
  BY <1>0 DEF Shapes
<1>3. CASE pages' = pages /\ kept # 0
  BY <1>1, <1>3 DEF Failures, Later
<1>4. CASE pages' = Append(pages, Pending) /\ kept = 0
  <2>1. Len(pages') = Len(pages) + 1 /\ DOMAIN pages' = 1..(Len(pages) + 1)
    BY <1>0, <1>4 DEF Shapes
  <2>2. \A p \in 1..Len(pages) : pages'[p] = pages[p]
    BY <1>0, <1>4 DEF Shapes
  <2>3. pages'[Len(pages) + 1].state \notin PageFailure
    BY <1>0, <1>4 DEF Shapes, Pending, PageFailure
  <2>4. \A p : p \in DOMAIN pages' <=> p \in DOMAIN pages \/ p = Len(pages) + 1
    BY <1>2, <2>1
  <2>5. Failures' = Failures
    BY <1>2, <2>2, <2>3, <2>4 DEF Failures
  <2> QED BY <1>1, <1>2, <1>4, <2>1, <2>5
<1> QED BY <1>1, <1>3, <1>4

\* Of a refusal.
LEMMA RefusedCounts ==
    ASSUME Accounts, SearchInv', NEW s \in Search, Refused(s), siteKey' = siteKey,
           siteKey > 0 \/ Failures # {}
    PROVE  Accounts'
<1>0. SearchInv /\ Shapes
  BY DEF Accounts, SearchInv
<1>1. CASE query[s] = 1
  <2>1. query' = [query EXCEPT ![s] = 2] /\ loadCredentials(s, 0)
    BY <1>1 DEF Refused, Reset
  <2>2. Second' = Second \cup {s} /\ s \notin Second
    BY <1>0, <1>1, <2>1 DEF Second, Shapes
  <2>3. Cardinality(Second') = Cardinality(Second) + 1
    BY <1>0, <2>2, Countable, FS_AddElement
  <2>4. Failures' = Failures /\ credentials' # 0 /\ Len(pages') = Len(pages) + 1
    BY <1>0, <2>1, LoadCounts
  <2>5. Len(pages) \in Nat /\ Cardinality(Second) \in Nat /\ Cardinality(Failures) \in Nat
    BY <1>0, Countable DEF Shapes
  <2>6. Len(pages) <= 1 + Cardinality(Second) + Cardinality(Failures)
    BY <2>5 DEF Accounts
  <2>7. Len(pages') <= 1 + Cardinality(Second') + Cardinality(Failures')
    BY <2>3, <2>4, <2>5, <2>6
  <2> QED BY <2>4, <2>7 DEF Accounts
<1>2. CASE query[s] # 1
  <2>1. UNCHANGED <<query, pages, credentials>>
    BY <1>2 DEF Refused
  <2> QED BY <2>1 DEF Accounts, Second, Failures
<1> QED BY <1>1, <1>2

\* Every step keeps the accounts.
LEMMA AccountsStep ==
    ASSUME Accounts, [SearchNext]_searchVars
    PROVE  Accounts'
<1>0. SearchInv /\ SearchInv' /\ Shapes
  BY SearchStep DEF Accounts, SearchInv
<1>c. Len(pages) \in Nat /\ Cardinality(Second) \in Nat /\ Cardinality(Failures) \in Nat
  BY <1>0, Countable DEF Shapes
<1>1. ASSUME NEW s \in Search, search(s) PROVE Accounts'
  <2>1. loadCredentials(s, credentials) /\ query' = query /\ siteKey' = siteKey
    BY <1>1 DEF search
  <2>2. /\ Failures' = Failures /\ credentials' # 0
        /\ \/ credentials # 0 /\ Len(pages') = Len(pages)
           \/ credentials = 0 /\ Len(pages') = Len(pages) + 1
    BY <1>0, <2>1, LoadCounts
  <2>3. Second' = Second
    BY <2>1 DEF Second
  <2>4. Len(pages) <= (IF credentials = 0 THEN 0 ELSE 1)
                        + Cardinality(Second) + Cardinality(Failures)
    BY DEF Accounts
  <2>5. Len(pages') <= 1 + Cardinality(Second) + Cardinality(Failures)
    BY <1>c, <2>2, <2>4
  <2> QED BY <1>0, <2>1, <2>2, <2>3, <2>5 DEF Accounts
<1>2. ASSUME NEW s \in Search, Loaded(s) PROVE Accounts'
  <2>1. siteKey' = siteKey /\ searchStep[s] = "loading"
    BY <1>2 DEF Loaded
  <2>2. CASE UNCHANGED <<query, pages, credentials>>
    BY <1>0, <2>1, <2>2 DEF Accounts, Second, Failures
  <2>3. CASE pages[awaits[s]].state = "http403" /\ Refused(s)
    <3>0. awaits[s] \in 1..Len(pages)
      BY <1>0, <2>1 DEF SearchInv, SearchesAwait
    <3>1. awaits[s] \in DOMAIN pages
      BY <1>0, <3>0 DEF Shapes
    <3>2. Failures # {}
      BY <2>3, <3>1 DEF Failures, PageFailure
    <3> QED BY <1>0, <2>1, <2>3, <3>2, RefusedCounts
  <2> QED BY <1>2, <2>2, <2>3 DEF Loaded, Fails
<1>3. ASSUME NEW s \in Search, Answered(s) PROVE Accounts'
  <2>1. siteKey' = siteKey /\ searchStep[s] = "querying"
    BY <1>3 DEF Answered
  <2>2. CASE UNCHANGED <<query, pages, credentials>>
    BY <1>0, <2>1, <2>2 DEF Accounts, Second, Failures
  <2>3. CASE pages[awaits[s]].key # siteKey /\ Refused(s)
    <3>1. awaits[s] \in 1..Len(pages) /\ pages[awaits[s]].state = "ok"
          /\ pages[awaits[s]] \in Page
      BY <1>0, <2>1 DEF SearchInv, SearchesAwait, Shapes
    <3>2. /\ pages[awaits[s]].key \in Nat /\ pages[awaits[s]].key <= siteKey
          /\ siteKey \in Nat
      BY <1>0, <3>1, PageCases DEF SearchInv, KeysArePast, Shapes
    <3>3. siteKey > 0
      BY <2>3, <3>2
    <3> QED BY <1>0, <2>1, <2>3, <3>3, RefusedCounts
  <2> QED BY <1>3, <2>2, <2>3 DEF Answered, Fails
<1>4. ASSUME NEW p \in DOMAIN pages, fetchCredentials(p) PROVE Accounts'
  <2>1. /\ Len(pages') = Len(pages)
        /\ \/ credentials' = credentials /\ pages'[p].state = "ok"
           \/ credentials' = 0 /\ pages'[p].state \in PageFailure
        /\ \A q \in 1..Len(pages) : q # p => pages'[q] = pages[q]
        /\ pages[p].state = "pending"
    BY <1>0, <1>4, FetchLater
  <2>2. query' = query /\ siteKey' = siteKey /\ Second' = Second
    BY <1>4 DEF fetchCredentials, Second
  <2>3. DOMAIN pages' = DOMAIN pages /\ DOMAIN pages = 1..Len(pages)
    BY <1>0, <2>1 DEF SearchInv, Shapes
  <2>4. p \notin Failures
    BY <2>1 DEF Failures, PageFailure
  <2>5. CASE credentials' = credentials /\ pages'[p].state = "ok"
    <3>1. Failures' = Failures
      BY <2>1, <2>3, <2>4, <2>5 DEF Failures, PageFailure
    <3> QED BY <1>0, <2>1, <2>2, <2>5, <3>1 DEF Accounts
  <2>6. CASE credentials' = 0 /\ pages'[p].state \in PageFailure
    <3>1. Failures' = Failures \cup {p}
      BY <2>1, <2>3, <2>6 DEF Failures
    <3>2. Cardinality(Failures') = Cardinality(Failures) + 1
      BY <1>0, <2>4, <3>1, Countable, FS_AddElement
    <3>3. Len(pages) <= 1 + Cardinality(Second) + Cardinality(Failures)
      BY <1>c DEF Accounts
    <3>4. Len(pages') <= Cardinality(Second) + Cardinality(Failures')
      BY <1>c, <2>1, <3>2, <3>3
    <3>5. Len(pages') <= 0 + Cardinality(Second') + Cardinality(Failures')
      BY <1>c, <2>2, <3>2, <3>4
    <3> QED BY <1>0, <2>2, <2>6, <3>1, <3>5 DEF Accounts
  <2> QED BY <2>1, <2>5, <2>6
<1>5. CASE Rotate
  <2>1. siteKey' = siteKey + 1 /\ siteKey \in Nat /\ UNCHANGED <<query, pages, credentials>>
    BY <1>0, <1>5 DEF Rotate, Shapes
  <2> QED BY <1>0, <2>1 DEF Accounts, Second, Failures
<1>6. CASE UNCHANGED searchVars
  BY <1>0, <1>6 DEF Accounts, Second, Failures, searchVars
<1> QED BY <1>1, <1>2, <1>3, <1>4, <1>5, <1>6 DEF SearchNext

\* The accounts hold in every state.
LEMMA AccountsSafe == SearchSpec => []Accounts
<1>1. SearchInit => Accounts
  <2> SUFFICES ASSUME SearchInit PROVE Accounts
    OBVIOUS
  <2>1. SearchInv
    BY DEF SearchInit, SearchInv, Shapes, KeysArePast, SearchesAwait, SecondIsNewer,
           NoFailedReadKept, RefusedTwiceForCause
  <2>2. Second = {} /\ Failures = {} /\ credentials = 0 /\ Len(pages) = 0
    BY DEF SearchInit, Second, Failures
  <2>3. Cardinality(Second) = 0 /\ Cardinality(Failures) = 0
    BY <2>2, FS_EmptySet
  <2> QED BY <2>1, <2>2, <2>3 DEF Accounts
<1> QED BY <1>1, AccountsStep, PTL DEF SearchSpec

\* The reads of the page never exceed one, one for each refused search and one for each
\* failed read: refusals do not multiply among searches that forget each other's promise
\* (devto-algolia-search.ts:71, :104).
THEOREM ReadsAreAccountedForHolds == SearchSpec => []ReadsAreAccountedFor
<1>1. Accounts => ReadsAreAccountedFor
  <2> SUFFICES ASSUME Accounts PROVE ReadsAreAccountedFor
    OBVIOUS
  <2>1. Len(pages) \in Nat /\ Cardinality(Second) \in Nat /\ Cardinality(Failures) \in Nat
    BY Countable DEF Accounts, SearchInv, Shapes
  <2>2. Len(pages) <= 1 + Cardinality(Second) + Cardinality(Failures)
    BY <2>1 DEF Accounts
  <2> QED BY <2>2 DEF ReadsAreAccountedFor, Second
<1> QED BY <1>1, AccountsSafe, PTL

\* While the key stays and no read fails, any number of searches read the page once
\* (devto-algolia-search.ts:104-110).
THEOREM OneReadIsSharedHolds == SearchSpec => []OneReadIsShared
<1>1. Accounts => OneReadIsShared
  <2> SUFFICES ASSUME Accounts, siteKey = 0, Failures = {} PROVE Len(pages) <= 1
    BY DEF OneReadIsShared
  <2>1. Second = {}
    BY DEF Accounts
  <2>2. Cardinality(Second) = 0 /\ Cardinality(Failures) = 0
    BY <2>1, FS_EmptySet
  <2>3. Len(pages) \in Nat
    BY DEF Accounts, SearchInv, Shapes
  <2> QED BY <2>2, <2>3 DEF Accounts
<1> QED BY <1>1, AccountsSafe, PTL

=============================================================================
