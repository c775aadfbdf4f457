--------------------------- MODULE RetrievalPolicies ---------------------------
(***************************************************************************)
(* What retrieval answers: hybrid search, duplication and content gaps     *)
(* (src/src/core/use-cases/retrieval.ts) over the hits of the repository,  *)
(* by the policies ranking.ts, duplication.ts and gap-analysis.ts and the  *)
(* embedding and judgment providers, which may be missing or fail.         *)
(*                                                                         *)
(* Scores are fractions of a named unit; the clock's and the logarithms'   *)
(* reals are abstracted to the levels that the ordering can tell apart.    *)
(***************************************************************************)
EXTENDS Integers, Sequences, FiniteSets, SequencesExt

CONSTANTS
    Snapshot,              \* bound: article snapshots
    About,                 \* what is stored of a snapshot (see below)
    Limit,                 \* bound: limits that a client gives
    Topics,                \* bound: configured topics that a client gives
    DEFAULT_SEARCH_LIMIT, MAX_SEARCH_LIMIT,              \* 20 and 100 in the code
    MAX_THEMES, MAX_QUESTIONS, MAX_REPRESENTATIVE,       \* 8, 8 and 5 in the code
    Title, Tags,           \* bound: word sets of titles, tag sets
    Priors,                \* bound: what the author has written before, in every order
    TextScore, VectorScore,          \* bound: raw scores of the two searches
    ProviderScore,         \* bound: what a judgment provider answers (see below)
    NoLimit                \* the client gave none

\* A snapshot is [published, comments, reactions, tags, engaged]: published is nothing, or
\* the age in half-lives (at most 3), -1 for the future; comments and reactions are a count
\* of 10^k - 1 each, or -1 for a negative one, given as k, as the score takes their
\* logarithm; engaged is their sum.  A provider judges in halves of a level, whether or not
\* there is such a level.
Work == [title : Title, tags : Tags]

ASSUME PolicyAssumption ==
    /\ IsFiniteSet(Snapshot)
    /\ \A s \in Snapshot :
          /\ About[s].comments \in -1..3 /\ About[s].reactions \in -1..3
          /\ About[s].published \in {{}} \cup {{age} : age \in -1..3}
          /\ About[s].tags \in Seq(STRING)
    /\ DEFAULT_SEARCH_LIMIT \in 1..MAX_SEARCH_LIMIT /\ MAX_SEARCH_LIMIT \in Nat
    /\ \A limit \in Limit : limit # NoLimit => limit \in Int
    /\ \A topics \in Topics : topics \in Seq(STRING)
    /\ \A set \in Title \cup Tags : IsFiniteSet(set)
    /\ Priors \subseteq Seq(Work)
    /\ TextScore \subseteq Int /\ VectorScore \subseteq Int /\ ProviderScore \subseteq Int

VARIABLES
    question,      \* the call, with what the database and the provider answer to it
    returned       \* what it returned, or nothing yet

policyVars == <<question, returned>>

Nothing == {}
Least(a, b) == IF a <= b THEN a ELSE b
Greatest(a, b) == IF a >= b THEN a ELSE b
Clamp(n, low, high) == Least(Greatest(n, low), high)
First(seq, n) == SubSeq(seq, 1, Least(n, Len(seq)))

\* A stable sort, highest score first.
Before(seq, score, i, j) == \/ score[seq[i]] > score[seq[j]]
                            \/ score[seq[i]] = score[seq[j]] /\ i < j
Place(seq, score, i) == 1 + Cardinality({j \in DOMAIN seq : Before(seq, score, j, i)})
Ranked(seq, score) ==
    [n \in DOMAIN seq |-> seq[CHOOSE i \in DOMAIN seq : Place(seq, score, i) = n]]

\* Stored tags and topics are compared in lower case; "JS" stands for those that are not.
Folded(tag) == IF tag = "JS" THEN "js" ELSE tag

-----------------------------------------------------------------------------
(* ranking.ts, in twelfths; weights in tenths *)

ONE == 12
WEIGHT == [semantic |-> 4, recency |-> 2, engagement |-> 2, topic |-> 2]

\* What is left of ONE after 0, 1, 2, 3 half-lives.
HALVED == <<ONE, ONE \div 2, ONE \div 4, ONE \div 8>>

recencyScore(published) ==
    IF published = {} THEN ONE \div 2
    ELSE CHOOSE n \in 0..ONE : \E age \in published : n = HALVED[Greatest(age, 0) + 1]

engagementScore(comments, reactions) ==
    Least((ONE \div 3) * (Greatest(0, comments) + Greatest(0, reactions)), ONE)

topicRelevance(tags, topics) ==
    LET matched == Cardinality({i \in DOMAIN tags :
                                  \E u \in ToSet(topics) : Folded(tags[i]) = Folded(u)})
    IN  IF topics = <<>> THEN ONE \div 2
        ELSE Least((ONE * matched) \div Len(topics), ONE)

\* A score by the range of all: the worst hit of several counts nothing, a lone hit half.
normalize(scores, score) ==
    LET all == {scores[s] : s \in DOMAIN scores}
        max == CHOOSE n \in all : \A m \in all : m <= n
        min == CHOOSE n \in all : \A m \in all : n <= m
    IN  IF max = min THEN ONE \div 2 ELSE (ONE * (score - min)) \div (max - min)

\* Hits are functions from the snapshots found to their raw scores.
NoHits == [s \in {} |-> 0]

\* The stronger signal counts; a snapshot that is found has at least zero.
semantic(textHits, vectorHits, s) ==
    LET text == IF s \in DOMAIN textHits THEN normalize(textHits, textHits[s]) ELSE 0
        vector == IF s \in DOMAIN vectorHits THEN vectorHits[s] ELSE 0
    IN  Greatest(text, vector)

OtherScore(s, topics) ==
    WEIGHT.recency * recencyScore(About[s].published)
      + WEIGHT.engagement * engagementScore(About[s].comments, About[s].reactions)
      + WEIGHT.topic * topicRelevance(About[s].tags, topics)

Composite(textHits, vectorHits, topics, s) ==
    WEIGHT.semantic * semantic(textHits, vectorHits, s) + OtherScore(s, topics)

\* A search of the repository: the best hits, best first, up to the limit.
Listed(set, found) == Ranked(SetToSeq(set), found)
Hits(found, limit) == First(Listed(DOMAIN found, found), limit)
Kept(found, limit) == [s \in ToSet(Hits(found, limit)) |-> found[s]]

\* Text hits come first, then the vector hits that are new.
Candidates(texts, vectors) ==
    Listed(DOMAIN texts, texts) \o Listed(DOMAIN vectors \ DOMAIN texts, vectors)
CompositeOf(texts, vectors, topics) ==
    [s \in DOMAIN texts \cup DOMAIN vectors |-> Composite(texts, vectors, topics, s)]

\* Mutant: the list is cut before it is ranked.
BoundsFirst(textHits, vectorHits, topics, limit) ==
    LET texts == Kept(textHits, limit)
        vectors == Kept(vectorHits, limit)
    IN  Ranked(First(Candidates(texts, vectors), limit), CompositeOf(texts, vectors, topics))

rankHybrid(textHits, vectorHits, topics, limit) ==
    LET texts == Kept(textHits, limit)
        vectors == Kept(vectorHits, limit)
    IN  Ranked(Candidates(texts, vectors), CompositeOf(texts, vectors, topics))

-----------------------------------------------------------------------------
(* duplication.ts: similarities are fractions <<numerator, denominator>> *)

Below(x, y) == x[1] * y[2] < y[1] * x[2]

tokenSimilarity(a, b) ==
    IF a \cup b = {} THEN <<0, 1>> ELSE <<Cardinality(a \cap b), Cardinality(a \cup b)>>

tagOverlap(a, b) ==
    IF a = {} \/ b = {} THEN <<0, 1>>
    ELSE <<Cardinality(a \cap b), Least(Cardinality(a), Cardinality(b))>>

deterministicSimilarity(candidate, prior) ==
    LET words == tokenSimilarity(candidate.title, prior.title)
        tags == tagOverlap(candidate.tags, prior.tags)
    IN  IF Below(words, tags) THEN tags ELSE words

\* The first of the priors that are most similar, if any is similar at all.
bestDeterministicMatch(candidate, priors) ==
    LET Sim(i) == deterministicSimilarity(candidate, priors[i])
    IN  {i \in DOMAIN priors :
            /\ Below(<<0, 1>>, Sim(i))
            /\ \A j \in DOMAIN priors : ~Below(Sim(i), Sim(j)) /\ (j < i => Below(Sim(j), Sim(i)))}

DUPLICATION_THRESHOLD == <<6, 10>>

\* The provider's score of four levels, in halves of a level.
LEVELS == 6
Judged(score) == <<Clamp(score, 0, LEVELS), LEVELS>>

-----------------------------------------------------------------------------
(* gap-analysis.ts; evidence is a sequence of snapshots; confidence in thirtieths *)

FULL == 30
TagsOf(evidence) == FlattenSeq([n \in DOMAIN evidence |->
                                  [k \in DOMAIN About[evidence[n]].tags |->
                                     Folded(About[evidence[n]].tags[k])]])
Uses(evidence, tag) == Len(SelectSeq(TagsOf(evidence), LAMBDA t : t = tag))

\* The first occurrence of each element.
Once(seq) == FoldLeft(LAMBDA kept, e : IF Contains(kept, e) THEN kept ELSE Append(kept, e),
                      <<>>, seq)

\* The tags used most, each once, in the order they are found.
extractThemes(evidence) ==
    First(Ranked(Once(TagsOf(evidence)), [t \in ToSet(TagsOf(evidence)) |-> Uses(evidence, t)]),
          MAX_THEMES)

\* A question is a theme, or the query itself: <<>>.
deriveUnderservedQuestions(themes, evidence) ==
    LET thin == SelectSeq([n \in DOMAIN themes |-> <<themes[n]>>],
                          LAMBDA q : Uses(evidence, q[1]) <= 1)
    IN  First(IF Len(evidence) <= 1 THEN <<(<<>>)>> \o thin ELSE thin, MAX_QUESTIONS)

representativeArticles(evidence) ==
    First(Ranked(evidence, [s \in Snapshot |-> About[s].engaged]), MAX_REPRESENTATIVE)

evidenceConfidence(evidence) == Least((FULL \div 5) * Len(evidence), FULL)

\* Mutant: the confidence is the coverage.
CoverageConfidence(score) == (FULL \div LEVELS) * Clamp(score, 0, LEVELS)

\* The provider's coverage of four levels, in halves; a gap is what is not covered.
GapConfidence(score) == Clamp(FULL - (FULL \div LEVELS) * Clamp(score, 0, LEVELS), 0, FULL)

\* No provider, or full coverage, gives no confidence; the evidence is counted instead.
\* Neither provider names themes, questions or articles.
boundGapAnalysis(confidence, evidence) ==
    LET themes == extractThemes(evidence)
    IN  [kind |-> "gap", themes |-> themes,
         questions |-> deriveUnderservedQuestions(themes, evidence),
         representative |-> representativeArticles(evidence),
         confidence |-> IF confidence > 0 THEN confidence ELSE evidenceConfidence(evidence)]

-----------------------------------------------------------------------------
(* retrieval.ts *)

ErrorOf(code) == [kind |-> "error", code |-> code]

\* A search limit that is given has to be a positive integer, and is cut to the maximum.
LimitOf(limit) ==
    IF limit = NoLimit THEN DEFAULT_SEARCH_LIMIT ELSE Least(limit, MAX_SEARCH_LIMIT)
LimitRefused(limit) == limit # NoLimit /\ limit < 1

\* A query is embedded only if there is a provider and a vector to compare it with.
hasEmbeddings(provider, vectors) == provider # "none" /\ DOMAIN vectors # {}

\* The hits of the vector search; an empty vector finds nothing.
embedAndSearch(provider, vectors) ==
    IF provider = "empty" THEN NoHits ELSE vectors

hybridSearch(q) ==
    LET limit == LimitOf(q.limit)
        asks == hasEmbeddings(q.provider, q.vectors)
        found == IF asks THEN embedAndSearch(q.provider, q.vectors) ELSE NoHits
    IN  IF q.blank \/ LimitRefused(q.limit) THEN ErrorOf("INVALID_INPUT")
        ELSE IF asks /\ q.provider = "fails" THEN ErrorOf("UPSTREAM")
        ELSE [kind |-> "results",
              ranked |-> First(rankHybrid(q.texts, found, q.topics, limit), limit)]

\* The judgment provider is asked of an author who has written before.
JudgmentAsked(q) == q.provider # "none" /\ q.priors # <<>>

\* Mutant: the provider's own verdict is taken.
JudgedDuplicate(judged, closest) ==
    ~Below(judged, <<5, 10>>) \/ ~Below(closest, DUPLICATION_THRESHOLD)

\* The provider's score and the closest prior's count alike.
IsDuplicate(judged, closest) ==
    ~Below(judged, DUPLICATION_THRESHOLD) \/ ~Below(closest, DUPLICATION_THRESHOLD)

\* The title that is named is the closest by words and tags, whoever found the duplicate.
detectDuplication(q) ==
    LET judged == IF JudgmentAsked(q) THEN Judged(q.score) ELSE <<0, 1>>
        best == bestDeterministicMatch(q.candidate, q.priors)
        closest == IF best = {} THEN <<0, 1>>
                   ELSE deterministicSimilarity(q.candidate, q.priors[CHOOSE i \in best : TRUE])
    IN  IF JudgmentAsked(q) /\ q.provider = "fails" THEN ErrorOf("UPSTREAM")
        ELSE [kind |-> "duplication", duplicate |-> IsDuplicate(judged, closest),
              matched |-> IF IsDuplicate(judged, closest) THEN best ELSE Nothing]

analyzeContentGap(q) ==
    IF q.blank THEN ErrorOf("INVALID_INPUT")
    ELSE IF q.provider = "fails" THEN ErrorOf("UPSTREAM")
    ELSE boundGapAnalysis(IF q.provider = "none" THEN 0 ELSE GapConfidence(q.score), q.evidence)

-----------------------------------------------------------------------------

Scores(S) == UNION {[f -> S] : f \in SUBSET Snapshot}
PolicyInit ==
    /\ \/ /\ question \in [ask : {"search"}, blank : BOOLEAN, limit : Limit, topics : Topics,
                        texts : Scores(TextScore), vectors : Scores(VectorScore),
                        provider : {"none", "ok", "empty", "fails"}]
          /\ question.blank => question.texts = NoHits /\ question.vectors = NoHits
       \/ question \in [ask : {"duplication"}, candidate : Work, priors : Priors,
                     score : ProviderScore, provider : {"none", "ok", "fails"}]
       \/ question \in [ask : {"gap"}, blank : BOOLEAN, evidence : SetToAllKPermutations(Snapshot),
                     score : ProviderScore, provider : {"none", "ok", "fails"}]
    /\ returned = {}

AskSearch == question.ask = "search" /\ returned' = {hybridSearch(question)}
AskDuplication == question.ask = "duplication" /\ returned' = {detectDuplication(question)}
AskGap == question.ask = "gap" /\ returned' = {analyzeContentGap(question)}

PolicyNext == /\ returned = {}
              /\ AskSearch \/ AskDuplication \/ AskGap
              /\ UNCHANGED question

PolicySpec == PolicyInit /\ [][PolicyNext]_policyVars

-----------------------------------------------------------------------------
(* What the answers guarantee *)

Returned(kind) == {a \in returned : a.kind = kind}

\* A result list has no snapshot twice and keeps the limit, and a snapshot that either
\* search found and the list leaves out scores no higher than any that is listed
\* (retrieval.ts:161-174, ranking.ts:94-148).
BestFoundAreListed ==
    \A a \in Returned("results") :
        LET limit == LimitOf(question.limit)
            texts == Kept(question.texts, limit)
            vectors == IF question.provider = "ok" THEN Kept(question.vectors, limit) ELSE NoHits
            Score(s) == Composite(texts, vectors, question.topics, s)
        IN  /\ Len(a.ranked) = Cardinality(ToSet(a.ranked)) /\ Len(a.ranked) <= limit
            /\ \A i, j \in DOMAIN a.ranked : i < j => Score(a.ranked[i]) >= Score(a.ranked[j])
            /\ \A s \in (DOMAIN texts \cup DOMAIN vectors) \ ToSet(a.ranked) :
                 /\ Len(a.ranked) = limit
                 /\ \A i \in DOMAIN a.ranked : Score(a.ranked[i]) >= Score(s)

\* A candidate is a duplicate only for a cause of at least six tenths: the judgment or an
\* earlier article; the article it names is then the closest by words and tags
\* (retrieval.ts:182-197, duplication.ts:35-65).
DuplicateForCause ==
    \A a \in Returned("duplication") :
        LET Sim(i) == deterministicSimilarity(question.candidate, question.priors[i])
            Reaches(x) == 10 * x[1] >= 6 * x[2]
        IN  /\ a.duplicate <=> \/ \E i \in DOMAIN question.priors : Reaches(Sim(i))
                               \/ JudgmentAsked(question) /\ 10 * question.score >= 6 * LEVELS
            /\ \A m \in a.matched : \A i \in DOMAIN question.priors : ~Below(Sim(m), Sim(i))

\* Less coverage never means less confidence in a gap, with one exception: full coverage
\* is taken for no judgment, and the evidence is counted instead, so that five articles
\* that cover the query give full confidence (typesafe.ts:99-103, gap-analysis.ts:90-93).
ConfidenceFallsWithCoverage ==
    \A a \in Returned("gap") : question.provider = "ok" =>
        \A less \in {n \in ProviderScore : n < question.score} :
            LET other == analyzeContentGap([question EXCEPT !.score = less])
            IN  other.confidence >= a.confidence \/ question.score >= LEVELS

=============================================================================
