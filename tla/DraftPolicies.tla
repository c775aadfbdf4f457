----------------------------- MODULE DraftPolicies -----------------------------
(***************************************************************************)
(* What the drafting use case decides of texts: the checks of lintDraft    *)
(* (src/src/core/policies/draft-linting.ts, citations.ts) and the two      *)
(* gates that ask them, and what generateIdeas and generateDraft accept    *)
(* from the generation provider (core/use-cases/drafting.ts).  What the    *)
(* gates do to the draft's state is in ArticlePublishing.                  *)
(*                                                                         *)
(* A line is the set of its marks, which are what the patterns match, and  *)
(* the set of its words; a text is a sequence of lines.                    *)
(***************************************************************************)
EXTENDS Naturals, Sequences, FiniteSets, SequencesExt

CONSTANTS
    Text,          \* bound: the texts that occur
    Prior,         \* bound: the word sets of prior articles that a client sends
    Term,          \* bound: terms that a client prohibits, none of them empty
    DEFAULT_PROHIBITED,
    Threshold,     \* bound: similarities, in tenths, from which a paragraph is a copy
    MAX_IDEAS,     \* 10 in the code
    MaxIdeas       \* bound: ideas in an answer of the provider

ASSUME DraftAssumption ==
    /\ MAX_IDEAS \in Nat /\ MaxIdeas \in Nat
    /\ DEFAULT_PROHIBITED \subseteq Term /\ Threshold \subseteq Int

VARIABLES
    draftAsked,    \* the call
    draftAnswer    \* what it returned, or nothing yet

draftVars == <<draftAsked, draftAnswer>>

\* "link" and "badLink" are Markdown links whose target is a URL and is none; "openLink" is
\* a link without a target or with one that has a space in it, as in [x]() and [x](u "t");
\* "reference" is [1], "verify" a marker, "fence" and "bareFence" lines that open or close
\* a code block with and without a language, "long" makes its paragraph longer than 40.  A
\* prohibited term that a line contains is a mark of it as well.
Mark == {"claim", "link", "badLink", "openLink", "reference", "verify", "fence", "bareFence",
         "experience", "long"} \cup Term
Line(marks, words) == [marks |-> marks, words |-> words]
Blank == Line({}, {})

LinesWith(text, mark) == {i \in DOMAIN text : mark \in text[i].marks}

\* Link targets, well-formed or not, but not those with a space, nor an empty one.
extractCitations(text) == LinesWith(text, "link") \cup LinesWith(text, "badLink")
countVerificationMarkers(text) == Cardinality(LinesWith(text, "verify"))

-----------------------------------------------------------------------------
(* The checks: each gives findings [check, line] *)

Finding(check, lines) == {[check |-> check, line |-> i] : i \in lines}

\* A paragraph is a longest run of lines that are not blank; its line is its first.
Paragraphs(text) ==
    {p \in (DOMAIN text) \X (DOMAIN text) :
        /\ p[1] <= p[2] /\ \A k \in p[1]..p[2] : text[k] # Blank
        /\ p[1] > 1 => text[p[1] - 1] = Blank
        /\ p[2] < Len(text) => text[p[2] + 1] = Blank}
Words(text, p) == UNION {text[k].words : k \in p[1]..p[2]}

\* Jaccard similarity of a and b is at least tenths/10; two empty sets are not similar.
SimilarBy(a, b, tenths) ==
    /\ a \cup b # {}
    /\ 10 * Cardinality(a \cap b) >= tenths * Cardinality(a \cup b)

Compared(text) ==
    {p \in Paragraphs(text) : \E k \in p[1]..p[2] : "long" \in text[k].marks}

\* Findings of equal similarity are reported once, which is left out.
checkDuplication(text, options) ==
    Finding("duplication",
            {p[1] : p \in {q \in Compared(text) :
                             \E prior \in options.priors :
                                SimilarBy(prior, Words(text, q), options.threshold)}})

\* A link, an image or a marker anywhere in the text supports every claim of it; on the line
\* of the claim the head of a link is enough, whatever follows it.
checkUnsupportedClaims(text) ==
    Finding("unsupported-claim",
            {i \in LinesWith(text, "claim") :
                /\ text[i].marks \cap {"link", "badLink", "openLink", "reference"} = {}
                /\ countVerificationMarkers(text) = 0
                /\ extractCitations(text) = {}})

\* An open link has no target that could be broken.
checkBrokenLinks(text) == Finding("broken-link", LinesWith(text, "badLink"))

\* Closing fences have no language either.
checkCodeContext(text) == Finding("code-context", LinesWith(text, "bareFence"))

\* A term is reported once, which is left out.
checkProhibitedContent(text, prohibited) ==
    Finding("prohibited-content", UNION {LinesWith(text, term) : term \in prohibited})

checkPersonalExperience(text, userConfirmed) ==
    IF userConfirmed THEN {} ELSE Finding("personal-experience", LinesWith(text, "experience"))

lintDraft(text, options) ==
    checkDuplication(text, options) \cup checkUnsupportedClaims(text)
        \cup checkBrokenLinks(text) \cup checkCodeContext(text)
        \cup checkProhibitedContent(text, options.prohibited)
        \cup checkPersonalExperience(text, options.userConfirmedExperience)

blockers(findings) == {f \in findings : f.check # "code-context"}

-----------------------------------------------------------------------------
(* The gates *)

DefaultOptions == [priors |-> {}, prohibited |-> DEFAULT_PROHIBITED,
                   userConfirmedExperience |-> FALSE, threshold |-> 6]

\* A client sends what it likes, terms in place of the defaults.
Options == [priors : SUBSET Prior, prohibited : SUBSET Term,
            userConfirmedExperience : BOOLEAN, threshold : Threshold]

assertNoBlockers(text, options) ==
    IF blockers(lintDraft(text, options)) = {} THEN "accepted" ELSE "DRAFT_QUALITY"

persistDraft(text, options) == assertNoBlockers(text, options)

\* Mutant: the review asks with the options the draft was saved with.
SubmitsAsSaved(text, saved) == assertNoBlockers(text, saved)

\* The review asks with the default options, whatever the draft was saved with.
submitForReview(text, saved) == assertNoBlockers(text, DefaultOptions)

-----------------------------------------------------------------------------
(* Generation *)

\* The provider's text: a JSON array, prose with an array in it, prose whose brackets
\* hold no JSON, or JSON that is no array; an idea is well-formed or not.
Reply == [form : {"array", "wrapped", "prose", "object"}, ideas : SeqOf(BOOLEAN, MaxIdeas)]

Reject(code) == [kind |-> "error", code |-> code, ideas |-> <<>>]

\* Mutant: the ideas are cut to the count before they are looked at.
CutsFirst(reply, count) ==
    LET kept == SubSeq(reply.ideas, 1, IF count < Len(reply.ideas) THEN count ELSE Len(reply.ideas))
    IN  [kind |-> "ideas", code |-> "none", ideas |-> kept]

\* parseIdeas: the whole array has to be well-formed; then it is cut to the count.
Parsed(reply, count) ==
    IF reply.form \notin {"array", "wrapped"} \/ \E i \in DOMAIN reply.ideas : ~reply.ideas[i]
    THEN Reject("UPSTREAM_PAYLOAD_ERROR")
    ELSE [kind |-> "ideas", code |-> "none",
          ideas |-> SubSeq(reply.ideas, 1,
                           IF count < Len(reply.ideas) THEN count ELSE Len(reply.ideas))]

clampCount(count) == IF count < MAX_IDEAS THEN count ELSE MAX_IDEAS

\* The provider may be missing, or fail.
generate(provider, answer) ==
    CASE provider = "none"  -> Reject("INVALID_INPUT")
      [] provider = "fails" -> Reject("UPSTREAM")
      [] OTHER              -> answer

\* The count is checked before the provider is asked.
generateIdeas(count, provider, reply) ==
    IF count < 1 THEN Reject("INVALID_INPUT")
    ELSE generate(provider, Parsed(reply, clampCount(count)))

\* A draft is whatever text the provider writes, with its citations and markers counted;
\* no check is made of it.
generateDraft(provider, text) ==
    generate(provider, [kind |-> "draft", citations |-> Cardinality(extractCitations(text)),
                        markers |-> countVerificationMarkers(text)])

-----------------------------------------------------------------------------

Provider == {"none", "fails", "ok"}

DraftQuestions ==
    [ask : {"gates"}, text : Text, options : Options]
        \cup [ask : {"ideas"}, count : 0..(MAX_IDEAS + 1), provider : Provider, reply : Reply]
        \cup [ask : {"draft"}, text : Text, provider : Provider]

DraftInit == draftAsked \in DraftQuestions /\ draftAnswer = {}

\* A text is offered to both gates.
AskGates ==
    /\ draftAsked.ask = "gates"
    /\ draftAnswer' = {[kind |-> "gates",
                        saved |-> persistDraft(draftAsked.text, draftAsked.options),
                        submitted |-> submitForReview(draftAsked.text, draftAsked.options)]}

AskIdeas ==
    /\ draftAsked.ask = "ideas"
    /\ draftAnswer' = {generateIdeas(draftAsked.count, draftAsked.provider, draftAsked.reply)}

AskDraft ==
    /\ draftAsked.ask = "draft"
    /\ draftAnswer' = {generateDraft(draftAsked.provider, draftAsked.text)}

DraftNext == /\ draftAnswer = {}
             /\ AskGates \/ AskIdeas \/ AskDraft
             /\ UNCHANGED draftAsked

DraftSpec == DraftInit /\ [][DraftNext]_draftVars

-----------------------------------------------------------------------------
(* What the decisions guarantee *)

\* The text of the question, which the review accepts.
Offered == draftAsked.text
Reviewed == \E a \in draftAnswer : a.kind = "gates" /\ a.submitted = "accepted"

\* In a text that passes the review every claim has something to show for it: a marker or a
\* link somewhere whose target is a URL, and nothing else but the look of a source on its
\* own line, [1] or the head of a link, which no check follows up.  And the review is the
\* stricter gate: the text could have been saved whatever a client confirms or allows,
\* refused only for articles or terms that the client adds itself.  So a text saved as the
\* author's confirmed experience is never reviewed (draft-linting.ts:65-68 and :107-145,
\* citations.ts:1; drafting.ts:175, 206).
ReviewedTextIsSound ==
    Reviewed =>
        /\ \A i \in LinesWith(Offered, "claim") :
             \/ LinesWith(Offered, "verify") \cup LinesWith(Offered, "link") # {}
             \/ Offered[i].marks \cap {"reference", "openLink"} # {}
        /\ \A o \in Options :
             persistDraft(Offered, o) # "accepted" =>
                 \/ checkDuplication(Offered, o) # {}
                 \/ \E term \in o.prohibited \ DEFAULT_PROHIBITED : LinesWith(Offered, term) # {}

\* One malformed idea refuses the provider's whole answer, beyond the count that was
\* asked for too, and never more than the limit are returned (drafting.ts:123, 255-286).
IdeasAllOrNothing ==
    \A a \in draftAnswer : a.kind = "ideas" =>
        /\ \A i \in DOMAIN draftAsked.reply.ideas : draftAsked.reply.ideas[i]
        /\ Len(a.ideas) <= draftAsked.count /\ Len(a.ideas) <= MAX_IDEAS

=============================================================================
