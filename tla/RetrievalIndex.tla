----------------------------- MODULE RetrievalIndex -----------------------------
(***************************************************************************)
(* The snapshots and embeddings that retrieval searches, as                *)
(* RetrievalUseCases.ingest fills them (src/src/core/use-cases/            *)
(* retrieval.ts) through prisma-retrieval-repository.ts: a batch is        *)
(* written row by row, embedded in one call, and its vectors are stored    *)
(* one by one.  Several ingests may run at once.  An embedding provider is  *)
(* configured; without one nothing is embedded.                            *)
(*                                                                         *)
(* A text is a number; 0 is the empty one.                                 *)
(***************************************************************************)
EXTENDS Naturals, Sequences

CONSTANTS
    Ingest,        \* calls of ingest, each made once
    Item,          \* Forem articles
    MaxText,       \* bound: texts 0..MaxText
    MaxMishaps     \* bound: calls that fail, and answers with too few vectors

ASSUME IndexAssumption == MaxText \in Nat /\ MaxMishaps \in Nat

VARIABLES
    snapshots,     \* article_snapshots: the row of an item, if there is one
    vectors,       \* embeddings: which text of which item a row's vector was made from
    ingest,        \* the calls
    overlapped,    \* history: two ingests ran at once
    mishaps        \* failures and missing vectors so far

indexVars == <<snapshots, vectors, ingest, overlapped, mishaps>>

NoRow == {}
NoVector == {}
Batch == {<<>>} \cup {<<i>> : i \in Item} \cup {b \in Item \X Item : b[1] # b[2]}
TextVersion == 0..MaxText

Running(c) == ingest[c].at \in {"upsert", "embed", "store"}

IndexInit ==
    /\ snapshots = [i \in Item |-> NoRow]
    /\ vectors = [i \in Item |-> NoVector]
    /\ ingest = [c \in Ingest |-> [at |-> "idle", batch |-> <<>>, next |-> 1,
                                   toEmbed |-> <<>>, got |-> <<>>]]
    /\ overlapped = FALSE
    /\ mishaps = 0

-----------------------------------------------------------------------------

\* The articles to ingest, with the texts they had when the caller read them.
Begin(c) ==
    /\ ingest[c].at = "idle"
    /\ \E items \in Batch, texts \in [1..2 -> TextVersion] :
         ingest' = [ingest EXCEPT ![c] =
                      [@ EXCEPT !.at = "upsert",
                                !.batch = [k \in DOMAIN items |->
                                             [item |-> items[k], text |-> texts[k]]]]]
    /\ overlapped' = (overlapped \/ \E d \in Ingest : Running(d))
    /\ UNCHANGED <<snapshots, vectors, mishaps>>

\* Mutant: an empty text is embedded too.
EmbedAll(entry) == TRUE

\* Only a text that is not empty is embedded.
ToEmbed(entry) == entry.text # 0

\* The row of an article is created, or takes the newer text.
upsertSnapshot(entry) == [snapshots EXCEPT ![entry.item] = {entry.text}]

\* One article of the batch is written, and remembered for embedding.
Upsert(c) ==
    LET call == ingest[c]
        entry == call.batch[call.next]
    IN  /\ call.at = "upsert" /\ call.next <= Len(call.batch)
        /\ snapshots' = upsertSnapshot(entry)
        /\ ingest' = [ingest EXCEPT ![c].next = @ + 1,
                                    ![c].toEmbed = IF ToEmbed(entry) THEN Append(@, entry) ELSE @]
        /\ UNCHANGED <<vectors, overlapped, mishaps>>

Upserted(c) ==
    /\ ingest[c].at = "upsert" /\ ingest[c].next > Len(ingest[c].batch)
    /\ ingest' = [ingest EXCEPT ![c].at = IF ingest[c].toEmbed = <<>> THEN "done" ELSE "embed",
                                ![c].next = 1]
    /\ UNCHANGED <<snapshots, vectors, overlapped, mishaps>>

\* What a provider may answer to n texts: vectors in the order of the texts, each named by
\* the place of its text, or by 0 if it is empty.  Some may be left out.
Complete(n) == [k \in 1..n |-> k]
ProviderAnswers(n) ==
    {answer \in UNION {[1..m -> 0..n] : m \in 0..n} :
        \A j, k \in DOMAIN answer :
            j < k /\ answer[j] # 0 /\ answer[k] # 0 => answer[j] < answer[k]}

\* The provider leaves a vector out, or one of the vectors is empty.
Short(c) == /\ mishaps < MaxMishaps
            /\ mishaps' = mishaps + 1

embed(c) ==
    /\ ingest[c].at = "embed"
    /\ \E answer \in ProviderAnswers(Len(ingest[c].toEmbed)) :
         /\ ingest' = [ingest EXCEPT ![c].at = "store", ![c].got = answer]
         /\ IF answer # Complete(Len(ingest[c].toEmbed)) THEN Short(c) ELSE UNCHANGED mishaps
    /\ UNCHANGED <<snapshots, vectors, overlapped>>

\* Mutant: the vectors are matched with the batch, empty texts included.
EntryOfBatch(c) == ingest[c].batch[ingest[c].next]

\* The entry that the next vector is taken to be of: it is matched by its place, so that
\* behind a vector left out each is taken to be of the text before its own.
Entry(c) == ingest[c].toEmbed[ingest[c].next]

\* A vector is stored under the row of its entry, in place of an older one; a missing or
\* empty vector is passed over.
storeEmbedding(c) ==
    LET next == ingest[c].next
        got == ingest[c].got
    IN  /\ ingest[c].at = "store" /\ next <= Len(ingest[c].toEmbed)
        /\ vectors' = IF next \in DOMAIN got /\ got[next] # 0
                      THEN [vectors EXCEPT ![Entry(c).item] = {ingest[c].toEmbed[got[next]]}]
                      ELSE vectors
        /\ ingest' = [ingest EXCEPT ![c].next = @ + 1]
        /\ UNCHANGED <<snapshots, overlapped, mishaps>>

Stored(c) ==
    /\ ingest[c].at = "store" /\ ingest[c].next > Len(ingest[c].toEmbed)
    /\ ingest' = [ingest EXCEPT ![c].at = "done"]
    /\ UNCHANGED <<snapshots, vectors, overlapped, mishaps>>

\* A write or the provider's request fails: the call throws and what is written stays.
IngestThrows(c) ==
    /\ Running(c) /\ mishaps < MaxMishaps
    /\ mishaps' = mishaps + 1
    /\ ingest' = [ingest EXCEPT ![c].at = "failed"]
    /\ UNCHANGED <<snapshots, vectors, overlapped>>

IndexNext ==
    \E c \in Ingest :
        \/ Begin(c) \/ Upsert(c) \/ Upserted(c) \/ embed(c)
        \/ storeEmbedding(c) \/ Stored(c) \/ IngestThrows(c)

IndexSpec == IndexInit /\ [][IndexNext]_indexVars

-----------------------------------------------------------------------------

\* The one type invariant.
IndexTypeOK ==
    /\ \A i \in Item : snapshots[i] \subseteq TextVersion
    /\ \A i \in Item : vectors[i] \subseteq [item : Item, text : TextVersion \ {0}]
    /\ \A c \in Ingest : /\ ingest[c].at \in {"idle", "upsert", "embed", "store", "done", "failed"}
                         /\ \A k \in DOMAIN ingest[c].got :
                               ingest[c].got[k] \in 0..Len(ingest[c].toEmbed)
    /\ mishaps \in 0..MaxMishaps

\* While ingests run one after the other and nothing fails, the index is current between
\* them: a row that has text has the vector of just that text.  A vector of an older text,
\* or of another article's, takes an overlap, a failure or a missing vector
\* (retrieval.ts:104-131; openai-compatible.ts:54; prisma-retrieval-repository.ts:38-80).
QuietIndexIsCurrent ==
    (~overlapped /\ mishaps = 0 /\ \A c \in Ingest : ~Running(c)) =>
        \A i \in Item : \A text \in snapshots[i] :
            text # 0 => vectors[i] = {[item |-> i, text |-> text]}

=============================================================================
