----------------------------- MODULE ContentProofs -----------------------------
(***************************************************************************)
(* Proofs about what is found and what is written: the retrieval index,    *)
(* the gates of drafting, and the answers of retrieval.                    *)
(***************************************************************************)
EXTENDS RetrievalIndex, DraftPolicies, RetrievalPolicies, FiniteSetTheorems, SequenceTheorems, TLAPS

-----------------------------------------------------------------------------
(* The retrieval index.  A call of ingest is typed with its lists, which an   *)
(* ingest only makes longer or walks along.                                   *)

EntryOf == [item : Item, text : TextVersion]

Call == [at : {"idle", "upsert", "embed", "store", "done", "failed"},
         batch : Seq(EntryOf), next : Nat \ {0}, toEmbed : Seq(EntryOf),
         got : Seq(Nat)]

\* A vector is of a text that was sent, or empty.
Fits(got, sent) == \A m \in DOMAIN got : got[m] = 0 \/ got[m] \in DOMAIN sent

IndexTyped ==
    /\ snapshots \in [Item -> SUBSET TextVersion]
    /\ vectors \in [Item -> SUBSET [item : Item, text : TextVersion \ {0}]]
    /\ ingest \in [Ingest -> Call]
    /\ overlapped \in BOOLEAN /\ mishaps \in 0..MaxMishaps
    /\ \A c \in Ingest :
         /\ \A m \in DOMAIN ingest[c].toEmbed : ingest[c].toEmbed[m].text # 0
         /\ Fits(ingest[c].got, ingest[c].toEmbed)
         /\ ingest[c].at = "idle" => ingest[c].next = 1 /\ ingest[c].toEmbed = <<>>
         /\ ingest[c].at \in {"idle", "upsert", "embed"} => ingest[c].got = <<>>

\* The row of an item has no text, or the vector of its text.
Current(i) == \A text \in snapshots[i] : text # 0 => vectors[i] = {[item |-> i, text |-> text]}

\* The place of an entry whose vector is still to be stored.
Ahead(k, m) == m \in DOMAIN k.toEmbed /\ (k.at = "store" => m >= k.next)

\* An ingest that runs alone knows every row that is not current: the row holds the text
\* of an entry that is to be embedded.  No item is twice in its batch.
Covers(k) ==
    /\ \A i \in Item : Current(i) \/ \E m \in Nat : Ahead(k, m) /\ k.toEmbed[m].item = i
    /\ \A m \in DOMAIN k.toEmbed : snapshots[k.toEmbed[m].item] = {k.toEmbed[m].text}
    /\ k.at = "upsert" =>
         /\ \A m \in DOMAIN k.toEmbed : \E l \in DOMAIN k.batch :
              l < k.next /\ k.toEmbed[m].item = k.batch[l].item
         /\ \A l, m \in DOMAIN k.batch : k.batch[l].item = k.batch[m].item => l = m
    /\ k.at = "embed" => k.next = 1
    /\ k.at = "store" => \A m \in DOMAIN k.toEmbed : m \in DOMAIN k.got /\ k.got[m] = m

Alone == \A c, d \in Ingest : (Running(c) /\ Running(d)) => c = d

Quiet == /\ Alone
         /\ \A c \in Ingest : ingest[c].at # "failed"
         /\ \A c \in Ingest : Running(c) => Covers(ingest[c])
         /\ (\A c \in Ingest : ~Running(c)) => \A i \in Item : Current(i)

IndexInv == IndexTyped /\ (~overlapped /\ mishaps = 0 => Quiet)

\* What Append does to a list and its places.
LEMMA AppendFacts ==
    ASSUME NEW S, NEW s \in Seq(S), NEW e \in S
    PROVE  /\ Append(s, e) \in Seq(S)
           /\ DOMAIN s = 1..Len(s) /\ DOMAIN Append(s, e) = 1..(Len(s) + 1)
           /\ Append(s, e)[Len(s) + 1] = e
           /\ \A m \in 1..Len(s) : Append(s, e)[m] = s[m]
           /\ Len(s) \in Nat
  OBVIOUS

\* A step of one ingest to a call that is typed keeps the types.
LEMMA TypedStep ==
    ASSUME IndexTyped, NEW c \in Ingest, NEW n \in Call, ingest' = [ingest EXCEPT ![c] = n],
           \A m \in DOMAIN n.toEmbed : n.toEmbed[m].text # 0,
           Fits(n.got, n.toEmbed),
           n.at = "idle" => n.next = 1 /\ n.toEmbed = <<>>,
           n.at \in {"idle", "upsert", "embed"} => n.got = <<>>,
           snapshots' \in [Item -> SUBSET TextVersion],
           vectors' \in [Item -> SUBSET [item : Item, text : TextVersion \ {0}]],
           overlapped' \in BOOLEAN, mishaps' \in 0..MaxMishaps
    PROVE  /\ IndexTyped' /\ ingest'[c] = n
           /\ \A d \in Ingest \ {c} : ingest'[d] = ingest[d]
<1>1. ingest' \in [Ingest -> Call] /\ ingest'[c] = n
      /\ \A d \in Ingest \ {c} : ingest'[d] = ingest[d]
  BY DEF IndexTyped
<1>2. ASSUME NEW d \in Ingest
      PROVE  /\ \A m \in DOMAIN ingest'[d].toEmbed : ingest'[d].toEmbed[m].text # 0
             /\ Fits(ingest'[d].got, ingest'[d].toEmbed)
             /\ ingest'[d].at = "idle" => ingest'[d].next = 1 /\ ingest'[d].toEmbed = <<>>
             /\ ingest'[d].at \in {"idle", "upsert", "embed"} => ingest'[d].got = <<>>
  <2>1. CASE d = c
    BY <2>1, <1>1
  <2>2. CASE d # c
    BY <2>2, <1>1 DEF IndexTyped
  <2> QED BY <2>1, <2>2
<1> QED BY <1>1, <1>2 DEF IndexTyped

\* While an ingest runs alone, its steps are all that must keep the index covered.
LEMMA QuietStep ==
    ASSUME Quiet, NEW c \in Ingest, Running(c), NEW n, ingest'[c] = n, n.at # "failed",
           \A d \in Ingest \ {c} : ingest'[d] = ingest[d],
           n.at \in {"upsert", "embed", "store"} => Covers(n)',
           n.at \notin {"upsert", "embed", "store"} => \A i \in Item : Current(i)'
    PROVE  Quiet'
<1>1. \A d \in Ingest \ {c} : ~Running(d) /\ ingest[d].at # "failed"
  BY DEF Quiet, Alone
<1>2. \A d \in Ingest \ {c} : ~Running(d)' /\ ingest'[d].at # "failed"
  BY <1>1 DEF Running
<1>3. Alone'
  BY <1>2 DEF Alone
<1>4. ASSUME NEW d \in Ingest, Running(d)'
      PROVE  Covers(ingest[d])'
  <2>1. d = c /\ ingest'[d] = n
    BY <1>2, <1>4
  <2>2. Covers(n)'
    BY <1>4, <2>1 DEF Running
  <2> QED BY <2>1, <2>2 DEF Covers, Current
<1>5. (\A d \in Ingest : ~Running(d)') => \A i \in Item : Current(i)'
  BY DEF Running
<1> QED BY <1>2, <1>3, <1>4, <1>5 DEF Quiet

\* What a call may be set to.
LEMMA CallFields ==
    ASSUME NEW k \in Call
    PROVE  /\ k.next \in Nat \ {0} /\ k.next + 1 \in Nat \ {0} /\ 1 \in Nat \ {0}
           /\ k.toEmbed \in Seq(EntryOf) /\ k.batch \in Seq(EntryOf)
           /\ DOMAIN k.toEmbed \subseteq Nat \ {0} /\ DOMAIN k.batch \subseteq Nat \ {0}
           /\ \A m \in DOMAIN k.toEmbed : k.toEmbed[m] \in EntryOf /\ k.toEmbed[m].item \in Item
           /\ Len(k.toEmbed) \in Nat /\ DOMAIN k.toEmbed = 1..Len(k.toEmbed)
           /\ Len(k.batch) \in Nat /\ DOMAIN k.batch = 1..Len(k.batch)
<1>1. k.next \in Nat \ {0} /\ k.toEmbed \in Seq(EntryOf) /\ k.batch \in Seq(EntryOf)
  BY DEF Call
<1>2. k.next + 1 \in Nat \ {0} /\ 1 \in Nat \ {0}
  BY <1>1
<1>3. /\ Len(k.toEmbed) \in Nat /\ DOMAIN k.toEmbed = 1..Len(k.toEmbed)
      /\ Len(k.batch) \in Nat /\ DOMAIN k.batch = 1..Len(k.batch)
      /\ \A m \in DOMAIN k.toEmbed : k.toEmbed[m] \in EntryOf
  BY <1>1
<1>4. \A m \in DOMAIN k.toEmbed : k.toEmbed[m].item \in Item
  BY <1>3 DEF EntryOf
<1> QED BY <1>1, <1>2, <1>3, <1>4

\* An index without rows is current, and no ingest runs.
LEMMA InitIndex == IndexInit => IndexInv
<1>. SUFFICES ASSUME IndexInit
              PROVE  IndexInv
  OBVIOUS
<1>0. <<>> \in Seq(EntryOf)
  OBVIOUS
<1>. DEFINE n == [at |-> "idle", batch |-> <<>>, next |-> 1, toEmbed |-> <<>>, got |-> <<>>]
<1>1. n \in Call
  BY <1>0 DEF Call
<1>2. \A c \in Ingest : ingest[c] = n
  BY DEF IndexInit
<1>3. n.at = "idle" /\ n.next = 1 /\ n.toEmbed = <<>> /\ n.got = <<>>
  OBVIOUS
<1>4. IndexTyped
  <2>1. ingest \in [Ingest -> Call]
    BY <1>1 DEF IndexInit
  <2>2. /\ snapshots \in [Item -> SUBSET TextVersion]
        /\ vectors \in [Item -> SUBSET [item : Item, text : TextVersion \ {0}]]
    BY DEF IndexInit, NoRow, NoVector
  <2>4. mishaps \in 0..MaxMishaps
    BY IndexAssumption DEF IndexInit
  <2>5. overlapped \in BOOLEAN
    BY DEF IndexInit
  <2>3. \A m \in DOMAIN n.toEmbed : FALSE
    BY <1>3
  <2>. HIDE DEF n
  <2> QED BY <1>2, <1>3, <2>1, <2>2, <2>3, <2>4, <2>5 DEF IndexTyped, Fits
<1>5. Quiet
  BY <1>2, <1>3 DEF IndexInit, Quiet, Alone, Running, Current, NoRow
<1> QED BY <1>4, <1>5 DEF IndexInv

\* An ingest begins alone with a batch that has no item twice.
LEMMA BeginIndex ==
    ASSUME IndexInv, NEW c \in Ingest, Begin(c)
    PROVE  IndexInv'
<1>. USE DEF IndexInv
<1>1. PICK items \in Batch, texts \in [1..2 -> TextVersion] :
        ingest' = [ingest EXCEPT ![c] =
                      [@ EXCEPT !.at = "upsert",
                                !.batch = [k \in DOMAIN items |->
                                             [item |-> items[k], text |-> texts[k]]]]]
  BY DEF Begin
<1>. DEFINE b == [k \in DOMAIN items |-> [item |-> items[k], text |-> texts[k]]]
<1>2. b \in Seq(EntryOf) /\ \A k, l \in DOMAIN b : b[k].item = b[l].item => k = l
  <2>1. DOMAIN b = DOMAIN items /\ \A k \in DOMAIN items : b[k].item = items[k]
    OBVIOUS
  <2>2. CASE items = <<>>
    BY <2>1, <2>2
  <2>3. CASE \E i \in Item : items = <<i>>
    <3>1. DOMAIN items = 1..1 /\ items[1] \in Item
      BY <2>3
    <3>2. b \in [1..1 -> EntryOf]
      BY <3>1 DEF EntryOf
    <3>3. b \in Seq(EntryOf)
      BY <3>2
    <3> QED BY <2>1, <3>1, <3>3
  <2>4. CASE items \in Item \X Item /\ items[1] # items[2]
    <3>1. DOMAIN items = 1..2 /\ items[1] \in Item /\ items[2] \in Item
      BY <2>4
    <3>2. b \in [1..2 -> EntryOf]
      BY <3>1 DEF EntryOf
    <3>3. b \in Seq(EntryOf)
      BY <3>2
    <3> HIDE DEF b
    <3> QED BY <2>1, <2>4, <3>1, <3>3
  <2> QED BY <2>2, <2>3, <2>4 DEF Batch
<1>. HIDE DEF b
<1>3. PICK old \in Call : old = ingest[c]
  BY DEF IndexTyped
<1>4. PICK n \in Call : n = [old EXCEPT !.at = "upsert", !.batch = b]
  BY <1>2 DEF Call
<1>5. /\ n.at = "upsert" /\ n.batch = b /\ n.toEmbed = old.toEmbed /\ n.next = old.next
      /\ n.got = old.got
  BY <1>4 DEF Call
<1>6. old.toEmbed = <<>> /\ old.next = 1 /\ old.got = <<>>
  BY <1>3 DEF IndexTyped, Begin
<1>7. /\ IndexTyped' /\ ingest'[c] = n
      /\ \A d \in Ingest \ {c} : ingest'[d] = ingest[d]
  <2>1. ingest' = [ingest EXCEPT ![c] = n]
    BY <1>1, <1>3, <1>4 DEF b
  <2>2. /\ overlapped' \in BOOLEAN /\ mishaps' \in 0..MaxMishaps
        /\ snapshots' \in [Item -> SUBSET TextVersion]
        /\ vectors' \in [Item -> SUBSET [item : Item, text : TextVersion \ {0}]]
    BY DEF Begin, IndexTyped
  <2> HIDE DEF IndexInv
  <2>3. IndexTyped /\ n.at # "idle" /\ n.got = <<>> /\ n.toEmbed = <<>>
    BY <1>5, <1>6 DEF IndexInv
  <2>4. \A m \in DOMAIN n.toEmbed : FALSE
    BY <2>3
  <2> QED BY <2>1, <2>2, <2>3, <2>4, TypedStep DEF Fits
<1>8. ASSUME ~overlapped', mishaps' = 0
      PROVE  Quiet'
  <2>1. Quiet /\ \A d \in Ingest : ~Running(d)
    BY <1>8 DEF Begin, IndexTyped
  <2>2. \A i \in Item : Current(i) /\ Current(i)'
    BY <2>1 DEF Quiet, Begin, Current
  <2>3. Covers(n)'
    BY <1>2, <1>5, <1>6, <1>7, <2>2 DEF Covers
  <2>4. \A d \in Ingest \ {c} : ~Running(d)' /\ ingest'[d].at # "failed"
    BY <1>7, <2>1 DEF Running, Quiet
  <2> QED BY <1>5, <1>7, <2>2, <2>3, <2>4 DEF Quiet, Alone
<1> QED BY <1>7, <1>8

\* A row is written: from then on its text is that of the last entry that covers it.
LEMMA UpsertIndex ==
    ASSUME IndexInv, NEW c \in Ingest, Upsert(c)
    PROVE  IndexInv'
<1>1. PICK old \in Call : old = ingest[c]
  BY DEF IndexInv, IndexTyped
<1>2. PICK e \in EntryOf : e = old.batch[old.next] /\ old.next \in DOMAIN old.batch
  BY <1>1 DEF Upsert, Call
<1>3. /\ old.at = "upsert" /\ snapshots' = [snapshots EXCEPT ![e.item] = {e.text}]
      /\ UNCHANGED <<vectors, overlapped, mishaps>>
  BY <1>1, <1>2 DEF Upsert, upsertSnapshot
<1>4. e.item \in Item /\ e.text \in TextVersion
  BY DEF EntryOf
<1>. DEFINE more == IF e.text # 0 THEN Append(old.toEmbed, e) ELSE old.toEmbed
<1>5. /\ more \in Seq(EntryOf) /\ DOMAIN old.toEmbed \subseteq DOMAIN more
      /\ \A m \in DOMAIN old.toEmbed : more[m] = old.toEmbed[m]
      /\ \A m \in DOMAIN more : m \in DOMAIN old.toEmbed \/ (more[m] = e /\ e.text # 0)
      /\ e.text # 0 => \E m \in Nat : m \in DOMAIN more /\ more[m] = e
  <2>1. old.toEmbed \in Seq(EntryOf)
    BY DEF Call
  <2> QED BY <2>1, AppendFacts
<1>. HIDE DEF more
<1>6. PICK n \in Call : n = [old EXCEPT !.next = @ + 1, !.toEmbed = more]
  BY <1>5, CallFields DEF Call
<1>7. /\ n.at = "upsert" /\ n.batch = old.batch /\ n.next = old.next + 1
      /\ n.toEmbed = more /\ n.got = old.got
  BY <1>3, <1>6 DEF Call
<1>8. ingest' = [ingest EXCEPT ![c] = n]
  BY <1>1, <1>2, <1>6 DEF Upsert, ToEmbed, more
<1>9. /\ IndexTyped' /\ ingest'[c] = n
      /\ \A d \in Ingest \ {c} : ingest'[d] = ingest[d]
  <2>1. \A m \in DOMAIN n.toEmbed : n.toEmbed[m].text # 0
    BY <1>1, <1>5, <1>7 DEF IndexInv, IndexTyped
  <2>2. n.got = <<>>
    BY <1>1, <1>3, <1>7 DEF IndexInv, IndexTyped
  <2>3. snapshots' \in [Item -> SUBSET TextVersion]
    BY <1>3, <1>4 DEF IndexInv, IndexTyped
  <2>4. /\ vectors' \in [Item -> SUBSET [item : Item, text : TextVersion \ {0}]]
        /\ overlapped' \in BOOLEAN /\ mishaps' \in 0..MaxMishaps /\ IndexTyped
    BY <1>3 DEF IndexInv, IndexTyped
  <2>5. Fits(n.got, n.toEmbed)
    BY <2>2 DEF Fits
  <2> QED BY <1>7, <1>8, <2>1, <2>2, <2>3, <2>4, <2>5, TypedStep
<1>10. ASSUME ~overlapped', mishaps' = 0
       PROVE  Quiet'
  <2>1. Quiet /\ Running(c) /\ IndexTyped
    BY <1>1, <1>3, <1>10 DEF IndexInv, Running
  <2>2. Covers(old)
    BY <1>1, <2>1 DEF Quiet
  <2>3. \A m \in DOMAIN old.toEmbed : old.toEmbed[m].item # e.item
    <3>1. SUFFICES ASSUME NEW m \in DOMAIN old.toEmbed, old.toEmbed[m].item = e.item
                   PROVE  FALSE
      OBVIOUS
    <3>2. PICK l \in DOMAIN old.batch : l < old.next /\ old.batch[l].item = e.item
      BY <1>3, <2>2, <3>1 DEF Covers
    <3>3. l = old.next
      BY <1>2, <1>3, <2>2, <3>2 DEF Covers
    <3> QED BY <3>2, <3>3, CallFields
  <2>4. snapshots'[e.item] = {e.text} /\ \A i \in Item \ {e.item} : snapshots'[i] = snapshots[i]
    BY <1>3, <1>4, <2>1 DEF IndexTyped
  <2>5. ASSUME NEW i \in Item
        PROVE  Current(i)' \/ \E m \in Nat : Ahead(n, m) /\ n.toEmbed[m].item = i
    <3>1. CASE i = e.item
      BY <3>1, <1>3, <1>5, <1>7, <1>9, <2>4 DEF Current, Ahead
    <3>2. CASE i # e.item
      BY <3>2, <1>1, <1>3, <1>5, <1>7, <1>9, <2>2, <2>4 DEF Current, Ahead, Covers
    <3> QED BY <3>1, <3>2
  <2>6. ASSUME NEW m \in DOMAIN more
        PROVE  snapshots'[more[m].item] = {more[m].text}
    <3>1. CASE m \in DOMAIN old.toEmbed
      <4>1. old.toEmbed[m].item \in Item
        BY <3>1, CallFields
      <4>2. snapshots[old.toEmbed[m].item] = {old.toEmbed[m].text}
        BY <2>2, <3>1 DEF Covers
      <4> QED BY <3>1, <4>1, <4>2, <1>5, <2>3, <2>4
    <3>2. CASE more[m] = e
      BY <3>2, <2>4
    <3> QED BY <3>1, <3>2, <1>5
  <2>7. \A m \in DOMAIN more : \E k \in DOMAIN old.batch :
           k < old.next + 1 /\ more[m].item = old.batch[k].item
    <3>1. SUFFICES ASSUME NEW m \in DOMAIN more
                   PROVE  \E l \in DOMAIN old.batch :
                            l < old.next + 1 /\ more[m].item = old.batch[l].item
      OBVIOUS
    <3>2. CASE m \in DOMAIN old.toEmbed
      <4>1. PICK l \in DOMAIN old.batch : l < old.next /\ old.toEmbed[m].item = old.batch[l].item
        BY <1>3, <2>2, <3>2 DEF Covers
      <4>2. l < old.next + 1
        BY <4>1, CallFields
      <4> QED BY <1>5, <3>2, <4>1, <4>2
    <3>3. CASE more[m] = e
      BY <1>2, <3>3, CallFields
    <3> QED BY <1>5, <3>2, <3>3
  <2>8. Covers(n)'
    BY <1>1, <1>3, <1>7, <1>9, <2>2, <2>5, <2>6, <2>7 DEF Covers
  <2> QED BY <1>7, <1>9, <2>1, <2>8, QuietStep DEF Running
<1> QED BY <1>9, <1>10 DEF IndexInv

\* The steps that write no row.
LEMMA RestIndex ==
    ASSUME IndexInv, NEW c \in Ingest,
           Upserted(c) \/ embed(c) \/ storeEmbedding(c) \/ Stored(c) \/ IngestThrows(c)
    PROVE  IndexInv'
<1>1. PICK old \in Call : old = ingest[c]
  BY DEF IndexInv, IndexTyped
<1>. DEFINE Steps(n) ==
       /\ IndexTyped' /\ ingest'[c] = n
       /\ \A d \in Ingest \ {c} : ingest'[d] = ingest[d]
<1>2. UNCHANGED <<snapshots, overlapped>>
  BY DEF Upserted, embed, storeEmbedding, Stored, IngestThrows
<1>3. ASSUME NEW n \in Call, ingest' = [ingest EXCEPT ![c] = n],
             n.toEmbed = old.toEmbed, Fits(n.got, old.toEmbed), n.at # "idle",
             n.at \in {"upsert", "embed"} => n.got = <<>>,
             vectors' \in [Item -> SUBSET [item : Item, text : TextVersion \ {0}]],
             mishaps' \in 0..MaxMishaps
      PROVE  Steps(n)
  <2>1. /\ IndexTyped /\ snapshots' \in [Item -> SUBSET TextVersion] /\ overlapped' \in BOOLEAN
        /\ \A m \in DOMAIN n.toEmbed : n.toEmbed[m].text # 0
    BY <1>1, <1>2, <1>3 DEF IndexInv, IndexTyped
  <2> QED BY <1>3, <2>1, TypedStep
<1>4. /\ Fits(old.got, old.toEmbed)
      /\ old.at \in {"idle", "upsert", "embed"} => old.got = <<>>
      /\ vectors \in [Item -> SUBSET [item : Item, text : TextVersion \ {0}]]
      /\ mishaps \in 0..MaxMishaps
  BY <1>1 DEF IndexInv, IndexTyped
<1>5. ~overlapped /\ mishaps = 0 => Quiet
  BY DEF IndexInv
<1>6. Quiet /\ Running(c) => Covers(old)
  BY <1>1 DEF Quiet
<1>. HIDE DEF Steps
<1>7. CASE IngestThrows(c)
  <2>1. PICK n \in Call : n = [old EXCEPT !.at = "failed"]
    BY CallFields DEF Call
  <2>2. n.toEmbed = old.toEmbed /\ n.got = old.got /\ n.at = "failed"
    BY <2>1 DEF Call
  <2>3. mishaps' \in 1..MaxMishaps /\ vectors' = vectors
    BY <1>4, <1>7, IndexAssumption DEF IngestThrows
  <2>4. ingest' = [ingest EXCEPT ![c] = n]
    BY <1>1, <1>7, <2>1 DEF IngestThrows
  <2>5. mishaps' \in 0..MaxMishaps /\ mishaps' # 0
    BY <2>3
  <2>6. Steps(n)
    BY <1>3, <1>4, <2>2, <2>3, <2>4, <2>5
  <2> QED BY <2>5, <2>6 DEF IndexInv, Steps
<1>8. CASE Upserted(c)
  <2>1. PICK n \in Call : n = [old EXCEPT !.at = IF old.toEmbed = <<>> THEN "done" ELSE "embed",
                                          !.next = 1]
    BY CallFields DEF Call
  <2>2. /\ n.toEmbed = old.toEmbed /\ n.got = old.got /\ n.next = 1
        /\ n.at = IF old.toEmbed = <<>> THEN "done" ELSE "embed"
    BY <2>1 DEF Call
  <2>3. old.at = "upsert" /\ UNCHANGED <<vectors, mishaps>> /\ ingest' = [ingest EXCEPT ![c] = n]
    BY <1>1, <1>8, <2>1 DEF Upserted
  <2>4. Steps(n)
    BY <1>3, <1>4, <2>2, <2>3
  <2>5. ASSUME ~overlapped', mishaps' = 0
        PROVE  Quiet'
    <3>1. Quiet /\ Running(c) /\ Covers(old)
      BY <1>1, <1>2, <1>5, <1>6, <2>3, <2>5 DEF Running
    <3>2. CASE old.toEmbed = <<>>
      <4>1. \A i \in Item : Current(i)
        BY <1>1, <3>1, <3>2 DEF Covers, Ahead
      <4>2. \A i \in Item : Current(i)'
        BY <1>2, <2>3, <4>1 DEF Current
      <4> QED BY <2>2, <2>4, <3>1, <3>2, <4>2, QuietStep DEF Steps, Running, IndexInv
    <3>3. CASE old.toEmbed # <<>>
      <4>1. Covers(n)'
        BY <1>1, <1>2, <2>2, <2>3, <2>4, <3>1, <3>3 DEF Covers, Ahead, Current, Steps
      <4> QED BY <2>2, <2>4, <3>1, <3>3, <4>1, QuietStep DEF Steps, Running, IndexInv
    <3> QED BY <3>2, <3>3
  <2> QED BY <2>4, <2>5 DEF IndexInv, Steps
<1>9. CASE embed(c)
  <2>1. PICK answer \in ProviderAnswers(Len(old.toEmbed)) :
          /\ ingest' = [ingest EXCEPT ![c].at = "store", ![c].got = answer]
          /\ IF answer # Complete(Len(old.toEmbed)) THEN Short(c) ELSE UNCHANGED mishaps
    BY <1>1, <1>9 DEF embed
  <2>0. answer \in Seq(Nat) /\ Fits(answer, old.toEmbed)
    <3>1. Len(old.toEmbed) \in Nat /\ DOMAIN old.toEmbed = 1..Len(old.toEmbed)
      BY CallFields
    <3>2. PICK m \in 0..Len(old.toEmbed) : answer \in [1..m -> 0..Len(old.toEmbed)]
      BY DEF ProviderAnswers
    <3>3. answer \in Seq(0..Len(old.toEmbed)) /\ DOMAIN answer = 1..m
      BY <3>1, <3>2
    <3> QED BY <3>1, <3>2, <3>3 DEF Fits
  <2>2. PICK n \in Call : n = [old EXCEPT !.at = "store", !.got = answer]
    BY <2>0, CallFields DEF Call
  <2>3. n.toEmbed = old.toEmbed /\ n.got = answer /\ n.at = "store" /\ n.next = old.next
    BY <2>2 DEF Call
  <2>4. old.at = "embed" /\ UNCHANGED vectors /\ ingest' = [ingest EXCEPT ![c] = n]
    BY <1>1, <1>9, <2>1, <2>2 DEF embed, IndexInv, IndexTyped
  <2>5. /\ mishaps' \in 0..MaxMishaps
        /\ mishaps' = 0 => mishaps = 0 /\ answer = Complete(Len(old.toEmbed))
    BY <1>4, <2>1, IndexAssumption DEF Short
  <2>6. Steps(n)
    BY <1>3, <1>4, <2>0, <2>3, <2>4, <2>5
  <2>7. ASSUME ~overlapped', mishaps' = 0
        PROVE  Quiet'
    <3>1. Quiet /\ Running(c) /\ Covers(old)
      BY <1>1, <1>2, <1>5, <1>6, <2>4, <2>5, <2>7 DEF Running
    <3>2. Covers(n)'
      <4>1. \A i \in Item : Current(i) => Current(i)'
        BY <1>2, <2>4 DEF Current
      <4>2. old.next = 1 /\ \A m : Ahead(old, m) => m \in DOMAIN old.toEmbed
        BY <2>4, <3>1 DEF Covers, Ahead
      <4>3. \A m : Ahead(old, m) => Ahead(n, m)
        BY <2>3, <4>2, CallFields DEF Ahead
      <4>4. \A m \in DOMAIN n.toEmbed : m \in DOMAIN n.got /\ n.got[m] = m
        BY <2>3, <2>5, <2>7, CallFields DEF Complete
      <4> QED BY <1>2, <2>3, <3>1, <4>1, <4>3, <4>4 DEF Covers
    <3> QED BY <2>3, <2>6, <3>1, <3>2, QuietStep DEF Steps, Running, IndexInv
  <2> QED BY <2>6, <2>7 DEF IndexInv, Steps
<1>10. CASE storeEmbedding(c)
  <2> DEFINE found == old.next \in DOMAIN old.got /\ old.got[old.next] # 0
  <2>1. PICK entry \in EntryOf : entry = old.toEmbed[old.next] /\ old.next \in DOMAIN old.toEmbed
    BY <1>1, <1>10 DEF storeEmbedding, Call
  <2>2. entry.item \in Item /\ entry.text \in TextVersion \ {0}
    BY <1>1, <2>1 DEF IndexInv, IndexTyped, EntryOf
  <2>3. found => old.toEmbed[old.got[old.next]] \in [item : Item, text : TextVersion \ {0}]
    <3>1. \A m \in DOMAIN old.toEmbed : old.toEmbed[m] \in EntryOf /\ old.toEmbed[m].text # 0
      BY <1>1, CallFields DEF IndexInv, IndexTyped
    <3> QED BY <1>4, <3>1 DEF Fits, EntryOf
  <2>4. /\ old.at = "store" /\ UNCHANGED mishaps
        /\ vectors' = IF found
                      THEN [vectors EXCEPT ![entry.item] = {old.toEmbed[old.got[old.next]]}]
                      ELSE vectors
    BY <1>1, <1>10, <2>1 DEF storeEmbedding, Entry
  <2>5. PICK n \in Call : n = [old EXCEPT !.next = @ + 1]
    BY CallFields DEF Call
  <2>6. /\ n.toEmbed = old.toEmbed /\ n.got = old.got /\ n.at = old.at
        /\ n.next = old.next + 1
    BY <2>5 DEF Call
  <2>7. ingest' = [ingest EXCEPT ![c] = n]
    BY <1>1, <1>10, <2>5 DEF storeEmbedding
  <2>8. vectors' \in [Item -> SUBSET [item : Item, text : TextVersion \ {0}]]
    BY <1>4, <2>2, <2>3, <2>4
  <2>9. Steps(n)
    BY <1>3, <1>4, <2>4, <2>6, <2>7, <2>8
  <2>10. ASSUME ~overlapped', mishaps' = 0
         PROVE  Quiet'
    <3>1. Quiet /\ Running(c) /\ Covers(old)
      BY <1>1, <1>2, <1>5, <1>6, <2>4, <2>10 DEF Running
    <3>2. /\ vectors'[entry.item] = {entry} /\ snapshots[entry.item] = {entry.text}
          /\ \A i \in Item \ {entry.item} : vectors'[i] = vectors[i]
          /\ entry = [item |-> entry.item, text |-> entry.text]
      <4>1. old.next \in DOMAIN old.got /\ old.got[old.next] = old.next
        BY <2>1, <2>4, <3>1 DEF Covers
      <4>2. old.next # 0
        BY <2>1, CallFields
      <4>3. found /\ old.got[old.next] = old.next
        BY <4>1, <4>2
      <4>4. vectors' = [vectors EXCEPT ![entry.item] = {entry}]
        BY <2>1, <2>4, <4>3
      <4>5. snapshots[entry.item] = {entry.text}
        BY <2>1, <3>1 DEF Covers
      <4>6. entry = [item |-> entry.item, text |-> entry.text]
        BY DEF EntryOf
      <4> QED BY <1>4, <2>2, <4>4, <4>5, <4>6
    <3>3. ASSUME NEW i \in Item
          PROVE  Current(i)' \/ \E m \in Nat : Ahead(n, m) /\ n.toEmbed[m].item = i
      <4>1. CASE i = entry.item
        BY <4>1, <1>2, <3>2 DEF Current
      <4>2. CASE i # entry.item /\ Current(i)
        BY <4>2, <1>2, <3>2 DEF Current
      <4>3. CASE i # entry.item /\ ~Current(i)
        <5>1. PICK m \in Nat : Ahead(old, m) /\ old.toEmbed[m].item = i
          BY <1>1, <3>1, <4>3 DEF Covers
        <5>2. m # old.next /\ m >= old.next /\ old.next \in Nat
          BY <1>1, <2>1, <2>4, <4>3, <5>1 DEF Ahead, Call
        <5>3. m >= n.next
          BY <2>6, <5>2
        <5> QED BY <1>1, <2>6, <2>9, <5>1, <5>3 DEF Ahead, Steps
      <4> QED BY <4>1, <4>2, <4>3
    <3>4. Covers(n)'
      BY <1>1, <1>2, <2>4, <2>6, <2>9, <3>1, <3>3 DEF Covers, Steps
    <3> QED BY <2>4, <2>6, <2>9, <3>1, <3>4, QuietStep DEF Steps, Running, IndexInv
  <2> QED BY <2>9, <2>10 DEF IndexInv, Steps
<1>11. CASE Stored(c)
  <2>1. PICK n \in Call : n = [old EXCEPT !.at = "done"]
    BY CallFields DEF Call
  <2>2. n.toEmbed = old.toEmbed /\ n.got = old.got /\ n.at = "done"
    BY <2>1 DEF Call
  <2>3. /\ old.at = "store" /\ UNCHANGED <<vectors, mishaps>> /\ ingest' = [ingest EXCEPT ![c] = n]
        /\ \A m \in DOMAIN old.toEmbed : m < old.next
    BY <1>1, <1>11, <2>1 DEF Stored, Call
  <2>4. Steps(n)
    BY <1>3, <1>4, <2>2, <2>3
  <2>5. ASSUME ~overlapped', mishaps' = 0
        PROVE  Quiet'
    <3>1. Quiet /\ Running(c) /\ Covers(old)
      BY <1>1, <1>2, <1>5, <1>6, <2>3, <2>5 DEF Running
    <3>2. \A m : ~Ahead(old, m)
      BY <1>1, <2>3 DEF Ahead, Call
    <3>3. \A i \in Item : Current(i)'
      BY <1>2, <2>3, <3>1, <3>2 DEF Covers, Current
    <3> QED BY <2>2, <2>4, <3>1, <3>3, QuietStep DEF Steps, Running, IndexInv
  <2> QED BY <2>4, <2>5 DEF IndexInv, Steps
<1> QED BY <1>7, <1>8, <1>9, <1>10, <1>11

\* Every step of any ingest keeps the index in its invariant.
LEMMA IndexStep ==
    ASSUME IndexInv, [IndexNext]_indexVars
    PROVE  IndexInv'
<1>1. ASSUME IndexInv, UNCHANGED indexVars
      PROVE  IndexInv'
  <2>1. UNCHANGED <<snapshots, vectors, ingest, overlapped, mishaps>>
    BY <1>1 DEF indexVars
  <2>2. IndexTyped'
    BY <1>1, <2>1 DEF IndexInv, IndexTyped
  <2>3. Quiet => Quiet'
    BY <2>1 DEF Quiet, Alone, Running, Covers, Current
  <2> QED BY <1>1, <2>1, <2>2, <2>3 DEF IndexInv
<1> QED BY <1>1, BeginIndex, UpsertIndex, RestIndex DEF IndexNext

\* However many ingests run, the index stays in it.
LEMMA IndexAlways == IndexSpec => []IndexInv
BY InitIndex, IndexStep, PTL DEF IndexSpec

\* QuietIndexIsCurrent: while ingests run one after the other and nothing fails, every row
\* with text has the vector of just that text between them (retrieval.ts:104-131).
THEOREM QuietIndexIsCurrentHolds == IndexSpec => []QuietIndexIsCurrent
<1>1. IndexInv => QuietIndexIsCurrent
  BY DEF IndexInv, QuietIndexIsCurrent, Quiet, Current
<1> QED BY <1>1, IndexAlways, PTL

-----------------------------------------------------------------------------
(* The gates of drafting *)

\* The findings by their check.
LEMMA FindingLines ==
    ASSUME NEW check, NEW lines
    PROVE  \A f \in Finding(check, lines) : f.check = check
  BY DEF Finding

\* What the review accepts has none of the findings that it looks for.
LEMMA AcceptedIsClean ==
    ASSUME NEW text, assertNoBlockers(text, DefaultOptions) = "accepted"
    PROVE  /\ checkUnsupportedClaims(text) = {} /\ checkBrokenLinks(text) = {}
           /\ \A term \in DEFAULT_PROHIBITED : LinesWith(text, term) = {}
           /\ LinesWith(text, "experience") = {}
<1>1. blockers(lintDraft(text, DefaultOptions)) = {}
  BY DEF assertNoBlockers
<1>2. \A f \in lintDraft(text, DefaultOptions) : f.check = "code-context"
  BY <1>1 DEF blockers
<1>3. /\ \A f \in checkUnsupportedClaims(text) : f.check = "unsupported-claim"
      /\ \A f \in checkBrokenLinks(text) : f.check = "broken-link"
  BY FindingLines DEF checkUnsupportedClaims, checkBrokenLinks
<1>4. checkUnsupportedClaims(text) = {} /\ checkBrokenLinks(text) = {}
  BY <1>2, <1>3 DEF lintDraft
<1> DEFINE terms == UNION {LinesWith(text, term) : term \in DEFAULT_PROHIBITED}
<1>5. /\ checkProhibitedContent(text, DefaultOptions.prohibited) = Finding("prohibited-content", terms)
      /\ checkPersonalExperience(text, DefaultOptions.userConfirmedExperience)
           = Finding("personal-experience", LinesWith(text, "experience"))
  BY DEF checkProhibitedContent, checkPersonalExperience, DefaultOptions
<1>6. /\ Finding("prohibited-content", terms) = {}
      /\ Finding("personal-experience", LinesWith(text, "experience")) = {}
  BY <1>2, <1>5, FindingLines DEF lintDraft
<1>7. terms = {} /\ LinesWith(text, "experience") = {}
  BY <1>6 DEF Finding
<1> QED BY <1>4, <1>7

\* A claim that the review does not report has something to show for it.
LEMMA ClaimIsSupported ==
    ASSUME NEW text, checkUnsupportedClaims(text) = {}, checkBrokenLinks(text) = {},
           NEW i \in LinesWith(text, "claim")
    PROVE  \/ LinesWith(text, "verify") \cup LinesWith(text, "link") # {}
           \/ text[i].marks \cap {"reference", "openLink"} # {}
<1>1. LinesWith(text, "badLink") = {}
  BY DEF checkBrokenLinks, Finding
<1>2. \/ text[i].marks \cap {"link", "badLink", "openLink", "reference"} # {}
      \/ countVerificationMarkers(text) # 0
      \/ extractCitations(text) # {}
  BY DEF checkUnsupportedClaims, Finding
<1>3. CASE text[i].marks \cap {"link", "badLink", "openLink", "reference"} # {}
  BY <1>1, <1>3 DEF LinesWith
<1>4. CASE countVerificationMarkers(text) # 0
  BY <1>4, FS_EmptySet DEF countVerificationMarkers
<1>5. CASE extractCitations(text) # {}
  BY <1>1, <1>5 DEF extractCitations
<1> QED BY <1>2, <1>3, <1>4, <1>5

\* The review is the stricter gate, but for the articles and terms that a client adds.
LEMMA ReviewIsStricter ==
    ASSUME NEW text, assertNoBlockers(text, DefaultOptions) = "accepted",
           NEW o, checkDuplication(text, o) = {},
           \A term \in o.prohibited \ DEFAULT_PROHIBITED : LinesWith(text, term) = {}
    PROVE  assertNoBlockers(text, o) = "accepted"
<1>1. \A term \in o.prohibited : LinesWith(text, term) = {}
  BY AcceptedIsClean
<1>2. checkUnsupportedClaims(text) = {} /\ checkBrokenLinks(text) = {}
      /\ checkProhibitedContent(text, o.prohibited) = {}
      /\ checkPersonalExperience(text, o.userConfirmedExperience) = {}
  BY <1>1, AcceptedIsClean DEF checkProhibitedContent, checkPersonalExperience, Finding
<1>3. \A f \in checkCodeContext(text) : f.check = "code-context"
  BY FindingLines DEF checkCodeContext
<1>4. blockers(lintDraft(text, o)) = {}
  BY <1>2, <1>3 DEF blockers, lintDraft
<1> QED BY <1>4 DEF assertNoBlockers

\* Whatever is answered answers the question that was asked.
AnswerFits ==
    \A a \in draftAnswer :
        \/ draftAsked.ask = "gates" /\ a = [kind |-> "gates",
              saved |-> persistDraft(draftAsked.text, draftAsked.options),
              submitted |-> submitForReview(draftAsked.text, draftAsked.options)]
        \/ draftAsked.ask = "ideas" /\
              a = generateIdeas(draftAsked.count, draftAsked.provider, draftAsked.reply)
        \/ draftAsked.ask = "draft" /\ a = generateDraft(draftAsked.provider, draftAsked.text)

LEMMA AnswerAlways == DraftSpec => [](draftAsked \in DraftQuestions /\ AnswerFits)
<1>1. DraftInit => draftAsked \in DraftQuestions /\ AnswerFits
  BY DEF DraftInit, AnswerFits
<1>2. ASSUME draftAsked \in DraftQuestions, AnswerFits, [DraftNext]_draftVars
      PROVE  (draftAsked \in DraftQuestions /\ AnswerFits)'
  <2>1. draftAsked' = draftAsked
    BY <1>2 DEF DraftNext, draftVars
  <2>2. CASE UNCHANGED draftVars
    BY <1>2, <2>2 DEF AnswerFits, draftVars
  <2>3. CASE AskGates
    BY <1>2, <2>1, <2>3 DEF AskGates, AnswerFits
  <2>4. CASE AskIdeas
    BY <1>2, <2>1, <2>4 DEF AskIdeas, AnswerFits
  <2>5. CASE AskDraft
    BY <1>2, <2>1, <2>5 DEF AskDraft, AnswerFits
  <2> QED BY <1>2, <2>1, <2>2, <2>3, <2>4, <2>5 DEF DraftNext
<1> QED BY <1>1, <1>2, PTL DEF DraftSpec

\* ReviewedTextIsSound: the claims of what passes the review have something to show for
\* them, and only what a client adds could have kept it from being saved
\* (draft-linting.ts:65-68 and :107-145, drafting.ts:175, 206).
THEOREM ReviewedTextIsSoundHolds == DraftSpec => []ReviewedTextIsSound
<1>1. AnswerFits => ReviewedTextIsSound
  <2>1. SUFFICES ASSUME AnswerFits, NEW a \in draftAnswer, a.kind = "gates",
                        a.submitted = "accepted"
                 PROVE  /\ \A i \in LinesWith(Offered, "claim") :
                             \/ LinesWith(Offered, "verify") \cup LinesWith(Offered, "link") # {}
                             \/ Offered[i].marks \cap {"reference", "openLink"} # {}
                        /\ \A o \in Options :
                             persistDraft(Offered, o) # "accepted" =>
                                 \/ checkDuplication(Offered, o) # {}
                                 \/ \E term \in o.prohibited \ DEFAULT_PROHIBITED :
                                        LinesWith(Offered, term) # {}
    BY DEF ReviewedTextIsSound, Reviewed
  <2>2. assertNoBlockers(Offered, DefaultOptions) = "accepted"
    BY <2>1 DEF AnswerFits, generateIdeas, generateDraft, generate, Reject, Parsed,
       submitForReview, Offered
  <2>3. \A i \in LinesWith(Offered, "claim") :
           \/ LinesWith(Offered, "verify") \cup LinesWith(Offered, "link") # {}
           \/ Offered[i].marks \cap {"reference", "openLink"} # {}
    BY <2>2, AcceptedIsClean, ClaimIsSupported
  <2>4. ASSUME NEW o \in Options, checkDuplication(Offered, o) = {},
               \A term \in o.prohibited \ DEFAULT_PROHIBITED : LinesWith(Offered, term) = {}
        PROVE  persistDraft(Offered, o) = "accepted"
    BY <2>2, <2>4, ReviewIsStricter DEF persistDraft
  <2> QED BY <2>3, <2>4
<1> QED BY <1>1, AnswerAlways, PTL

\* What is parsed: a part of an answer all of whose ideas are well-formed.
LEMMA ParsedIdeas ==
    ASSUME NEW reply \in Reply, NEW count \in Nat, Parsed(reply, count).kind = "ideas"
    PROVE  /\ \A i \in DOMAIN reply.ideas : reply.ideas[i]
           /\ Len(Parsed(reply, count).ideas) \in 0..count
<1>1. ~(\E i \in DOMAIN reply.ideas : ~reply.ideas[i])
  BY DEF Parsed, Reject
<1>2. reply.ideas \in Seq(BOOLEAN)
  BY DEF Reply, SeqOf
<1>. DEFINE n == IF count < Len(reply.ideas) THEN count ELSE Len(reply.ideas)
<1>3. n \in Nat /\ n <= count /\ n <= Len(reply.ideas)
  BY <1>2
<1>4. Len(SubSeq(reply.ideas, 1, n)) = n
  BY <1>2, <1>3
<1>5. Parsed(reply, count).ideas = SubSeq(reply.ideas, 1, n)
  BY DEF Parsed, Reject
<1> QED BY <1>1, <1>3, <1>4, <1>5

\* IdeasAllOrNothing: one malformed idea refuses the whole answer, and no more ideas than
\* were asked for, or than the limit, are returned (drafting.ts:123, 255-286).
THEOREM IdeasAllOrNothingHolds == DraftSpec => []IdeasAllOrNothing
<1>1. draftAsked \in DraftQuestions /\ AnswerFits => IdeasAllOrNothing
  <2>1. SUFFICES ASSUME draftAsked \in DraftQuestions, AnswerFits,
                        NEW a \in draftAnswer, a.kind = "ideas"
                 PROVE  /\ \A i \in DOMAIN draftAsked.reply.ideas : draftAsked.reply.ideas[i]
                        /\ Len(a.ideas) <= draftAsked.count /\ Len(a.ideas) <= MAX_IDEAS
    BY DEF IdeasAllOrNothing
  <2>2. /\ draftAsked.ask = "ideas"
        /\ a = generateIdeas(draftAsked.count, draftAsked.provider, draftAsked.reply)
    BY <2>1 DEF AnswerFits, generateDraft, generate, Reject
  <2>3. draftAsked.count \in 0..(MAX_IDEAS + 1) /\ draftAsked.reply \in Reply
    BY <2>1, <2>2 DEF DraftQuestions
  <2>4. a = Parsed(draftAsked.reply, clampCount(draftAsked.count)) /\ draftAsked.count >= 1
    BY <2>1, <2>2, <2>3 DEF generateIdeas, generate, Reject
  <2>5. /\ clampCount(draftAsked.count) \in Nat
        /\ clampCount(draftAsked.count) <= draftAsked.count
        /\ clampCount(draftAsked.count) <= MAX_IDEAS
    BY <2>3, <2>4, DraftAssumption DEF clampCount
  <2>6. Parsed(draftAsked.reply, clampCount(draftAsked.count)).kind = "ideas"
    BY <2>1, <2>4
  <2>7. /\ \A i \in DOMAIN draftAsked.reply.ideas : draftAsked.reply.ideas[i]
        /\ Len(a.ideas) \in 0..clampCount(draftAsked.count)
    BY <2>3, <2>4, <2>5, <2>6, ParsedIdeas
  <2> QED BY <2>3, <2>5, <2>7, DraftAssumption
<1> QED BY <1>1, AnswerAlways, PTL

-----------------------------------------------------------------------------
(* Retrieval *)

GapQuestion == [ask : {"gap"}, blank : BOOLEAN, evidence : SetToAllKPermutations(Snapshot),
                score : ProviderScore, provider : {"none", "ok", "fails"}]
DuplicationQuestion ==
    [ask : {"duplication"}, candidate : Work, priors : Priors,
     score : ProviderScore, provider : {"none", "ok", "fails"}]

SearchQuestion ==
    [ask : {"search"}, blank : BOOLEAN, limit : Limit, topics : Topics,
     texts : Scores(TextScore), vectors : Scores(VectorScore), provider : {"none", "ok", "empty", "fails"}]

\* Whatever is returned answers the question that was asked.
ReturnedFits ==
    /\ \/ question \in SearchQuestion
       \/ question \in DuplicationQuestion
       \/ question \in GapQuestion
    /\ \A a \in returned :
        \/ question.ask = "search" /\ a = hybridSearch(question)
        \/ question.ask = "duplication" /\ a = detectDuplication(question)
        \/ question.ask = "gap" /\ a = analyzeContentGap(question)

LEMMA ReturnedAlways == PolicySpec => []ReturnedFits
<1>1. PolicyInit => ReturnedFits
  BY DEF PolicyInit, ReturnedFits, GapQuestion, DuplicationQuestion, SearchQuestion
<1>2. ASSUME ReturnedFits, [PolicyNext]_policyVars
      PROVE  ReturnedFits'
  <2>1. question' = question
    BY <1>2 DEF PolicyNext, policyVars
  <2>2. CASE UNCHANGED policyVars
    BY <1>2, <2>2 DEF ReturnedFits, policyVars
  <2>3. CASE AskSearch
    BY <1>2, <2>1, <2>3 DEF AskSearch, ReturnedFits
  <2>4. CASE AskDuplication
    BY <1>2, <2>1, <2>4 DEF AskDuplication, ReturnedFits
  <2>5. CASE AskGap
    BY <1>2, <2>1, <2>5 DEF AskGap, ReturnedFits
  <2> QED BY <1>2, <2>1, <2>2, <2>3, <2>4, <2>5 DEF PolicyNext
<1> QED BY <1>1, <1>2, PTL DEF PolicySpec

\* The kind of what is returned names the question.
LEMMA KindNamesQuestion ==
    ASSUME ReturnedFits, NEW a \in returned
    PROVE  /\ a.kind = "results" => question \in SearchQuestion /\ a = hybridSearch(question)
           /\ a.kind = "gap" => question \in GapQuestion /\ a = analyzeContentGap(question)
           /\ a.kind = "duplication" => /\ question \in DuplicationQuestion
                                        /\ a = detectDuplication(question)
<1>1. hybridSearch(question).kind \in {"results", "error"}
  BY DEF hybridSearch, ErrorOf
<1>2. detectDuplication(question).kind \in {"duplication", "error"}
  BY DEF detectDuplication, ErrorOf
<1>3. analyzeContentGap(question).kind \in {"gap", "error"}
  BY DEF analyzeContentGap, ErrorOf, boundGapAnalysis
<1>4. /\ question \in GapQuestion => question.ask = "gap"
      /\ question \in DuplicationQuestion => question.ask = "duplication"
      /\ question \in SearchQuestion => question.ask = "search"
  BY DEF GapQuestion, DuplicationQuestion, SearchQuestion
<1> QED BY <1>1, <1>2, <1>3, <1>4 DEF ReturnedFits

\* Scores are numbers.
LEMMA ScoresAreNumbers ==
    /\ \A n \in TextScore \cup VectorScore \cup ProviderScore : n \in Int
    /\ \A written \in Priors : written \in Seq(Work)
<1>1. /\ TextScore \subseteq Int /\ VectorScore \subseteq Int /\ ProviderScore \subseteq Int
      /\ Priors \subseteq Seq(Work)
  BY PolicyAssumption
<1> QED BY <1>1

\* Unless the query is covered in full, less coverage is at least as much of a gap.
LEMMA GapConfidenceFalls ==
    ASSUME NEW score \in Int, NEW less \in Int, less <= score
    PROVE  /\ GapConfidence(score) \in 0..FULL /\ GapConfidence(less) >= GapConfidence(score)
           /\ score < LEVELS => GapConfidence(score) > 0
<1>1. FULL = 30 /\ LEVELS = 6 /\ 30 \div 6 = 5
  BY DEF FULL, LEVELS
<1>2. \A n \in Int : Clamp(n, 0, 6) = IF n < 0 THEN 0 ELSE IF n < 6 THEN n ELSE 6
  BY DEF Clamp, Least, Greatest
<1>3. \A n \in Int : GapConfidence(n) = 30 - 5 * Clamp(n, 0, 6)
  <2>1. TAKE n \in Int
  <2>2. Clamp(n, 0, 6) \in 0..6
    BY <1>2
  <2> QED BY <1>1, <2>2 DEF GapConfidence, Clamp, Least, Greatest
<1> QED BY <1>1, <1>2, <1>3

\* ConfidenceFallsWithCoverage: less coverage never gives less confidence in a gap, full
\* coverage aside (typesafe.ts:99-103, gap-analysis.ts:90-93).
THEOREM ConfidenceFallsWithCoverageHolds == PolicySpec => []ConfidenceFallsWithCoverage
<1>1. ReturnedFits => ConfidenceFallsWithCoverage
  <2>1. SUFFICES ASSUME ReturnedFits, NEW a \in Returned("gap"), question.provider = "ok",
                        NEW less \in ProviderScore, less < question.score, question.score < LEVELS
                 PROVE  analyzeContentGap([question EXCEPT !.score = less]).confidence
                          >= a.confidence
    <3>1. ReturnedFits /\ Returned("gap") # {} => question.score \in Int
      BY KindNamesQuestion, ScoresAreNumbers DEF Returned, GapQuestion
    <3> QED BY <3>1 DEF ConfidenceFallsWithCoverage, LEVELS
  <2>2. question \in GapQuestion /\ a = analyzeContentGap(question) /\ a.kind = "gap"
    BY <2>1, KindNamesQuestion DEF Returned
  <2>3. DEFINE asked == [question EXCEPT !.score = less]
  <2>4. /\ asked.blank = question.blank /\ asked.provider = "ok" /\ asked.score = less
        /\ asked.evidence = question.evidence
    BY <2>1, <2>2 DEF GapQuestion
  <2>5. ~question.blank
    BY <2>2 DEF analyzeContentGap, ErrorOf
  <2>6. /\ a = boundGapAnalysis(GapConfidence(question.score), question.evidence)
        /\ analyzeContentGap(asked) = boundGapAnalysis(GapConfidence(less), question.evidence)
    BY <2>1, <2>2, <2>4, <2>5 DEF analyzeContentGap
  <2>7. /\ GapConfidence(less) >= GapConfidence(question.score)
        /\ GapConfidence(question.score) > 0
        /\ GapConfidence(less) \in Int /\ GapConfidence(question.score) \in Int
    <3>1. question.score \in Int /\ less \in Int /\ less <= question.score
      BY <2>1, <2>2, ScoresAreNumbers DEF GapQuestion
    <3>2. \A n \in 0..FULL : n \in Int
      BY DEF FULL
    <3> QED BY <2>1, <3>1, <3>2, GapConfidenceFalls
  <2>8. \A n \in Int : n > 0 => boundGapAnalysis(n, question.evidence).confidence = n
    BY DEF boundGapAnalysis
  <2> QED BY <2>6, <2>7, <2>8
<1> QED BY <1>1, ReturnedAlways, PTL

\* Similarities are fractions.
LEMMA SimilarityIsFraction ==
    ASSUME NEW c \in Work, NEW p \in Work
    PROVE  /\ deterministicSimilarity(c, p)[1] \in Nat
           /\ deterministicSimilarity(c, p)[2] \in Nat \ {0}
<1>1. /\ IsFiniteSet(c.title) /\ IsFiniteSet(p.title)
      /\ IsFiniteSet(c.tags) /\ IsFiniteSet(p.tags)
  BY PolicyAssumption DEF Work
<1>2. \A S : IsFiniteSet(S) /\ S # {} => Cardinality(S) \in Nat \ {0}
  BY FS_CardinalityType, FS_EmptySet
<1>3. \A S, T : IsFiniteSet(S) /\ IsFiniteSet(T) =>
          /\ IsFiniteSet(S \cup T) /\ IsFiniteSet(S \cap T) /\ Cardinality(S \cap T) \in Nat
  BY FS_Union, FS_Intersection, FS_CardinalityType
<1>4. /\ tokenSimilarity(c.title, p.title)[1] \in Nat
      /\ tokenSimilarity(c.title, p.title)[2] \in Nat \ {0}
  <2>1. CASE c.title \cup p.title = {}
    BY <2>1 DEF tokenSimilarity
  <2>2. CASE c.title \cup p.title # {}
    BY <1>1, <1>2, <1>3, <2>2 DEF tokenSimilarity
  <2> QED BY <2>1, <2>2
<1>5. tagOverlap(c.tags, p.tags)[1] \in Nat /\ tagOverlap(c.tags, p.tags)[2] \in Nat \ {0}
  <2>1. CASE c.tags = {} \/ p.tags = {}
    BY <2>1 DEF tagOverlap
  <2>2. CASE c.tags # {} /\ p.tags # {}
    <3>1. Cardinality(c.tags) \in Nat \ {0} /\ Cardinality(p.tags) \in Nat \ {0}
      BY <1>1, <1>2, <2>2
    <3>2. Least(Cardinality(c.tags), Cardinality(p.tags)) \in Nat \ {0}
      BY <3>1 DEF Least
    <3> QED BY <1>1, <1>3, <2>2, <3>2 DEF tagOverlap
  <2> QED BY <2>1, <2>2
<1> QED BY <1>4, <1>5 DEF deterministicSimilarity

\* What is at least a fraction that reaches six tenths reaches them.
LEMMA AtLeastReaches ==
    ASSUME NEW a \in Nat, NEW b \in Nat \ {0}, NEW c \in Nat, NEW d \in Nat \ {0},
           ~(a * d < c * b), 10 * c >= 6 * d
    PROVE  10 * a >= 6 * b
<1>1. (10 * a) * d >= (10 * c) * b
  <2>1. a * d \in Int /\ c * b \in Int /\ a * d >= c * b
    OBVIOUS
  <2>2. (10 * a) * d = 10 * (a * d) /\ (10 * c) * b = 10 * (c * b)
    OBVIOUS
  <2> QED BY <2>1, <2>2
<1>2. (10 * c) * b >= (6 * d) * b
  OBVIOUS
<1>3. (10 * a) * d >= (6 * b) * d
  BY <1>1, <1>2
<1> QED BY <1>3

\* Fractions are ordered by Below.
LEMMA FractionsAreOrdered ==
    ASSUME NEW a \in Nat, NEW b \in Nat \ {0}, NEW c \in Nat, NEW d \in Nat \ {0},
           NEW e \in Nat, NEW f \in Nat \ {0}
    PROVE  /\ a * d < c * b /\ ~(e * d < c * f) => a * f < e * b
           /\ ~(c * b < a * d) /\ ~(e * d < c * f) => ~(e * b < a * f)
<1>1. (a * f) * d = (a * d) * f /\ (e * b) * d = (e * d) * b /\ (c * b) * f = (c * f) * b
  OBVIOUS
<1> DEFINE ad == a * d
           cb == c * b
           ed == e * d
           cf == c * f
           af == a * f
           eb == e * b
<1>2. ad \in Int /\ cb \in Int /\ ed \in Int /\ cf \in Int /\ af \in Int /\ eb \in Int
  OBVIOUS
<1>3. af * d = ad * f /\ eb * d = ed * b /\ cb * f = cf * b
  BY <1>1
<1> HIDE DEF ad, cb, ed, cf, af, eb
<1>4. ASSUME ad < cb, cf <= ed PROVE af < eb
  <2>1. ad * f < cb * f /\ cf * b <= ed * b
    BY <1>2, <1>4
  <2>2. af * d < eb * d
    BY <1>2, <1>3, <2>1
  <2> QED BY <1>2, <2>2
<1>5. ASSUME ad <= cb, cf <= ed PROVE af <= eb
  <2>1. ad * f <= cb * f /\ cf * b <= ed * b
    BY <1>2, <1>5
  <2>2. af * d <= eb * d
    BY <1>2, <1>3, <2>1
  <2> QED BY <1>2, <2>2
<1> QED BY <1>2, <1>4, <1>5 DEF ad, cb, ed, cf, af, eb

\* A strict total order of the places of a list has a first.
LEMMA FirstOfOrder ==
    ASSUME NEW n \in Nat \ {0}, NEW R,
           \A i \in 1..n : <<i, i>> \notin R,
           \A i, j \in 1..n : i = j \/ <<i, j>> \in R \/ <<j, i>> \in R,
           \A i, j, k \in 1..n : <<i, j>> \in R /\ <<j, k>> \in R => <<i, k>> \in R
    PROVE  \E i \in 1..n : \A j \in 1..n : i = j \/ <<i, j>> \in R
<1> DEFINE D == 1..n
           Above(k) == {j \in D : <<j, k>> \in R}
           place == [k \in D |-> 1 + Cardinality(Above(k))]
<1>1. IsFiniteSet(D) /\ Cardinality(D) = n
  BY FS_Interval
<1>2. \A k \in D : /\ Above(k) \in SUBSET D /\ Above(k) # D
                   /\ \A i \in D : <<i, k>> \in R =>
                         Above(i) \in SUBSET Above(k) /\ Above(i) # Above(k)
  OBVIOUS
<1>3. \A k \in D : Above(k) = {} => \A j \in D : k = j \/ <<k, j>> \in R
  OBVIOUS
<1> HIDE DEF Above, D
<1>4. \A k \in D : IsFiniteSet(Above(k)) /\ Cardinality(Above(k)) \in Nat
  BY <1>1, <1>2, FS_Subset, FS_CardinalityType
<1>5. \A k \in D : Cardinality(Above(k)) < n
  BY <1>1, <1>2, <1>4, FS_Subset
<1>6. \A i, k \in D : <<i, k>> \in R => Cardinality(Above(i)) < Cardinality(Above(k))
  <2>1. TAKE i, k \in D
  <2>2. HAVE <<i, k>> \in R
  <2>3. /\ Cardinality(Above(i)) <= Cardinality(Above(k))
        /\ Cardinality(Above(i)) # Cardinality(Above(k))
    BY <1>2, <1>4, <2>2, FS_Subset
  <2> QED BY <1>4, <2>3
<1>7. place \in [D -> D]
  BY <1>4, <1>5 DEF D
<1>8. \A i, k \in D : place[i] = place[k] => i = k
  <2>1. TAKE i, k \in D
  <2>2. place[i] = 1 + Cardinality(Above(i)) /\ place[k] = 1 + Cardinality(Above(k))
    OBVIOUS
  <2>3. i = k \/ <<i, k>> \in R \/ <<k, i>> \in R
    BY DEF D
  <2> QED BY <1>4, <1>6, <2>2, <2>3
<1> HIDE DEF place
<1>9. place \in Surjection(D, D)
  <2>1. place \in Injection(D, D)
    BY <1>7, <1>8 DEF Injection, IsInjective
  <2> QED BY <1>1, <2>1, FS_Injection
<1>10. PICK i \in D : place[i] = 1
  <2>1. 1 \in D
    BY DEF D
  <2> QED BY <1>9, <2>1 DEF Surjection
<1>11. Above(i) = {}
  <2>1. Cardinality(Above(i)) = 0
    BY <1>4, <1>10 DEF place
  <2> QED BY <1>4, <2>1, FS_EmptySet
<1> QED BY <1>3, <1>11 DEF D

\* Of the priors of an author, one that is similar at all has a best match.
LEMMA BestMatchExists ==
    ASSUME NEW candidate \in Work, NEW priors \in Seq(Work),
           NEW k \in DOMAIN priors,
           Below(<<0, 1>>, deterministicSimilarity(candidate, priors[k]))
    PROVE  bestDeterministicMatch(candidate, priors) # {}
<1> DEFINE Sim(i) == deterministicSimilarity(candidate, priors[i])
           n == Len(priors)
           R == {pair \in (1..n) \X (1..n) :
                    \/ Below(Sim(pair[2]), Sim(pair[1]))
                    \/ ~Below(Sim(pair[1]), Sim(pair[2])) /\ pair[1] < pair[2]}
<1> HIDE DEF n, R
<1>1. \A i \in DOMAIN priors : Sim(i)[1] \in Nat /\ Sim(i)[2] \in Nat \ {0}
  BY SimilarityIsFraction
<1>2. DOMAIN priors = 1..n /\ n \in Nat \ {0}
  BY DEF n
<1>3. \A i \in DOMAIN priors : Below(<<0, 1>>, Sim(i)) <=> Sim(i)[1] > 0
  BY <1>1 DEF Below
<1> HIDE DEF Sim
<1>4. \A i \in DOMAIN priors : ~Below(Sim(i), Sim(i))
  BY <1>1 DEF Below
<1>5. \A i, j \in DOMAIN priors : ~(Below(Sim(i), Sim(j)) /\ Below(Sim(j), Sim(i)))
  BY <1>1 DEF Below
<1>6. ASSUME NEW i \in DOMAIN priors, NEW j \in DOMAIN priors,
             Sim(i)[1] > 0, ~Below(Sim(j), Sim(i))
      PROVE  Sim(j)[1] > 0
  <2>1. ~(Sim(j)[1] * Sim(i)[2] < Sim(i)[1] * Sim(j)[2])
    BY <1>6 DEF Below
  <2>2. Sim(i)[1] * Sim(j)[2] > 0
    BY <1>1, <1>6
  <2> QED BY <1>1, <2>1, <2>2
<1>7. ASSUME NEW i \in DOMAIN priors, NEW j \in DOMAIN priors, NEW l \in DOMAIN priors
      PROVE  /\ Below(Sim(i), Sim(j)) /\ ~Below(Sim(l), Sim(j)) => Below(Sim(i), Sim(l))
             /\ ~Below(Sim(j), Sim(i)) /\ ~Below(Sim(l), Sim(j)) => ~Below(Sim(l), Sim(i))
  <2> DEFINE a == Sim(i)[1]
             b == Sim(i)[2]
             c == Sim(j)[1]
             d == Sim(j)[2]
             e == Sim(l)[1]
             f == Sim(l)[2]
  <2>1. /\ a \in Nat /\ b \in Nat \ {0} /\ c \in Nat /\ d \in Nat \ {0}
        /\ e \in Nat /\ f \in Nat \ {0}
    BY <1>1
  <2>2. /\ Below(Sim(i), Sim(j)) <=> a * d < c * b
        /\ Below(Sim(j), Sim(i)) <=> c * b < a * d
        /\ Below(Sim(l), Sim(j)) <=> e * d < c * f
        /\ Below(Sim(i), Sim(l)) <=> a * f < e * b
        /\ Below(Sim(l), Sim(i)) <=> e * b < a * f
    BY DEF Below
  <2> HIDE DEF a, b, c, d, e, f
  <2>3. /\ a * d < c * b /\ ~(e * d < c * f) => a * f < e * b
        /\ ~(c * b < a * d) /\ ~(e * d < c * f) => ~(e * b < a * f)
    BY <2>1, FractionsAreOrdered
  <2> QED BY <2>2, <2>3
<1>8. SUFFICES \E i \in DOMAIN priors :
          /\ Sim(i)[1] > 0
          /\ \A j \in DOMAIN priors : ~Below(Sim(i), Sim(j)) /\ (j < i => Below(Sim(j), Sim(i)))
  BY <1>3 DEF bestDeterministicMatch, Sim
<1>9. Sim(k)[1] > 0
  BY <1>3 DEF Sim
<1>10. \A i, j \in 1..n :
          <<i, j>> \in R <=> (Below(Sim(j), Sim(i)) \/ (~Below(Sim(i), Sim(j)) /\ i < j))
  BY DEF R
<1>11. \A i \in 1..n : <<i, i>> \notin R
  BY <1>2, <1>4, <1>10
<1>12. \A i, j \in 1..n : i = j \/ <<i, j>> \in R \/ <<j, i>> \in R
  <2>1. \A i, j \in 1..n : i = j \/ i < j \/ j < i
    BY <1>2
  <2> QED BY <1>10, <2>1
<1>13. ASSUME NEW i \in 1..n, NEW j \in 1..n, NEW l \in 1..n, <<i, j>> \in R, <<j, l>> \in R
       PROVE  <<i, l>> \in R
  <2>1. /\ Below(Sim(j), Sim(i)) \/ (~Below(Sim(i), Sim(j)) /\ i < j)
        /\ Below(Sim(l), Sim(j)) \/ (~Below(Sim(j), Sim(l)) /\ j < l)
    BY <1>10, <1>13
  <2>2. ~Below(Sim(i), Sim(j)) /\ ~Below(Sim(j), Sim(l)) /\ ~Below(Sim(i), Sim(l))
    BY <1>2, <1>5, <1>7, <2>1
  <2>3. CASE Below(Sim(j), Sim(i)) \/ Below(Sim(l), Sim(j))
    <3>1. Below(Sim(l), Sim(i))
      BY <1>2, <1>7, <2>2, <2>3
    <3> QED BY <1>10, <3>1
  <2>4. CASE i < j /\ j < l
    <3>1. i < l
      BY <1>2, <2>4
    <3> QED BY <1>10, <2>2, <3>1
  <2> QED BY <2>1, <2>3, <2>4
<1>14. PICK i \in 1..n : \A j \in 1..n : i = j \/ <<i, j>> \in R
  <2>1. \A j, l, m \in 1..n : <<j, l>> \in R /\ <<l, m>> \in R => <<j, m>> \in R
    BY <1>13
  <2>2. n \in Nat \ {0}
    BY <1>2
  <2> QED BY <1>11, <1>12, <2>1, <2>2, FirstOfOrder, Zenon
<1>15. \A j \in 1..n : ~Below(Sim(i), Sim(j)) /\ (j < i => Below(Sim(j), Sim(i)))
  <2>1. TAKE j \in 1..n
  <2>2. i = j \/ Below(Sim(j), Sim(i)) \/ (~Below(Sim(i), Sim(j)) /\ i < j)
    BY <1>10, <1>14
  <2> QED BY <1>2, <1>4, <1>5, <2>2
<1> QED BY <1>2, <1>6, <1>9, <1>15

\* DuplicateForCause: a verdict of duplicate has a cause of six tenths, and the article
\* that it names is the closest of the author's (retrieval.ts:182-197, duplication.ts:35-65).
THEOREM DuplicateForCauseHolds == PolicySpec => []DuplicateForCause
<1> DEFINE Sim(i) == deterministicSimilarity(question.candidate, question.priors[i])
           Reaches(x) == 10 * x[1] >= 6 * x[2]
           best == bestDeterministicMatch(question.candidate, question.priors)
           judged == IF JudgmentAsked(question) THEN Judged(question.score) ELSE <<0, 1>>
           closest == IF best = {} THEN <<0, 1>> ELSE Sim(CHOOSE i \in best : TRUE)
<1>1. ReturnedFits => DuplicateForCause
  <2>1. SUFFICES ASSUME ReturnedFits, NEW a \in Returned("duplication")
                 PROVE  /\ a.duplicate <=>
                              \/ \E i \in DOMAIN question.priors : Reaches(Sim(i))
                              \/ JudgmentAsked(question) /\ 10 * question.score >= 6 * LEVELS
                        /\ \A m \in a.matched : \A i \in DOMAIN question.priors :
                              ~Below(Sim(m), Sim(i))
    BY DEF DuplicateForCause
  <2>2. question \in DuplicationQuestion /\ a = detectDuplication(question)
        /\ a.kind = "duplication"
    BY <2>1, KindNamesQuestion DEF Returned
  <2>3. /\ a.duplicate = IsDuplicate(judged, closest)
        /\ a.matched = IF IsDuplicate(judged, closest) THEN best ELSE Nothing
    BY <2>2 DEF detectDuplication, ErrorOf
  <2>4. \A m \in best : m \in DOMAIN question.priors
                        /\ \A i \in DOMAIN question.priors : ~Below(Sim(m), Sim(i))
    BY DEF bestDeterministicMatch
  <2>5. \A i \in DOMAIN question.priors : Sim(i)[1] \in Nat /\ Sim(i)[2] \in Nat \ {0}
    BY <2>2, SimilarityIsFraction, ScoresAreNumbers DEF DuplicationQuestion
  <2>6. ~Below(judged, DUPLICATION_THRESHOLD)
           <=> JudgmentAsked(question) /\ 10 * question.score >= 6 * LEVELS
    <3>1. question.score \in Int
      BY <2>2, ScoresAreNumbers DEF DuplicationQuestion
    <3> QED BY <3>1 DEF Below, DUPLICATION_THRESHOLD, Judged, Clamp, Least, Greatest, LEVELS
  <2>7. ~Below(closest, DUPLICATION_THRESHOLD)
           <=> \E i \in DOMAIN question.priors : Reaches(Sim(i))
    <3>1. CASE best = {}
      <4>1. \A i \in DOMAIN question.priors : ~Below(<<0, 1>>, Sim(i))
        BY <2>2, <3>1, BestMatchExists, ScoresAreNumbers DEF DuplicationQuestion
      <4>2. \A i \in DOMAIN question.priors : ~Reaches(Sim(i))
        BY <2>5, <4>1 DEF Below
      <4> QED BY <3>1, <4>2 DEF Below, DUPLICATION_THRESHOLD
    <3>2. CASE best # {}
      <4>1. PICK m \in best : closest = Sim(m)
        BY <3>2
      <4>2. ~Below(closest, DUPLICATION_THRESHOLD) <=> Reaches(Sim(m))
        BY <2>4, <2>5, <4>1 DEF Below, DUPLICATION_THRESHOLD
      <4>3. ASSUME NEW i \in DOMAIN question.priors, Reaches(Sim(i)) PROVE Reaches(Sim(m))
        BY <2>4, <2>5, <4>3, AtLeastReaches DEF Below
      <4> QED BY <2>4, <4>2, <4>3
    <3> QED BY <3>1, <3>2
  <2> QED BY <2>3, <2>4, <2>6, <2>7 DEF IsDuplicate, Nothing
<1> QED BY <1>1, ReturnedAlways, PTL

\* The elements of a finite set can be listed, each once.
LEMMA SetListing ==
    ASSUME NEW S, IsFiniteSet(S)
    PROVE  /\ Cardinality(S) \in Nat
           /\ SetToSeq(S) \in Bijection(1..Cardinality(S), S)
<1> DEFINE n == Cardinality(S)
<1>1. n \in Nat /\ ExistsBijection(1..n, S)
  BY FS_CardinalityType
<1>2. IsFiniteSet(1..n) /\ Cardinality(1..n) = n
  BY <1>1, FS_Interval
<1>3. \E f \in [1..n -> S] : IsInjective(f)
  BY <1>1 DEF ExistsBijection, Bijection, Injection
<1>4. SetToSeq(S) \in Injection(1..n, S)
  BY <1>3 DEF SetToSeq, Injection
<1>5. SetToSeq(S) \in Surjection(1..n, S)
  <2> DEFINE f == SetToSeq(S)
             D == 1..n
  <2>1. Cardinality(D) = Cardinality(S) /\ f \in Injection(D, S)
    BY <1>2, <1>4
  <2> HIDE DEF f, D
  <2>2. f \in Surjection(D, S)
    BY <2>1, FS_Injection
  <2> QED BY <2>2 DEF f, D
<1> QED BY <1>1, <1>4, <1>5 DEF Bijection

\* What is ranked lower has the higher place, and no two share one.
LEMMA PlacesGrow ==
    ASSUME NEW n \in Nat, NEW seq, DOMAIN seq = 1..n, NEW score,
           \A i \in 1..n : score[seq[i]] \in Int,
           NEW i \in 1..n
    PROVE  /\ Place(seq, score, i) \in 1..n
           /\ \A k \in 1..n : Before(seq, score, i, k)
                                 => Place(seq, score, i) < Place(seq, score, k)
<1> DEFINE Above(k) == {j \in 1..n : Before(seq, score, j, k)}
<1>1. IsFiniteSet(1..n) /\ Cardinality(1..n) = n
  BY FS_Interval
<1>2. \A k \in 1..n : IsFiniteSet(Above(k)) /\ Cardinality(Above(k)) \in Nat
  BY <1>1, FS_Subset, FS_CardinalityType
<1>3. \A k \in 1..n : ~Before(seq, score, k, k)
  BY DEF Before
<1>4. \A j, k, l \in 1..n : Before(seq, score, j, k) /\ Before(seq, score, k, l)
                              => Before(seq, score, j, l)
  BY DEF Before
<1>5. \A k \in 1..n : Place(seq, score, k) = 1 + Cardinality(Above(k))
  BY DEF Place
<1>6. Above(i) \in SUBSET (1..n) /\ Above(i) # 1..n
  BY <1>3
<1>7. \A k \in 1..n : Before(seq, score, i, k) =>
         Above(i) \in SUBSET Above(k) /\ Above(i) # Above(k)
  BY <1>3, <1>4
<1> HIDE DEF Above
<1>8. Cardinality(Above(i)) <= n /\ Cardinality(Above(i)) # n
  BY <1>1, <1>6, FS_Subset
<1>9. ASSUME NEW k \in 1..n, Before(seq, score, i, k)
       PROVE  Place(seq, score, i) < Place(seq, score, k)
  <2>1. Cardinality(Above(i)) <= Cardinality(Above(k))
        /\ Cardinality(Above(i)) # Cardinality(Above(k))
    BY <1>2, <1>7, <1>9, FS_Subset
  <2> QED BY <1>2, <1>5, <2>1
<1> QED BY <1>2, <1>5, <1>8, <1>9

\* A ranking has every element at one place, the higher scores first.
LEMMA Ranking ==
    ASSUME NEW n \in Nat, NEW X, NEW seq \in Bijection(1..n, X), NEW score,
           \A x \in X : score[x] \in Int
    PROVE  /\ Ranked(seq, score) \in Bijection(1..n, X)
           /\ \A k, m \in 1..n : k < m =>
                 score[Ranked(seq, score)[k]] >= score[Ranked(seq, score)[m]]
<1> DEFINE place == [i \in 1..n |-> Place(seq, score, i)]
           at == [k \in 1..n |-> CHOOSE i \in DOMAIN seq : Place(seq, score, i) = k]
<1>1. seq \in [1..n -> X] /\ DOMAIN seq = 1..n /\ \A i \in 1..n : score[seq[i]] \in Int
  BY DEF Bijection, Injection
<1>2. \A i \in 1..n : place[i] \in 1..n
  BY <1>1, PlacesGrow
<1>3. \A i, k \in 1..n : Before(seq, score, i, k) => place[i] < place[k]
  BY <1>1, PlacesGrow
<1>4. \A i, k \in 1..n : i = k \/ Before(seq, score, i, k) \/ Before(seq, score, k, i)
  BY <1>1 DEF Before
<1>5. place \in Bijection(1..n, 1..n)
  <2>1. place \in Injection(1..n, 1..n)
    <3>1. place \in [1..n -> 1..n]
      BY <1>2
    <3>2. DOMAIN place = 1..n
      OBVIOUS
    <3> HIDE DEF place
    <3>3. ASSUME NEW i \in 1..n, NEW k \in 1..n, i # k
          PROVE  place[i] # place[k]
      <4>1. place[i] \in Int /\ place[k] \in Int
        BY <1>2
      <4>2. place[i] < place[k] \/ place[k] < place[i]
        BY <1>3, <1>4, <3>3
      <4> QED BY <4>1, <4>2
    <3> QED BY <3>1, <3>2, <3>3 DEF Injection, IsInjective
  <2> DEFINE D == 1..n
  <2>2. IsFiniteSet(D) /\ place \in Injection(D, D)
    BY <2>1, FS_Interval
  <2> HIDE DEF place, D
  <2>3. place \in Surjection(D, D)
    BY <2>2, FS_Injection
  <2> QED BY <2>2, <2>3 DEF D, Bijection
<1>6. \A k \in 1..n : at[k] \in 1..n /\ place[at[k]] = k
  BY <1>1, <1>5 DEF Bijection, Surjection
<1>7. Ranked(seq, score) = [k \in 1..n |-> seq[at[k]]]
  BY <1>1 DEF Ranked
<1> HIDE DEF at, place
<1>8. ASSUME NEW k \in 1..n, NEW m \in 1..n, k < m
      PROVE  score[seq[at[k]]] >= score[seq[at[m]]]
  <2>1. ~Before(seq, score, at[m], at[k]) /\ at[k] # at[m]
    BY <1>3, <1>6, <1>8
  <2> QED BY <1>1, <1>4, <1>6, <2>1 DEF Before
<1>9. \A i \in 1..n : \E k \in 1..n : at[k] = i
  <2>1. \A i, k \in 1..n : place[i] = place[k] => i = k
    BY <1>5 DEF Bijection, Injection, IsInjective
  <2> QED BY <1>2, <1>6, <2>1
<1>10. Ranked(seq, score) \in [1..n -> X] /\ IsInjective(Ranked(seq, score))
  BY <1>1, <1>6, <1>7 DEF IsInjective, Bijection, Injection
<1>11. \A x \in X : \E k \in 1..n : Ranked(seq, score)[k] = x
  <2>1. TAKE x \in X
  <2>2. PICK i \in 1..n : seq[i] = x
    BY DEF Bijection, Surjection
  <2>3. PICK k \in 1..n : at[k] = i
    BY <1>9
  <2> QED BY <1>7, <2>2, <2>3
<1> QED BY <1>7, <1>8, <1>10, <1>11 DEF Bijection, Injection, Surjection

LEMMA Listing ==
    ASSUME NEW S, IsFiniteSet(S), NEW found, \A x \in S : found[x] \in Int
    PROVE  /\ Cardinality(S) \in Nat
           /\ Listed(S, found) \in Bijection(1..Cardinality(S), S)
<1> DEFINE n == Cardinality(S)
           seq == SetToSeq(S)
<1>1. n \in Nat /\ seq \in Bijection(1..n, S)
  BY SetListing
<1> HIDE DEF n, seq
<1>2. Ranked(seq, found) \in Bijection(1..n, S)
  BY <1>1, Ranking
<1> QED BY <1>1, <1>2 DEF Listed, n, seq

\* The first elements of a listing.
LEMMA Firsts ==
    ASSUME NEW n \in Nat, NEW X, NEW seq \in Bijection(1..n, X), NEW k \in Nat
    PROVE  /\ Least(k, n) \in 0..n
           /\ Len(First(seq, k)) = Least(k, n) /\ DOMAIN First(seq, k) = 1..Least(k, n)
           /\ \A i \in 1..Least(k, n) : First(seq, k)[i] = seq[i]
<1>1. seq \in [1..n -> X] /\ seq \in Seq(X) /\ Len(seq) = n
  BY DEF Bijection, Injection
<1>2. Least(k, n) \in 0..n
  BY DEF Least
<1>3. First(seq, k) = SubSeq(seq, 1, Least(k, n))
  BY <1>1 DEF First
<1> HIDE DEF Least
<1> QED BY <1>1, <1>2, <1>3

\* What a search returns is part of what there is, with its scores.
LEMMA KeptIs ==
    ASSUME NEW found, IsFiniteSet(DOMAIN found), \A s \in DOMAIN found : found[s] \in Int,
           NEW limit \in Nat
    PROVE  /\ DOMAIN Kept(found, limit) \subseteq DOMAIN found
           /\ IsFiniteSet(DOMAIN Kept(found, limit))
           /\ \A s \in DOMAIN Kept(found, limit) : Kept(found, limit)[s] = found[s]
<1> DEFINE S == DOMAIN found
           n == Cardinality(S)
           all == Listed(S, found)
<1>1. n \in Nat /\ all \in Bijection(1..n, S)
  BY Listing
<1> HIDE DEF n, all
<1>2. \A i \in DOMAIN First(all, limit) : First(all, limit)[i] \in S
  <2>1. \A i \in 1..n : all[i] \in S
    BY <1>1 DEF Bijection, Injection
  <2>2. /\ Least(limit, n) \in 0..n /\ DOMAIN First(all, limit) = 1..Least(limit, n)
        /\ \A i \in 1..Least(limit, n) : First(all, limit)[i] = all[i]
    BY <1>1, Firsts
  <2> QED BY <1>1, <2>1, <2>2
<1>3. ToSet(First(all, limit)) \in SUBSET S
  BY <1>2 DEF ToSet
<1>4. Kept(found, limit) = [s \in ToSet(First(all, limit)) |-> found[s]]
  BY DEF Kept, Hits, all
<1> QED BY <1>3, <1>4, FS_Subset

\* The candidates are all that is found, each once.
LEMMA CandidatesAre ==
    ASSUME NEW texts, IsFiniteSet(DOMAIN texts), \A s \in DOMAIN texts : texts[s] \in Int,
           NEW vecs, IsFiniteSet(DOMAIN vecs), \A s \in DOMAIN vecs : vecs[s] \in Int
    PROVE  \E n \in Nat :
              Candidates(texts, vecs) \in Bijection(1..n, DOMAIN texts \cup DOMAIN vecs)
<1> DEFINE T == DOMAIN texts
           V == DOMAIN vecs \ DOMAIN texts
           a == Cardinality(T)
           b == Cardinality(V)
           first == Listed(T, texts)
           second == Listed(V, vecs)
<1>1. a \in Nat /\ first \in Bijection(1..a, T)
  BY Listing
<1>2. IsFiniteSet(V) /\ \A s \in V : vecs[s] \in Int
  BY FS_Difference
<1>3. b \in Nat /\ second \in Bijection(1..b, V)
  <2> HIDE DEF V
  <2> QED BY <1>2, Listing
<1>4. T \cap V = {} /\ T \cup V = DOMAIN texts \cup DOMAIN vecs
  OBVIOUS
<1>5. Candidates(texts, vecs) = first \o second
  BY DEF Candidates
<1> HIDE DEF T, V, a, b, first, second
<1>6. /\ first \in [1..a -> T] /\ second \in [1..b -> V]
      /\ \A i, j \in 1..a : first[i] = first[j] => i = j
      /\ \A i, j \in 1..b : second[i] = second[j] => i = j
      /\ \A t \in T : \E i \in 1..a : first[i] = t
      /\ \A t \in V : \E i \in 1..b : second[i] = t
  BY <1>1, <1>3 DEF Bijection, Injection, Surjection, IsInjective
<1> DEFINE both == [i \in 1..(a + b) |-> IF i <= a THEN first[i] ELSE second[i - a]]
<1>7. first \o second = both
  <2>1. first \in Seq(T \cup V) /\ second \in Seq(T \cup V) /\ Len(first) = a /\ Len(second) = b
    BY <1>1, <1>3, <1>6
  <2>2. /\ first \o second \in Seq(T \cup V) /\ Len(first \o second) = a + b
        /\ \A i \in 1..(a + b) : (first \o second)[i] = both[i]
    <3>1. /\ first \o second \in Seq(T \cup V) /\ Len(first \o second) = a + b
          /\ \A i \in 1..(a + b) :
                (first \o second)[i] = IF i <= Len(first) THEN first[i] ELSE second[i - Len(first)]
      BY <2>1, ConcatProperties
    <3> QED BY <2>1, <3>1
  <2>3. both \in Seq(T \cup V) /\ Len(both) = a + b
    <3>1. a + b \in Nat /\ both \in [1..(a + b) -> T \cup V]
      BY <1>1, <1>3, <1>6
    <3> HIDE DEF both
    <3> QED BY <3>1
  <2> QED BY <2>2, <2>3, SeqEqual
<1>8. both \in [1..(a + b) -> T \cup V]
  BY <1>1, <1>3, <1>6
<1>9. IsInjective(both)
  <2> SUFFICES ASSUME NEW i \in 1..(a + b), NEW j \in 1..(a + b), both[i] = both[j]
               PROVE  i = j
    BY DEF IsInjective
  <2>1. \A k \in 1..(a + b) : /\ k <= a => k \in 1..a /\ both[k] = first[k] /\ both[k] \in T
                              /\ ~(k <= a) => /\ k - a \in 1..b /\ both[k] = second[k - a]
                                              /\ both[k] \in V
    BY <1>1, <1>3, <1>6
  <2> HIDE DEF both
  <2> QED BY <1>1, <1>3, <1>4, <1>6, <2>1
<1>10. \A t \in T \cup V : \E k \in 1..(a + b) : both[k] = t
  <2>1. ASSUME NEW t \in T PROVE \E k \in 1..(a + b) : both[k] = t
    <3>1. PICK i \in 1..a : first[i] = t
      BY <1>6
    <3> QED BY <1>1, <1>3, <3>1
  <2>2. ASSUME NEW t \in V PROVE \E k \in 1..(a + b) : both[k] = t
    <3>1. PICK i \in 1..b : second[i] = t
      BY <1>6
    <3>2. i + a \in 1..(a + b) /\ both[i + a] = t
      BY <1>1, <1>3, <3>1
    <3> QED BY <3>2
  <2> QED BY <2>1, <2>2
<1>11. a + b \in Nat /\ both \in Bijection(1..(a + b), T \cup V)
  <2> HIDE DEF both
  <2> QED BY <1>1, <1>3, <1>8, <1>9, <1>10 DEF Bijection, Injection, Surjection
<1> QED BY <1>4, <1>5, <1>7, <1>11

\* A score is a number.
LEMMA CompositeIsInt ==
    ASSUME NEW texts, IsFiniteSet(DOMAIN texts), \A s \in DOMAIN texts : texts[s] \in Int,
           NEW vecs, \A s \in DOMAIN vecs : vecs[s] \in Int,
           NEW topics \in Topics, NEW s \in Snapshot
    PROVE  Composite(texts, vecs, topics, s) \in Int
<1>1. recencyScore(About[s].published) \in Int
  <2>1. CASE About[s].published = {}
    BY <2>1 DEF recencyScore, ONE
  <2>2. CASE About[s].published # {}
    <3>1. PICK age \in -1..3 : About[s].published = {age}
      BY <2>2, PolicyAssumption
    <3>2. HALVED[Greatest(age, 0) + 1] \in 0..ONE
      BY DEF HALVED, ONE, Greatest
    <3> QED BY <2>2, <3>1, <3>2 DEF recencyScore
  <2> QED BY <2>1, <2>2
<1>2. engagementScore(About[s].comments, About[s].reactions) \in Int
  BY PolicyAssumption DEF engagementScore, Least, Greatest, ONE
<1>3. topicRelevance(About[s].tags, topics) \in Int
  <2> DEFINE tags == About[s].tags
             matched == {i \in DOMAIN tags : \E u \in ToSet(topics) : Folded(tags[i]) = Folded(u)}
  <2>1. tags \in Seq(STRING) /\ topics \in Seq(STRING)
    BY PolicyAssumption
  <2>2. Cardinality(matched) \in Nat
    <3>1. matched \in SUBSET (1..Len(tags)) /\ IsFiniteSet(1..Len(tags))
      <4>1. DOMAIN tags = 1..Len(tags) /\ Len(tags) \in Nat
        BY <2>1
      <4> QED BY <4>1, FS_Interval
    <3> HIDE DEF matched
    <3> QED BY <3>1, FS_Subset, FS_CardinalityType
  <2>3. CASE topics = <<>>
    BY <2>3 DEF topicRelevance, ONE
  <2>4. CASE topics # <<>>
    <3>1. Len(topics) \in Nat \ {0}
      BY <2>1, <2>4
    <3>2. topicRelevance(tags, topics) = Least((ONE * Cardinality(matched)) \div Len(topics), ONE)
      BY <2>4 DEF topicRelevance
    <3> HIDE DEF matched, tags
    <3> QED BY <2>2, <3>1, <3>2 DEF Least, ONE, tags
  <2> QED BY <2>3, <2>4
<1>4. ASSUME s \in DOMAIN texts PROVE normalize(texts, texts[s]) \in Int
  <2> DEFINE all == {texts[t] : t \in DOMAIN texts}
             max == CHOOSE n \in all : \A m \in all : m <= n
             min == CHOOSE n \in all : \A m \in all : n <= m
  <2>1. normalize(texts, texts[s]) = IF max = min THEN ONE \div 2
                                     ELSE (ONE * (texts[s] - min)) \div (max - min)
    BY DEF normalize
  <2> DEFINE T == DOMAIN texts
             n == Cardinality(T)
             line == Ranked(SetToSeq(T), texts)
  <2>2. n \in Nat /\ SetToSeq(T) \in Bijection(1..n, T)
    BY SetListing
  <2> HIDE DEF n
  <2>3. /\ line \in Bijection(1..n, T)
        /\ \A k, m \in 1..n : k < m => texts[line[k]] >= texts[line[m]]
    BY <2>2, Ranking
  <2> HIDE DEF line
  <2>4. /\ \A k \in 1..n : line[k] \in T
        /\ \A t \in T : \E k \in 1..n : line[k] = t
    BY <2>3 DEF Bijection, Injection, Surjection
  <2>5. 1 \in 1..n /\ n \in 1..n
    BY <1>4, <2>2, <2>4
  <2>6. \A t \in T : texts[line[1]] >= texts[t] /\ texts[t] >= texts[line[n]]
    <3>1. TAKE t \in T
    <3>2. PICK k \in 1..n : line[k] = t
      BY <2>4
    <3>3. texts[line[1]] \in Int /\ texts[line[k]] \in Int /\ texts[line[n]] \in Int
      BY <2>4, <2>5
    <3>4. k = 1 \/ texts[line[1]] >= texts[line[k]]
      BY <2>2, <2>3, <2>5
    <3>5. k = n \/ texts[line[k]] >= texts[line[n]]
      BY <2>2, <2>3, <2>5
    <3> QED BY <3>2, <3>3, <3>4, <3>5
  <2>7. /\ texts[line[1]] \in all /\ texts[line[n]] \in all
        /\ \A v \in all : v \in Int /\ v <= texts[line[1]] /\ texts[line[n]] <= v
    BY <2>4, <2>5, <2>6
  <2> HIDE DEF all
  <2>8. max \in all /\ (\A m \in all : m <= max) /\ min \in all /\ (\A m \in all : min <= m)
    BY <2>7
  <2>9. max \in Int /\ min \in Int /\ min <= max /\ texts[s] \in Int
    BY <1>4, <2>7, <2>8
  <2> HIDE DEF max, min
  <2>10. CASE max = min
    BY <2>1, <2>10 DEF ONE
  <2>11. CASE max # min
    <3>1. max - min \in Nat \ {0} /\ ONE * (texts[s] - min) \in Int
      BY <2>9, <2>11 DEF ONE
    <3> QED BY <2>1, <2>11, <3>1
  <2> QED BY <2>10, <2>11
<1>5. semantic(texts, vecs, s) \in Int
  BY <1>4 DEF semantic, Greatest
<1> QED BY <1>1, <1>2, <1>3, <1>5 DEF Composite, OtherScore, WEIGHT

\* What the vector search adds to a list of results.
Meant(q, limit) == IF q.provider = "ok" THEN Kept(q.vectors, limit) ELSE NoHits

\* A result list is the top of the ranking of all that the two searches keep.
LEMMA ResultsAre ==
    ASSUME NEW q \in SearchQuestion, hybridSearch(q).kind = "results"
    PROVE  /\ LimitOf(q.limit) \in Nat
           /\ hybridSearch(q).ranked =
                First(Ranked(Candidates(Kept(q.texts, LimitOf(q.limit)), Meant(q, LimitOf(q.limit))),
                             CompositeOf(Kept(q.texts, LimitOf(q.limit)),
                                         Meant(q, LimitOf(q.limit)), q.topics)),
                      LimitOf(q.limit))
<1> DEFINE limit == LimitOf(q.limit)
           asks == hasEmbeddings(q.provider, q.vectors)
           found == IF asks THEN embedAndSearch(q.provider, q.vectors) ELSE NoHits
<1>1. ~LimitRefused(q.limit) /\ ~(asks /\ q.provider = "fails")
      /\ hybridSearch(q).ranked = First(rankHybrid(q.texts, found, q.topics, limit), limit)
  BY DEF hybridSearch, ErrorOf
<1>2. limit \in Nat
  <2>1. q.limit \in Limit
    BY DEF SearchQuestion
  <2> QED BY <1>1, <2>1, PolicyAssumption DEF LimitRefused, LimitOf, Least
<1>3. Kept(NoHits, limit) = NoHits
  <2>1. DOMAIN NoHits = {} /\ IsFiniteSet(DOMAIN NoHits)
    BY FS_EmptySet DEF NoHits
  <2>2. DOMAIN Kept(NoHits, limit) = {}
    BY <1>2, <2>1, KeptIs
  <2> QED BY <2>2 DEF Kept, NoHits
<1>4. DOMAIN q.vectors = {} => q.vectors = NoHits
  <2>1. \E S \in SUBSET Snapshot : q.vectors \in [S -> VectorScore]
    BY DEF SearchQuestion, Scores
  <2> QED BY <2>1 DEF NoHits
<1>5. q.provider \in {"none", "ok", "empty", "fails"}
  BY DEF SearchQuestion
<1>6. Kept(found, limit) = Meant(q, limit)
  BY <1>1, <1>3, <1>4, <1>5 DEF hasEmbeddings, embedAndSearch, Meant
<1> QED BY <1>1, <1>2, <1>6 DEF rankHybrid

\* BestFoundAreListed: the results are distinct, within the limit and in order, and what
\* is left out of a full list scores no higher (retrieval.ts:161-174, ranking.ts:94-148).
THEOREM BestFoundAreListedHolds == PolicySpec => []BestFoundAreListed
<1>1. ASSUME ReturnedFits, NEW a \in Returned("results"), NEW limit, limit = LimitOf(question.limit),
             NEW texts, texts = Kept(question.texts, limit),
             NEW vecs, vecs = Meant(question, limit),
             NEW Score, Score = CompositeOf(texts, vecs, question.topics)
      PROVE  /\ Len(a.ranked) = Cardinality(ToSet(a.ranked)) /\ Len(a.ranked) <= limit
             /\ ToSet(a.ranked) \subseteq DOMAIN texts \cup DOMAIN vecs
             /\ \A i, j \in DOMAIN a.ranked : i < j => Score[a.ranked[i]] >= Score[a.ranked[j]]
             /\ \A s \in (DOMAIN texts \cup DOMAIN vecs) \ ToSet(a.ranked) :
                  /\ Len(a.ranked) = limit
                  /\ \A i \in DOMAIN a.ranked : Score[a.ranked[i]] >= Score[s]
  <2> DEFINE X == DOMAIN texts \cup DOMAIN vecs
             all == Ranked(Candidates(texts, vecs), Score)
  <2>1. /\ question \in SearchQuestion /\ a = hybridSearch(question)
        /\ hybridSearch(question).kind = "results"
    BY <1>1, KindNamesQuestion DEF Returned
  <2>2. limit \in Nat /\ a.ranked = First(all, limit)
    BY <1>1, <2>1, ResultsAre
  <2>3. /\ question.topics \in Topics
        /\ DOMAIN question.texts \subseteq Snapshot
        /\ \A s \in DOMAIN question.texts : question.texts[s] \in Int
        /\ DOMAIN question.vectors \subseteq Snapshot
        /\ \A s \in DOMAIN question.vectors : question.vectors[s] \in Int
    BY <2>1, ScoresAreNumbers DEF SearchQuestion, Scores
  <2>4. IsFiniteSet(DOMAIN question.texts) /\ IsFiniteSet(DOMAIN question.vectors)
    BY <2>3, FS_Subset, PolicyAssumption
  <2>5. /\ DOMAIN texts \subseteq Snapshot /\ IsFiniteSet(DOMAIN texts)
        /\ \A s \in DOMAIN texts : texts[s] \in Int
    BY <1>1, <2>2, <2>3, <2>4, KeptIs
  <2>6. /\ DOMAIN vecs \subseteq Snapshot /\ IsFiniteSet(DOMAIN vecs)
        /\ \A s \in DOMAIN vecs : vecs[s] \in Int
    <3>1. CASE question.provider = "ok"
      BY <1>1, <2>2, <2>3, <2>4, <3>1, KeptIs DEF Meant
    <3>2. CASE question.provider # "ok"
      BY <1>1, <3>2, FS_EmptySet DEF Meant, NoHits
    <3> QED BY <3>1, <3>2
  <2>7. \A s \in X : Score[s] \in Int
    BY <1>1, <2>3, <2>5, <2>6, CompositeIsInt DEF CompositeOf
  <2>8. \E n \in Nat : Candidates(texts, vecs) \in Bijection(1..n, X)
    <3>1. \A s \in DOMAIN texts : texts[s] \in Int
      BY <2>5
    <3> QED BY <2>5, <2>6, <3>1, CandidatesAre
  <2> HIDE DEF X
  <2>9. PICK n \in Nat : Candidates(texts, vecs) \in Bijection(1..n, X)
    BY <2>8
  <2>10. /\ all \in Bijection(1..n, X)
         /\ \A k, m \in 1..n : k < m => Score[all[k]] >= Score[all[m]]
    BY <2>7, <2>9, Ranking
  <2> HIDE DEF all
  <2> DEFINE top == Least(limit, n)
  <2>11. /\ top \in 0..n /\ top <= limit /\ (top = limit \/ top = n)
         /\ Len(a.ranked) = top /\ DOMAIN a.ranked = 1..top
         /\ \A i \in 1..top : a.ranked[i] = all[i]
    BY <2>2, <2>10, Firsts DEF Least
  <2> HIDE DEF top
  <2>12. /\ \A i \in 1..n : all[i] \in X
         /\ \A i, j \in 1..n : all[i] = all[j] => i = j
         /\ \A s \in X : \E i \in 1..n : all[i] = s
    BY <2>10 DEF Bijection, Injection, Surjection, IsInjective
  <2>13. Len(a.ranked) = Cardinality(ToSet(a.ranked))
    <3> DEFINE shown == [i \in 1..top |-> all[i]]
               S == ToSet(a.ranked)
    <3>1. S = {all[i] : i \in 1..top}
      BY <2>11 DEF ToSet
    <3>2. shown \in Bijection(1..top, S)
      BY <2>11, <2>12, <3>1 DEF Bijection, Injection, Surjection, IsInjective
    <3>3. ExistsBijection(1..top, S) /\ top \in Nat
      BY <2>11, <3>2 DEF ExistsBijection
    <3> HIDE DEF S
    <3>4. Cardinality(S) = top
      BY <3>3, FS_CountingElements
    <3> QED BY <2>11, <3>4 DEF S
  <2>14. ToSet(a.ranked) \subseteq X
    BY <2>11, <2>12 DEF ToSet
  <2>15. \A i, j \in DOMAIN a.ranked : i < j => Score[a.ranked[i]] >= Score[a.ranked[j]]
    BY <2>10, <2>11
  <2>16. ASSUME NEW s \in X \ ToSet(a.ranked)
         PROVE  /\ Len(a.ranked) = limit
                /\ \A i \in DOMAIN a.ranked : Score[a.ranked[i]] >= Score[s]
    <3>1. PICK k \in 1..n : all[k] = s
      BY <2>12
    <3>2. k \notin 1..top
      BY <2>11, <3>1 DEF ToSet
    <3> QED BY <2>2, <2>10, <2>11, <3>1, <3>2
  <2> QED BY <2>11, <2>13, <2>14, <2>15, <2>16 DEF X
<1>2. ReturnedFits => BestFoundAreListed
  <2> SUFFICES ASSUME ReturnedFits, NEW a \in Returned("results")
               PROVE
        LET limit == LimitOf(question.limit)
            texts == Kept(question.texts, limit)
            vecs == IF question.provider = "ok" THEN Kept(question.vectors, limit) ELSE NoHits
            Score(s) == Composite(texts, vecs, question.topics, s)
        IN  /\ Len(a.ranked) = Cardinality(ToSet(a.ranked)) /\ Len(a.ranked) <= limit
            /\ \A i, j \in DOMAIN a.ranked : i < j => Score(a.ranked[i]) >= Score(a.ranked[j])
            /\ \A s \in (DOMAIN texts \cup DOMAIN vecs) \ ToSet(a.ranked) :
                 /\ Len(a.ranked) = limit
                 /\ \A i \in DOMAIN a.ranked : Score(a.ranked[i]) >= Score(s)
    BY DEF BestFoundAreListed
  <2> DEFINE limit == LimitOf(question.limit)
             texts == Kept(question.texts, limit)
             vecs == Meant(question, limit)
             Score == CompositeOf(texts, vecs, question.topics)
  <2>1. \A s \in DOMAIN texts \cup DOMAIN vecs :
           Score[s] = Composite(texts, vecs, question.topics, s)
    BY DEF CompositeOf
  <2>2. vecs = IF question.provider = "ok" THEN Kept(question.vectors, limit) ELSE NoHits
    BY DEF Meant
  <2> HIDE DEF limit, texts, vecs, Score
  <2>3. /\ limit = LimitOf(question.limit) /\ texts = Kept(question.texts, limit)
        /\ vecs = Meant(question, limit) /\ Score = CompositeOf(texts, vecs, question.topics)
    BY DEF limit, texts, vecs, Score
  <2>4. /\ Len(a.ranked) = Cardinality(ToSet(a.ranked)) /\ Len(a.ranked) <= limit
        /\ ToSet(a.ranked) \subseteq DOMAIN texts \cup DOMAIN vecs
        /\ \A i, j \in DOMAIN a.ranked : i < j => Score[a.ranked[i]] >= Score[a.ranked[j]]
        /\ \A s \in (DOMAIN texts \cup DOMAIN vecs) \ ToSet(a.ranked) :
             /\ Len(a.ranked) = limit
             /\ \A i \in DOMAIN a.ranked : Score[a.ranked[i]] >= Score[s]
    BY <1>1, <2>3
  <2>5. \A i \in DOMAIN a.ranked : a.ranked[i] \in DOMAIN texts \cup DOMAIN vecs
    BY <2>4 DEF ToSet
  <2> QED BY <2>1, <2>2, <2>3, <2>4, <2>5
<1> QED BY <1>2, ReturnedAlways, PTL

=============================================================================
