------------------------------ MODULE MCArticles ------------------------------
(***************************************************************************)
(* Small instances of drafting and publishing for TLC.                     *)
(***************************************************************************)
EXTENDS ArticleProperties, TLC

CONSTANTS t1, t2, clean, rough

\* Any two calls can be swapped.
Threads == Permutations({t1, t2})

\* All but the texts at Forem: no action depends on them, and no property of the safety
\* run reads them.
WithoutForemTexts ==
    <<now, faults, overlapped, tables, sent, pc, call,
      [d \in Draft |-> IF remote[d] = None THEN None ELSE remote[d].published],
      {[draft |-> w.draft, published |-> w.published] : w \in abandoned}>>

=============================================================================
