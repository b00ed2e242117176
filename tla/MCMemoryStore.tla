--------------------------- MODULE MCMemoryStore ---------------------------
(***************************************************************************)
(* Instances of MemoryStore for TLC.                                       *)
(***************************************************************************)
EXTENDS MemoryStore, TLC

Fact(content, publication, recall, expires) ==
    [content |-> content, publication |-> publication, recall |-> recall, expires |-> expires]

\* Public evidence that expires; its successors and promoted copies do not.
ExpiringFact == {Fact("f1", "publishable", "evidence_only", 2)}

\* One that expires and a private one that does not.
TwoFacts == ExpiringFact \cup {Fact("f1", "private", "evidence_only", None)}

TwoCommits == <<0, 1>>

WriterSymmetry == Permutations(Writers)
=============================================================================
