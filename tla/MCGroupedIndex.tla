--------------------------- MODULE MCGroupedIndex ---------------------------
(* Two groups for TLC: one with a nameless document, one without; one      *)
(* angel has a document in each.                                           *)
EXTENDS GroupedIndex

CONSTANTS doc1, doc2, doc3, doc4, wealth, health
Names  == (doc1 :> "" @@ doc2 :> "Aniel") @@ (doc3 :> "Aniel" @@ doc4 :> "Lauviah")
Values == (doc1 :> wealth @@ doc2 :> wealth) @@ (doc3 :> health @@ doc4 :> health)

Symmetry == Permutations(Threads)
=============================================================================
