----------------------------- MODULE MCIngestion -----------------------------
(* Model values and symmetry for TLC: documents, workers and mcp-write     *)
(* requests are interchangeable.  Liveness runs use no symmetry.           *)
EXTENDS Ingestion, TLC

Symmetry == {d @@ w @@ t : d \in Permutations(Docs), w \in Permutations(Workers), t \in Permutations(Threads)}
=============================================================================
