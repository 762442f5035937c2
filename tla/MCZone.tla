------------------------------- MODULE MCZone -------------------------------
(* A small instance of Zone for TLC. *)
EXTENDS Zone, TLC

CONSTANTS llm, m1, m2

OneService == llm :> {m1, m2}
FirstOfAll == llm :> m1

Symmetry == Permutations(Gets) \union Permutations(Puts) \union Permutations(Swaps)
=============================================================================
