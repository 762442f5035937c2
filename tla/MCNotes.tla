------------------------------ MODULE MCNotes ------------------------------
(* Small instances of Notes for TLC. *)
EXTENDS Notes, TLC

CONSTANTS ann, Ann, bob

\* "Ann" is accepted for ann, but is not her normalised name
Spelling == [t \in Typed |-> IF t = Ann THEN ann ELSE t]

Symmetry == Permutations(Notes) \union Permutations(Requests) \union Permutations(Slots)
=============================================================================
