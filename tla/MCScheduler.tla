----------------------------- MODULE MCScheduler -----------------------------
(* Small instances of Scheduler for TLC. *)
EXTENDS Scheduler, TLC

CONSTANTS u1, n1, n2, a1, a2

RowSymmetry == Permutations(RowIds)

G(item, slot, daily) == [item |-> item, angel |-> a1, slot |-> slot, daily |-> daily]
Note(groups, sync) == [user |-> u1, groups |-> groups, sync |-> sync]

\* two items that may be due at one time, of which a scan returns one; one of
\* them may have been due later
Tied == {Note({G(n1, 0, FALSE)}, FALSE), Note({G(n1, 1, FALSE)}, FALSE),
         Note({[G(n2, 1, TRUE) EXCEPT !.angel = a2]}, FALSE)}

\* two items about one angel; sync keeps one, the other or none of them
TwoItems == {Note({G(n1, 0, FALSE)}, FALSE), Note({G(n2, 1, TRUE)}, TRUE), Note({}, TRUE)}
=============================================================================
