-------------------------------- MODULE Outbox --------------------------------
(***************************************************************************)
(* What the scheduler promises about a row of its table: the row can be    *)
(* armed again and again, each arming is taken at most once, and only what *)
(* was taken is sent, once.  Armings may be lost; none is sent twice.      *)
(***************************************************************************)
EXTENDS Naturals

CONSTANT Ids

VARIABLES
  armed,   \* the number of the row's latest arming
  taken,   \* the armings somebody took: <<id, number>>
  out      \* what was sent: <<id, number, is it a repetition?>>

vars == <<armed, taken, out>>

Init == armed = [id \in Ids |-> 0] /\ taken = {} /\ out = {}

Arm(id) ==
  /\ armed' = [armed EXCEPT ![id] = @ + 1]
  /\ UNCHANGED <<taken, out>>

Take(id) ==
  /\ <<id, armed[id]>> \notin taken
  /\ taken' = taken \union {<<id, armed[id]>>}
  /\ UNCHANGED <<armed, out>>

Send(m) ==
  /\ m \in taken /\ <<m[1], m[2], FALSE>> \notin out
  /\ out' = out \union {<<m[1], m[2], FALSE>>}
  /\ UNCHANGED <<armed, taken>>

Next == (\E id \in Ids : Arm(id) \/ Take(id)) \/ (\E m \in taken : Send(m))

Spec == Init /\ [][Next]_vars
=============================================================================
