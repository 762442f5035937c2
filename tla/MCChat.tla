------------------------------- MODULE MCChat -------------------------------
(* One chat, so that everything meets in its memory.                       *)
EXTENDS Chat

CONSTANTS c1, w1, w2
=============================================================================
