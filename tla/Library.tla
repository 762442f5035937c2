------------------------------- MODULE Library -------------------------------
(***************************************************************************)
(* What the document services promise of a document, whatever requests,    *)
(* workers and messages carry it: it is added once, with its content; it   *)
(* gets one job; what the index holds of it comes from a job that was run, *)
(* collection after collection; the job is done only when the document can *)
(* be found; and nothing of it is taken away unless somebody asked.  After *)
(* that its parts go one by one, in any order, and a request that was late *)
(* may still write.                                                        *)
(***************************************************************************)
CONSTANTS Docs, Contents, Readable

VARIABLES
  text,    \* the content of a document, "none" before it is added
  shelf,   \* the documents the library has
  status,  \* of a document's job, or "none"
  found,   \* what can be searched: <<collection, document>>
  asked    \* the documents somebody asked to delete

vars == <<text, shelf, status, found, asked>>

Collections == {"chunks", "other", "context"}
Earlier(c) == CASE c = "chunks" -> {} [] c = "other" -> {"chunks"} [] c = "context" -> {"chunks", "other"}
Has(d, cs) == cs \X {d} \subseteq found
Searchable(d) == text[d] \in Readable => Has(d, {"chunks", "other"})

Init ==
  /\ text = [d \in Docs |-> "none"] /\ status = [d \in Docs |-> "none"]
  /\ shelf = {} /\ found = {} /\ asked = {}

Add(d) ==
  /\ text[d] = "none"
  /\ \E c \in Contents : text' = [text EXCEPT ![d] = c]
  /\ shelf' = shelf \union {d}
  /\ UNCHANGED <<status, found, asked>>

Becomes(d, s) == status' = [status EXCEPT ![d] = s] /\ UNCHANGED <<text, shelf, found, asked>>

Submit(d) == d \in shelf /\ status[d] = "none" /\ Becomes(d, "pending")

Run(d) == status[d] # "none" /\ Becomes(d, "running")

Done(d) ==
  /\ status[d] \in {"running", "done", "failed"}
  /\ d \in asked \/ Searchable(d)
  /\ Becomes(d, "done")

Fail(d) == status[d] # "none" /\ Becomes(d, "failed")

Index(d, c) ==
  /\ text[d] \in Readable
  /\ d \in asked \/ (status[d] \in {"running", "done", "failed"} /\ Has(d, Earlier(c)))
  /\ found' = found \union {<<c, d>>}
  /\ UNCHANGED <<text, shelf, status, asked>>

Ask(d) ==
  /\ d \in shelf /\ asked' = asked \union {d}
  /\ UNCHANGED <<text, shelf, status, found>>

Forget(d, c) ==
  /\ d \in asked /\ found' = found \ {<<c, d>>}
  /\ UNCHANGED <<text, shelf, status, asked>>

DropJob(d) == d \in asked /\ Becomes(d, "none")

Remove(d) ==
  /\ d \in asked /\ status[d] = "none"
  /\ shelf' = shelf \ {d}
  /\ UNCHANGED <<text, status, found, asked>>

Next ==
  \E d \in Docs :
    \/ Add(d) \/ Submit(d) \/ Run(d) \/ Done(d) \/ Fail(d) \/ Ask(d) \/ DropJob(d) \/ Remove(d)
    \/ \E c \in Collections : Index(d, c) \/ Forget(d, c)

Spec == Init /\ [][Next]_vars
=============================================================================
