---------------------------- MODULE GroupedIndex ----------------------------
(***************************************************************************)
(* The grouped collections of mcp-write (obitanie, znak_zodiaka): one      *)
(* point per value, whose payload lists the angels of that value in three  *)
(* parallel arrays.  An ingestion reads the point, extends the arrays and  *)
(* writes the whole payload back; a deletion scrolls the collection and    *)
(* writes every point of the document back without it.  The handlers run   *)
(* in threads and nothing locks a point between the read and the write.    *)
(***************************************************************************)
EXTENDS Naturals, Sequences, SequencesExt

CONSTANTS
  Docs,     \* documents, and with them their main chunks
  Groups,   \* the values of the field: one point each
  Threads,  \* requests mcp-write handles at once
  Name,     \* per document, the angel's name, or ""
  Group     \* per document, its value of the field

ASSUME GroupedAssumption == Name \in [Docs -> STRING] /\ Group \in [Docs -> Groups]

VARIABLES
  point,    \* per group the payload, or None
  req,      \* per thread: what it does, and the payloads it read
  kept,     \* history: documents ingested and not removed since
  undone    \* history: those a write took out that had not read them

vars == <<point, req, kept, undone>>

Payload == [names : Seq(STRING), docs : Seq(Docs), chunks : Seq(Docs)]
None    == [names |-> <<>>, docs |-> <<>>, chunks |-> <<>>]   \* no point: a stored payload lists a document or a name
Idle    == [pc |-> "idle"]
Members(g) == {d \in Docs : Group[d] = g}

Init ==
  /\ point = [g \in Groups |-> None]
  /\ req = [t \in Threads |-> Idle]
  /\ kept = {} /\ undone = {}

-----------------------------------------------------------------------------
(* The payload of a group with one more document *)

New(d) == IF Name[d] = "" THEN [names |-> <<>>, docs |-> <<d>>, chunks |-> <<>>]
                          ELSE [names |-> <<Name[d]>>, docs |-> <<d>>, chunks |-> <<d>>]

\* faulty: a name that is there already is not looked for
ExtendedAnyway(p, d) ==
  [names |-> Append(p.names, Name[d]), docs |-> Append(p.docs, d), chunks |-> Append(p.chunks, d)]

\* faulty: the document replaces the payload
Afresh(p, d) == New(d)

Extended(p, d) ==
  IF Name[d] # "" /\ ~Contains(p.names, Name[d])
    THEN [names |-> Append(p.names, Name[d]), docs |-> Append(p.docs, d), chunks |-> Append(p.chunks, d)]
    ELSE p

(* ... and without it: the three arrays lose the position of its first     *)
(* occurrence in docs, where they have one                                 *)

Position(p, d) == CHOOSE i \in DOMAIN p.docs : p.docs[i] = d /\ \A j \in 1..(i - 1) : p.docs[j] # d

Dropped(s, i) == IF i \in 1..Len(s) THEN RemoveAt(s, i) ELSE s

\* faulty: the names stay
ReducedButNames(p, d) ==
  LET i == Position(p, d)
  IN  [names |-> p.names, docs |-> Dropped(p.docs, i), chunks |-> Dropped(p.chunks, i)]

\* faulty: the chunks are not written back
ReducedWithoutChunks(p, d) ==
  LET i == Position(p, d) IN [names |-> Dropped(p.names, i), docs |-> Dropped(p.docs, i)]

Reduced(p, d) ==
  LET i == Position(p, d)
  IN  [names |-> Dropped(p.names, i), docs |-> Dropped(p.docs, i), chunks |-> Dropped(p.chunks, i)]

-----------------------------------------------------------------------------
(* ingest_document_system_b, the part on a grouped collection *)

\* a read that fails is taken for a missing point
Retrieve(t, d) ==
  /\ req[t].pc = "idle"
  /\ \E p \in {point[Group[d]], None} :
       req' = [req EXCEPT ![t] = [pc |-> "extend", doc |-> d, read |-> p]]
  /\ UNCHANGED <<point, kept, undone>>

\* what a write of g takes out of the point without having read it: listed
\* since the read, or unseen because the read failed
Unread(g, read) == {e \in kept : Contains(point[g].docs, e) /\ ~Contains(read.docs, e)}

Upsert(t) ==
  LET d == req[t].doc  g == Group[d]  read == req[t].read IN
  /\ req[t].pc = "extend"
  /\ point' = [point EXCEPT ![g] = IF read = None THEN New(d) ELSE Extended(read, d)]
  /\ kept' = kept \union {d}
  /\ undone' = (undone \union Unread(g, read)) \ {d}
  /\ req' = [req EXCEPT ![t] = Idle]

-----------------------------------------------------------------------------
(* remove_doc_id_from_grouped_collection *)

Holding(d) == {g \in Groups : Contains(point[g].docs, d)}

Scroll(t, d) ==
  /\ req[t].pc = "idle"
  /\ req' = [req EXCEPT ![t] = [pc |-> "reduce", doc |-> d, read |-> point, todo |-> Holding(d)]]
  /\ kept' = kept \ {d} /\ undone' = undone \ {d}
  /\ UNCHANGED point

\* a group without names is deleted, any other is written back
WriteBack(t, g) ==
  LET d == req[t].doc  p == Reduced(req[t].read[g], d) IN
  /\ req[t].pc = "reduce" /\ g \in req[t].todo
  /\ point' = [point EXCEPT ![g] = IF p.names = <<>> THEN None ELSE p]
  /\ kept' = kept \ {d}
  /\ undone' = (undone \union Unread(g, req[t].read[g])) \ {d}
  /\ req' = [req EXCEPT ![t].todo = @ \ {g}]

\* the loop ends; or Qdrant refuses a write and the request ends
End(t) == req[t].pc # "idle" /\ req' = [req EXCEPT ![t] = Idle]
          /\ UNCHANGED <<point, kept, undone>>

Next == \E t \in Threads :
  \/ \E d \in Docs : Retrieve(t, d) \/ Scroll(t, d)
  \/ Upsert(t)
  \/ \E g \in Groups : WriteBack(t, g)
  \/ End(t)

Spec == Init /\ [][Next]_vars

-----------------------------------------------------------------------------
(* Properties *)

Read == [pc : {"extend"}, doc : Docs, read : Payload]
Scrolled == [pc : {"reduce"}, doc : Docs, read : [Groups -> Payload], todo : SUBSET Groups]

TypeOK ==
  /\ point \in [Groups -> Payload]
  /\ req \in [Threads -> {Idle} \union Read \union Scrolled]
  /\ kept \subseteq Docs /\ undone \subseteq Docs

(* The three arrays stay parallel: every position holds the name and the   *)
(* chunk of its document, whatever reads and writes of concurrent requests *)
(* interleave, as long as every document of the group has a name.          *)
Parallel(p) ==
  /\ Len(p.names) = Len(p.docs) /\ Len(p.chunks) = Len(p.docs)
  /\ \A i \in DOMAIN p.docs : p.names[i] = Name[p.docs[i]] /\ p.chunks[i] = p.docs[i]

AllNamed(g) == \A d \in Members(g) : Name[d] # ""

Aligned == \A g \in Groups : AllNamed(g) => Parallel(point[g])

(* An angel is listed once per group, with or without nameless documents.  *)
NoRepeats(s)  == \A i, j \in DOMAIN s : s[i] = s[j] => i = j
NamesUnique == \A g \in Groups : NoRepeats(point[g].names)

(* A document of such a group that was ingested and not deleted since is   *)
(* listed, however ingestions and deletions overlap: a write loses no      *)
(* document it has read.  Not listed is one that a write undid which had   *)
(* not read it, and one whose name another document of the group has.      *)
Namesake(d) == \E e \in Members(Group[d]) \ {d} : Name[e] = Name[d]
KeptIsListed ==
  \A d \in kept \ undone :
    AllNamed(Group[d]) => Namesake(d) \/ Contains(point[Group[d]].docs, d)
=============================================================================
