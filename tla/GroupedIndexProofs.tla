-------------------------- MODULE GroupedIndexProofs --------------------------
(***************************************************************************)
(* What holds of the grouped collections for every set of documents,       *)
(* groups and threads: the types, that an angel is listed once per group,  *)
(* and that a group's arrays stay parallel when its documents have names.  *)
(***************************************************************************)
EXTENDS GroupedIndex, SequenceTheorems, TLAPS

-----------------------------------------------------------------------------
(* The sequence operators *)

LEMMA RemoveAtEffect ==
  ASSUME NEW S, NEW s \in Seq(S), NEW i \in 1..Len(s)
  PROVE  /\ RemoveAt(s, i) \in Seq(S)
         /\ Len(RemoveAt(s, i)) = Len(s) - 1
         /\ \A j \in 1..(Len(s) - 1) :
              RemoveAt(s, i)[j] = IF j < i THEN s[j] ELSE s[j + 1]
<1> DEFINE before == SubSeq(s, 1, i - 1)
           behind == SubSeq(s, i + 1, Len(s))
<1>1. before \in Seq(S) /\ Len(before) = i - 1 /\ \A j \in 1..(i - 1) : before[j] = s[j]
  OBVIOUS
<1>2. behind \in Seq(S) /\ Len(behind) = Len(s) - i /\ \A j \in 1..(Len(s) - i) : behind[j] = s[i + j]
  OBVIOUS
<1>3. RemoveAt(s, i) = before \o behind
  BY DEF RemoveAt
<1>4. Len(s) \in Nat /\ i \in Nat /\ i >= 1 /\ i <= Len(s)
  OBVIOUS
<1> HIDE DEF before, behind
<1>5. before \o behind \in Seq(S) /\ Len(before \o behind) = Len(s) - 1
  <2>1. Len(before \o behind) = Len(before) + Len(behind)
    BY <1>1, <1>2, ConcatProperties
  <2>2. before \o behind \in Seq(S)
    BY <1>1, <1>2, ConcatProperties
  <2> QED BY <2>1, <2>2, <1>1, <1>2, <1>4
<1>6. ASSUME NEW j \in 1..(Len(s) - 1)
      PROVE  (before \o behind)[j] = IF j < i THEN s[j] ELSE s[j + 1]
  <2>1. (before \o behind)[j] = IF j <= i - 1 THEN before[j] ELSE behind[j - (i - 1)]
    <3>1. j \in 1 .. Len(before) + Len(behind)
      BY <1>1, <1>2, <1>4
    <3> QED BY <3>1, <1>1, <1>2, ConcatProperties
  <2>2. CASE j < i
    BY <2>1, <2>2, <1>1, <1>4
  <2>3. CASE ~(j < i)
    <3> DEFINE k == j - (i - 1)
    <3>1. k \in 1..(Len(s) - i) /\ i + k = j + 1
      BY <2>3, <1>4
    <3>2. behind[k] = s[i + k]
      BY <3>1, <1>2
    <3> QED BY <2>1, <2>3, <3>1, <3>2, <1>4
  <2> QED BY <2>2, <2>3
<1> QED BY <1>3, <1>5, <1>6

LEMMA DroppedType ==
  ASSUME NEW S, NEW s \in Seq(S), NEW i
  PROVE  Dropped(s, i) \in Seq(S)
BY RemoveAtEffect DEF Dropped

(* Dropping a position, or appending what is not there, repeats nothing. *)
LEMMA DroppedNoRepeats ==
  ASSUME NEW S, NEW s \in Seq(S), NoRepeats(s), NEW i
  PROVE  NoRepeats(Dropped(s, i))
<1>1. CASE i \in 1..Len(s)
  <2> DEFINE r == RemoveAt(s, i)
  <2>1. r \in Seq(S) /\ Len(r) = Len(s) - 1
        /\ \A j \in 1..(Len(s) - 1) : r[j] = IF j < i THEN s[j] ELSE s[j + 1]
    BY <1>1, RemoveAtEffect
  <2> HIDE DEF r
  <2>2. \A j, k \in 1..(Len(s) - 1) : r[j] = r[k] => j = k
    <3>1. TAKE j, k \in 1..(Len(s) - 1)
    <3>2. Len(s) \in Nat /\ i \in 1..Len(s)
      BY <1>1
    <3>3. \A m, n \in 1..Len(s) : s[m] = s[n] => m = n
      BY DEF NoRepeats
    <3> DEFINE at(m) == IF m < i THEN m ELSE m + 1
    <3>4. at(j) \in 1..Len(s) /\ at(k) \in 1..Len(s) /\ (at(j) = at(k) => j = k)
      BY <3>2
    <3>5. r[j] = s[at(j)] /\ r[k] = s[at(k)]
      BY <2>1
    <3> HIDE DEF at
    <3> QED BY <3>3, <3>4, <3>5
  <2>3. Dropped(s, i) = r
    BY <1>1 DEF Dropped, r
  <2> QED BY <2>1, <2>2, <2>3 DEF NoRepeats
<1>2. CASE i \notin 1..Len(s)
  BY <1>2 DEF Dropped
<1> QED BY <1>1, <1>2

LEMMA AppendNoRepeats ==
  ASSUME NEW S, NEW s \in Seq(S), NoRepeats(s), NEW e \in S, ~Contains(s, e)
  PROVE  NoRepeats(Append(s, e))
BY DEF NoRepeats, Contains

-----------------------------------------------------------------------------
(* The payloads *)

LEMMA Singletons == \A S : \A e \in S : <<e>> \in Seq(S) /\ NoRepeats(<<e>>)
BY DEF NoRepeats

LEMMA PayloadTypes ==
  ASSUME NEW p \in Payload, NEW d \in Docs
  PROVE  Extended(p, d) \in Payload /\ Reduced(p, d) \in Payload
         /\ New(d) \in Payload /\ None \in Payload
<1>1. Name[d] \in STRING
  BY GroupedAssumption
<1>2. Extended(p, d) \in Payload
  <2>1. Append(p.names, Name[d]) \in Seq(STRING) /\ Append(p.docs, d) \in Seq(Docs)
        /\ Append(p.chunks, d) \in Seq(Docs)
    BY <1>1 DEF Payload
  <2> QED BY <2>1 DEF Extended, Payload
<1>3. Reduced(p, d) \in Payload
  BY DroppedType DEF Reduced, Payload
<1>4. New(d) \in Payload
  <2>1. <<Name[d]>> \in Seq(STRING) /\ <<d>> \in Seq(Docs)
    BY <1>1, Singletons, Zenon
  <2>2. \A S : <<>> \in Seq(S)
    OBVIOUS
  <2> QED BY <2>1, <2>2 DEF New, Payload
<1>5. None \in Payload
  BY DEF None, Payload
<1> QED BY <1>2, <1>3, <1>4, <1>5

LEMMA PayloadNoRepeats ==
  ASSUME NEW p \in Payload, NEW d \in Docs, NoRepeats(p.names)
  PROVE  NoRepeats(Extended(p, d).names) /\ NoRepeats(Reduced(p, d).names)
         /\ NoRepeats(New(d).names) /\ NoRepeats(None.names)
<1>1. Name[d] \in STRING /\ p.names \in Seq(STRING)
  BY GroupedAssumption DEF Payload
<1>2. NoRepeats(Extended(p, d).names)
  BY <1>1, AppendNoRepeats DEF Extended
<1>3. NoRepeats(Reduced(p, d).names)
  BY <1>1, DroppedNoRepeats DEF Reduced
<1>4. NoRepeats(New(d).names) /\ NoRepeats(None.names)
  <2>1. NoRepeats(<<Name[d]>>)
    BY <1>1, Singletons, Zenon
  <2>2. NoRepeats(<<>>)
    BY DEF NoRepeats
  <2> QED BY <2>1, <2>2 DEF New, None
<1> QED BY <1>2, <1>3, <1>4

(* With names everywhere the arrays grow and shrink together. *)
LEMMA ExtendedParallel ==
  ASSUME NEW p \in Payload, NEW d \in Docs, Parallel(p)
  PROVE  Parallel(Extended(p, d))
<1>1. p.names \in Seq(STRING) /\ p.docs \in Seq(Docs) /\ p.chunks \in Seq(Docs) /\ Name[d] \in STRING
  BY GroupedAssumption DEF Payload
<1>2. CASE Extended(p, d) = p
  BY <1>2
<1>3. CASE Extended(p, d) = [names |-> Append(p.names, Name[d]), docs |-> Append(p.docs, d),
                             chunks |-> Append(p.chunks, d)]
  <2> DEFINE e == Extended(p, d)
  <2>1. Len(e.names) = Len(p.docs) + 1 /\ Len(e.docs) = Len(p.docs) + 1 /\ Len(e.chunks) = Len(p.docs) + 1
    BY <1>1, <1>3 DEF Parallel
  <2>2. ASSUME NEW i \in 1..(Len(p.docs) + 1)
        PROVE  e.names[i] = Name[e.docs[i]] /\ e.chunks[i] = e.docs[i]
    BY <1>1, <1>3, <2>2 DEF Parallel
  <2>3. DOMAIN e.docs = 1..(Len(p.docs) + 1)
    BY <1>1, <1>3
  <2> QED BY <2>1, <2>2, <2>3 DEF Parallel
<1> QED BY <1>2, <1>3 DEF Extended

LEMMA DroppedEffect ==
  ASSUME NEW S, NEW s \in Seq(S), NEW n \in Nat, Len(s) = n, NEW i \in 1..n
  PROVE  /\ Len(Dropped(s, i)) = n - 1 /\ DOMAIN Dropped(s, i) = 1..(n - 1)
         /\ \A j \in 1..(n - 1) : Dropped(s, i)[j] = IF j < i THEN s[j] ELSE s[j + 1]
<1> DEFINE r == RemoveAt(s, i)
<1>1. Dropped(s, i) = r
  BY DEF Dropped
<1>2. /\ r \in Seq(S) /\ Len(r) = n - 1
      /\ \A j \in 1..(n - 1) : r[j] = IF j < i THEN s[j] ELSE s[j + 1]
  BY RemoveAtEffect
<1> HIDE DEF r
<1>3. DOMAIN r = 1..(n - 1)
  BY <1>2
<1> QED BY <1>1, <1>2, <1>3

LEMMA ReducedParallel ==
  ASSUME NEW p \in Payload, NEW d \in Docs, Parallel(p)
  PROVE  Parallel(Reduced(p, d))
<1> DEFINE i == Position(p, d)
           n == Len(p.docs)
           names == Dropped(p.names, i)
           docs == Dropped(p.docs, i)
           chunks == Dropped(p.chunks, i)
<1>1. p.names \in Seq(STRING) /\ p.docs \in Seq(Docs) /\ p.chunks \in Seq(Docs) /\ n \in Nat
  BY DEF Payload
<1>2. Len(p.names) = n /\ Len(p.docs) = n /\ Len(p.chunks) = n
  BY DEF Parallel
<1>3. Reduced(p, d) = [names |-> names, docs |-> docs, chunks |-> chunks]
  BY DEF Reduced
<1>4. \A k \in 1..n : p.names[k] = Name[p.docs[k]] /\ p.chunks[k] = p.docs[k]
  BY <1>1 DEF Parallel
<1> HIDE DEF i, n
<1>5. CASE i \in 1..n
  <2>1. Len(names) = n - 1 /\ \A j \in 1..(n - 1) : names[j] = IF j < i THEN p.names[j] ELSE p.names[j + 1]
    <3>1. p.names \in Seq(STRING) /\ Len(p.names) = n /\ n \in Nat
      BY <1>1, <1>2
    <3> QED BY <3>1, <1>5, DroppedEffect, ZenonT(90)
  <2>2. /\ Len(docs) = n - 1 /\ DOMAIN docs = 1..(n - 1)
        /\ \A j \in 1..(n - 1) : docs[j] = IF j < i THEN p.docs[j] ELSE p.docs[j + 1]
    <3>1. p.docs \in Seq(Docs) /\ Len(p.docs) = n /\ n \in Nat
      BY <1>1, <1>2
    <3>2. Len(docs) = n - 1 /\ DOMAIN docs = 1..(n - 1)
      BY <3>1, <1>5, DroppedEffect, ZenonT(90)
    <3>3. \A j \in 1..(n - 1) : docs[j] = IF j < i THEN p.docs[j] ELSE p.docs[j + 1]
      BY <3>1, <1>5, DroppedEffect, ZenonT(90)
    <3> QED BY <3>2, <3>3
  <2>3. Len(chunks) = n - 1 /\ \A j \in 1..(n - 1) : chunks[j] = IF j < i THEN p.chunks[j] ELSE p.chunks[j + 1]
    <3>1. p.chunks \in Seq(Docs) /\ Len(p.chunks) = n /\ n \in Nat
      BY <1>1, <1>2
    <3> QED BY <3>1, <1>5, DroppedEffect, ZenonT(90)
  <2> HIDE DEF names, docs, chunks
  <2>4. ASSUME NEW j \in 1..(n - 1) PROVE names[j] = Name[docs[j]] /\ chunks[j] = docs[j]
    <3>1. j \in 1..n /\ j + 1 \in 1..n
      BY <1>1
    <3> QED BY <1>4, <2>1, <2>2, <2>3, <3>1
  <2> QED BY <1>3, <2>1, <2>2, <2>3, <2>4 DEF Parallel
<1>6. CASE i \notin 1..n
  <2>1. names = p.names /\ docs = p.docs /\ chunks = p.chunks
    BY <1>2, <1>6 DEF Dropped
  <2> QED BY <1>3, <2>1 DEF Parallel
<1> QED BY <1>5, <1>6

LEMMA OneElement ==
  ASSUME NEW e
  PROVE  Len(<<e>>) = 1 /\ DOMAIN <<e>> = {1} /\ <<e>>[1] = e
<1>1. Len(<<e>>) = 1
  OBVIOUS
<1>2. DOMAIN <<e>> = {1}
  OBVIOUS
<1>3. <<e>>[1] = e
  OBVIOUS
<1> QED BY <1>1, <1>2, <1>3

LEMMA EmptyArrays == Len(<<>>) = 0 /\ DOMAIN <<>> = {}
<1>1. <<>> \in Seq(Docs) /\ Len(<<>>) = 0
  BY EmptySeq
<1>2. \A s \in Seq(Docs) : DOMAIN s = 1..Len(s)
  BY LenProperties
<1>3. DOMAIN <<>> = 1..0
  BY <1>1, <1>2, Zenon
<1>4. 1..0 = {}
  OBVIOUS
<1> QED BY <1>1, <1>3, <1>4, Zenon

LEMMA FirstParallel ==
  ASSUME NEW d \in Docs, Name[d] # ""
  PROVE  Parallel(New(d)) /\ Parallel(None)
<1>1. Parallel(None)
  <2>1. None.names = <<>> /\ None.docs = <<>> /\ None.chunks = <<>>
    BY DEF None
  <2> QED BY <2>1, EmptyArrays DEF Parallel
<1>2. Parallel(New(d))
  <2> DEFINE m == Name[d]
  <2>1. New(d).names = <<m>> /\ New(d).docs = <<d>> /\ New(d).chunks = <<d>>
    BY DEF New
  <2>2. Len(<<m>>) = 1 /\ <<m>>[1] = m
    BY OneElement, Zenon
  <2>3. Len(<<d>>) = 1 /\ DOMAIN <<d>> = {1} /\ <<d>>[1] = d
    BY OneElement, Zenon
  <2> HIDE DEF m
  <2>4. /\ Len(New(d).names) = 1 /\ Len(New(d).docs) = 1 /\ Len(New(d).chunks) = 1
        /\ DOMAIN New(d).docs = {1} /\ New(d).names[1] = m
        /\ New(d).docs[1] = d /\ New(d).chunks[1] = d
    BY <2>1, <2>2, <2>3, Zenon
  <2> QED BY <2>4 DEF Parallel, m
<1> QED BY <1>1, <1>2

-----------------------------------------------------------------------------
(* A group's payload is sound: typed, no angel twice, and parallel when    *)
(* every document of the group has a name.  Every payload written comes from one that was     *)
(* read, possibly long ago, so the invariant has to speak of the payloads  *)
(* the requests hold as well: that is what makes it inductive.             *)

Sound(g, p) == p \in Payload /\ NoRepeats(p.names) /\ (AllNamed(g) => Parallel(p))

LEMMA SoundNone == \A g : Sound(g, None)
<1>1. None \in Payload
  <2>1. <<>> \in Seq(STRING) /\ <<>> \in Seq(Docs)
    BY EmptySeq
  <2> QED BY <2>1 DEF None, Payload
<1>2. NoRepeats(None.names) /\ Parallel(None)
  BY EmptyArrays DEF NoRepeats, Parallel, None
<1> QED BY <1>1, <1>2 DEF Sound

LEMMA SoundExtended ==
  ASSUME NEW d \in Docs, NEW p, Sound(Group[d], p)
  PROVE  Sound(Group[d], Extended(p, d)) /\ Sound(Group[d], New(d))
<1>1. p \in Payload /\ NoRepeats(p.names) /\ (AllNamed(Group[d]) => Parallel(p))
  BY DEF Sound
<1>2. AllNamed(Group[d]) => Name[d] # ""
  BY DEF AllNamed, Members
<1> QED
  BY <1>1, <1>2, PayloadTypes, PayloadNoRepeats, ExtendedParallel, FirstParallel DEF Sound

LEMMA SoundReduced ==
  ASSUME NEW g, NEW p, Sound(g, p), NEW d \in Docs
  PROVE  Sound(g, Reduced(p, d))
<1>1. p \in Payload /\ NoRepeats(p.names) /\ (AllNamed(g) => Parallel(p))
  BY DEF Sound
<1> QED BY <1>1, PayloadTypes, PayloadNoRepeats, ReducedParallel DEF Sound

SoundRead(r) ==
  /\ r.pc = "extend" => r.doc \in Docs /\ Sound(Group[r.doc], r.read)
  /\ r.pc = "reduce" => r.doc \in Docs /\ \A g \in Groups : Sound(g, r.read[g])

SoundInv ==
  /\ TypeOK
  /\ \A g \in Groups : Sound(g, point[g])
  /\ \A t \in Threads : SoundRead(req[t])

LEMMA SoundStep == SoundInv /\ [Next]_vars => SoundInv'
<1> SUFFICES ASSUME SoundInv, [Next]_vars PROVE SoundInv'
  OBVIOUS
<1> USE DEF SoundInv
<1>1. ASSUME NEW t \in Threads, NEW d \in Docs, Retrieve(t, d) PROVE SoundInv'
  <2>1. Group[d] \in Groups
    BY GroupedAssumption
  <2>2. PICK p : Sound(Group[d], p) /\ req' = [req EXCEPT ![t] = [pc |-> "extend", doc |-> d, read |-> p]]
    BY <1>1, <2>1, SoundNone DEF Retrieve
  <2>3. [pc |-> "extend", doc |-> d, read |-> p] \in Read
    BY <2>2 DEF Read, Sound
  <2>4. TypeOK'
    BY <1>1, <2>2, <2>3, GroupedAssumption DEF Retrieve, TypeOK
  <2>5. \A u \in Threads : SoundRead(req'[u])
    BY <2>2 DEF SoundRead, TypeOK
  <2> QED BY <1>1, <2>4, <2>5 DEF Retrieve, SoundRead
<1>2. ASSUME NEW t \in Threads, Upsert(t) PROVE SoundInv'
  <2> DEFINE d == req[t].doc
             p == IF req[t].read = None THEN New(d) ELSE Extended(req[t].read, d)
  <2>1. d \in Docs /\ Sound(Group[d], req[t].read)
    BY <1>2 DEF Upsert, SoundRead
  <2>2. Sound(Group[d], p)
    BY <2>1, SoundExtended
  <2>3. point' = [point EXCEPT ![Group[d]] = p] /\ req' = [req EXCEPT ![t] = Idle]
    BY <1>2 DEF Upsert
  <2> HIDE DEF p
  <2>4. TypeOK'
    BY <1>2, <2>1, <2>2, <2>3, GroupedAssumption DEF Upsert, Unread, TypeOK, Sound
  <2>5. \A g \in Groups : Sound(g, point'[g])
    BY <2>2, <2>3 DEF TypeOK
  <2>6. \A u \in Threads : SoundRead(req'[u])
    BY <2>3 DEF SoundRead, TypeOK, Idle
  <2> QED BY <2>4, <2>5, <2>6 DEF SoundRead
<1>3. ASSUME NEW t \in Threads, NEW d \in Docs, Scroll(t, d) PROVE SoundInv'
  <2> DEFINE r == [pc |-> "reduce", doc |-> d, read |-> point, todo |-> Holding(d)]
  <2>1. r \in Scrolled
    BY DEF Scrolled, TypeOK, Holding
  <2>2. SoundRead(r)
    BY DEF SoundRead
  <2>3. req' = [req EXCEPT ![t] = r]
    BY <1>3 DEF Scroll
  <2> HIDE DEF r
  <2>4. TypeOK'
    BY <1>3, <2>1, <2>3 DEF Scroll, TypeOK
  <2>5. \A u \in Threads : SoundRead(req'[u])
    BY <2>2, <2>3 DEF TypeOK
  <2> QED BY <1>3, <2>4, <2>5 DEF Scroll, SoundRead
<1>4. ASSUME NEW t \in Threads, NEW g \in Groups, WriteBack(t, g) PROVE SoundInv'
  <2> DEFINE d == req[t].doc
             reduced == Reduced(req[t].read[g], d)
             p == IF reduced.names = <<>> THEN None ELSE reduced
             r == [req[t] EXCEPT !.todo = @ \ {g}]
  <2>1. d \in Docs /\ \A h \in Groups : Sound(h, req[t].read[h])
    BY <1>4 DEF WriteBack, SoundRead
  <2>2. Sound(g, p)
    BY <2>1, SoundReduced, SoundNone
  <2>3. point' = [point EXCEPT ![g] = p]
    BY <1>4 DEF WriteBack
  <2>4. req' = [req EXCEPT ![t] = r]
    BY <1>4 DEF WriteBack
  <2>5. req[t] \in Scrolled
    BY <1>4 DEF WriteBack, TypeOK, Idle, Read, Scrolled
  <2>6. r \in Scrolled /\ r.doc = req[t].doc /\ r.read = req[t].read /\ r.pc = "reduce"
    BY <2>5 DEF Scrolled
  <2> HIDE DEF p, r
  <2>7. TypeOK'
    <3>1. point' \in [Groups -> Payload] /\ req' \in [Threads -> {Idle} \union Read \union Scrolled]
      BY <2>2, <2>3, <2>4, <2>6 DEF TypeOK, Sound
    <3>2. kept' \subseteq Docs
      BY <1>4 DEF WriteBack, TypeOK
    <3>3. undone' \subseteq Docs
      BY <1>4 DEF WriteBack, Unread, TypeOK
    <3> QED BY <3>1, <3>2, <3>3 DEF TypeOK
  <2>8. \A h \in Groups : Sound(h, point'[h])
    BY <2>2, <2>3 DEF TypeOK
  <2>9. \A u \in Threads : SoundRead(req'[u])
    BY <2>1, <2>4, <2>6 DEF SoundRead, TypeOK
  <2> QED BY <2>7, <2>8, <2>9 DEF SoundRead
<1>5. ASSUME NEW t \in Threads, End(t) PROVE SoundInv'
  BY <1>5 DEF End, TypeOK, SoundRead, Idle
<1>6. CASE UNCHANGED vars
  BY <1>6 DEF vars, TypeOK, SoundRead
<1> QED BY <1>1, <1>2, <1>3, <1>4, <1>5, <1>6 DEF Next

LEMMA SoundInvariant == Spec => []SoundInv
<1>1. Init => SoundInv
  <2> SUFFICES ASSUME Init PROVE SoundInv
    OBVIOUS
  <2>1. TypeOK
    BY SoundNone DEF Init, TypeOK, Sound
  <2> QED BY <2>1, SoundNone DEF SoundInv, SoundRead, Init, Idle
<1> QED BY <1>1, SoundStep, PTL DEF Spec

(* The payloads and the requests have their types.                         *)
THEOREM TypeCorrect == Spec => []TypeOK
<1>1. SoundInv => TypeOK
  BY DEF SoundInv
<1> QED BY <1>1, SoundInvariant, PTL

(* However the reads and writes of any number of concurrent ingestions and *)
(* deletions interleave, a group lists no angel twice.                     *)
THEOREM NamesOnce == Spec => []NamesUnique
<1>1. SoundInv => NamesUnique
  BY DEF SoundInv, Sound, NamesUnique
<1> QED BY <1>1, SoundInvariant, PTL

(* When a group's documents all have names, position i of its arrays is    *)
(* the name, the document and the chunk of one document, after every       *)
(* interleaving and stale write: a lost update loses whole positions.      *)
THEOREM StaysParallel == Spec => []Aligned
<1>1. SoundInv => Aligned
  BY DEF SoundInv, Sound, Aligned
<1> QED BY <1>1, SoundInvariant, PTL

-----------------------------------------------------------------------------
(* What a payload lists.  A write puts back what it read, plus or minus    *)
(* its own document.  That nothing else is lost needs two more facts of    *)
(* the payloads held: they list members of their group only, and a         *)
(* deletion only visits groups that listed its document when it scrolled.  *)

Within(g, p) == \A i \in 1..Len(p.docs) : p.docs[i] \in Members(g)

LEMMA ExtendedLists ==
  ASSUME NEW d \in Docs, NEW p, Sound(Group[d], p), AllNamed(Group[d]), Within(Group[d], p)
  PROVE  /\ Within(Group[d], Extended(p, d))
         /\ \A e : Contains(p.docs, e) => Contains(Extended(p, d).docs, e)
         /\ Namesake(d) \/ Contains(Extended(p, d).docs, d)
<1>1. /\ p.names \in Seq(STRING) /\ p.docs \in Seq(Docs) /\ Parallel(p)
      /\ d \in Members(Group[d]) /\ Name[d] # ""
  BY GroupedAssumption DEF Sound, Payload, AllNamed, Members
<1>2. CASE Contains(p.names, Name[d])
  <2>1. PICK i \in 1..Len(p.docs) : Name[p.docs[i]] = Name[d]
    <3>1. PICK i \in 1..Len(p.names) : p.names[i] = Name[d]
      BY <1>2 DEF Contains
    <3>2. Len(p.names) = Len(p.docs) /\ DOMAIN p.docs = 1..Len(p.docs)
      <4>1. Len(p.names) = Len(p.docs)
        BY <1>1 DEF Parallel
      <4>2. p.docs \in Seq(Docs)
        BY <1>1
      <4> QED BY <4>1, <4>2
    <3>3. p.names[i] = Name[p.docs[i]]
      BY <1>1, <3>2 DEF Parallel
    <3> QED BY <3>1, <3>2, <3>3
  <2>2. p.docs[i] \in Members(Group[d])
    BY DEF Within
  <2>3. p.docs[i] # d => Namesake(d)
    BY <2>1, <2>2 DEF Namesake
  <2>4. Extended(p, d) = p
    BY <1>2 DEF Extended
  <2> QED BY <2>3, <2>4 DEF Contains
<1>3. CASE ~Contains(p.names, Name[d])
  <2> DEFINE n == Len(p.docs)  s == Append(p.docs, d)
  <2>1. Extended(p, d).docs = s
    BY <1>1, <1>3 DEF Extended
  <2>2. n \in Nat /\ Len(s) = n + 1 /\ s[n + 1] = d /\ \A i \in 1..n : s[i] = p.docs[i]
    <3>1. p.docs \in Seq(Docs)
      BY <1>1
    <3> QED BY <3>1
  <2> HIDE DEF s, n
  <2>3. \A i \in 1..(n + 1) : i \in 1..n \/ i = n + 1
    BY <2>2
  <2>4. Within(Group[d], Extended(p, d))
    <3>1. \A i \in 1..n : p.docs[i] \in Members(Group[d])
      BY DEF Within, n
    <3> QED BY <1>1, <2>1, <2>2, <2>3, <3>1 DEF Within
  <2>5. \A e : Contains(p.docs, e) => Contains(s, e)
    BY <2>2 DEF Contains, n
  <2>6. Contains(s, d)
    BY <2>2 DEF Contains
  <2> QED BY <2>1, <2>4, <2>5, <2>6
<1> QED BY <1>2, <1>3

LEMMA NewLists ==
  ASSUME NEW d \in Docs
  PROVE  Within(Group[d], New(d)) /\ Contains(New(d).docs, d)
<1>1. New(d).docs = <<d>>
  BY DEF New
<1>2. Len(<<d>>) = 1 /\ <<d>>[1] = d
  BY OneElement, Zenon
<1>3. d \in Members(Group[d])
  BY DEF Members
<1> QED BY <1>1, <1>2, <1>3 DEF Within, Contains

LEMMA NoneLists == \A g : Within(g, None)
BY EmptyArrays DEF Within, None

(* Only the document's own position goes: the others stay listed. *)
LEMMA ReducedLists ==
  ASSUME NEW g, NEW p, Sound(g, p), AllNamed(g), Within(g, p),
         NEW d \in Docs, Contains(p.docs, d)
  PROVE  /\ Within(g, Reduced(p, d))
         /\ \A e : e # d /\ Contains(p.docs, e) => Contains(Reduced(p, d).docs, e)
<1> DEFINE n == Len(p.docs)
           first(k) == p.docs[k] = d /\ \A j \in 1..(k - 1) : p.docs[j] # d
           i == Position(p, d)
           s == Dropped(p.docs, i)
<1>1. /\ p.names \in Seq(STRING) /\ p.docs \in Seq(Docs) /\ n \in Nat /\ DOMAIN p.docs = 1..n
      /\ Parallel(p) /\ NoRepeats(p.names)
  BY DEF Sound, Payload
<1>2. \A j, k \in 1..n : p.docs[j] = p.docs[k] => j = k
  <2>1. Len(p.names) = n /\ \A j \in 1..n : p.names[j] = Name[p.docs[j]]
    BY <1>1 DEF Parallel
  <2>2. DOMAIN p.names = 1..n
    BY <1>1, <2>1
  <2> QED BY <1>1, <2>1, <2>2 DEF NoRepeats
<1>3. \E k \in 1..n : first(k)
  <2>1. PICK k \in 1..n : p.docs[k] = d
    BY DEF Contains
  <2>2. \A j \in 1..(k - 1) : j \in 1..n /\ j # k
    BY <1>1
  <2>3. first(k)
    BY <1>2, <2>1, <2>2
  <2> QED BY <2>3
<1>4. i \in 1..n /\ p.docs[i] = d
  <2>1. i = CHOOSE k \in 1..n : first(k)
    BY <1>1 DEF Position
  <2> HIDE DEF i
  <2> QED BY <1>3, <2>1
<1>5. Reduced(p, d).docs = s
  BY DEF Reduced
<1> HIDE DEF i, n
<1>6. /\ Len(s) = n - 1
      /\ \A j \in 1..(n - 1) : s[j] = IF j < i THEN p.docs[j] ELSE p.docs[j + 1]
  <2>1. Len(p.docs) = n
    BY DEF n
  <2> QED BY <1>1, <1>4, <2>1, DroppedEffect, ZenonT(90)
<1> HIDE DEF s
<1>7. Within(g, Reduced(p, d))
  <2>1. \A j \in 1..(n - 1) : j \in 1..n /\ j + 1 \in 1..n
    BY <1>1
  <2>2. \A j \in 1..n : p.docs[j] \in Members(g)
    BY DEF Within, n
  <2> QED BY <1>5, <1>6, <2>1, <2>2 DEF Within
<1>8. ASSUME NEW e, e # d, Contains(p.docs, e) PROVE Contains(s, e)
  <2>1. PICK k \in 1..n : p.docs[k] = e
    BY <1>8 DEF Contains, n
  <2>2. k # i
    BY <1>4, <1>8, <2>1
  <2>3. CASE k < i
    <3>1. k \in 1..(n - 1)
      BY <1>1, <1>4, <2>3
    <3> QED BY <1>6, <2>1, <2>3, <3>1 DEF Contains
  <2>4. CASE ~(k < i)
    <3>1. k - 1 \in 1..(n - 1) /\ ~(k - 1 < i) /\ (k - 1) + 1 = k
      BY <1>1, <1>4, <2>2, <2>4
    <3>2. s[k - 1] = p.docs[k]
      BY <1>6, <3>1
    <3> QED BY <1>6, <2>1, <3>1, <3>2 DEF Contains
  <2> QED BY <2>3, <2>4
<1> QED BY <1>5, <1>7, <1>8

HeldLists(r) ==
  /\ r.pc = "extend" => (AllNamed(Group[r.doc]) => Within(Group[r.doc], r.read))
  /\ r.pc = "reduce" => /\ \A g \in Groups : AllNamed(g) => Within(g, r.read[g])
                        /\ \A g \in r.todo : Contains(r.read[g].docs, r.doc)

ListedInv ==
  /\ SoundInv /\ KeptIsListed
  /\ \A g \in Groups : AllNamed(g) => Within(g, point[g])
  /\ \A t \in Threads : HeldLists(req[t])

LEMMA ListedStep == ListedInv /\ SoundInv' /\ [Next]_vars => ListedInv'
<1> SUFFICES ASSUME ListedInv, SoundInv', [Next]_vars PROVE ListedInv'
  OBVIOUS
<1> DEFINE WithinInv == \A g \in Groups : AllNamed(g) => Within(g, point[g])
           HeldInv == \A t \in Threads : HeldLists(req[t])
<1>0. /\ SoundInv /\ KeptIsListed /\ WithinInv /\ HeldInv /\ TypeOK
      /\ \A g \in Groups : Sound(g, point[g])
      /\ \A t \in Threads : SoundRead(req[t])
      /\ Group \in [Docs -> Groups]
  BY GroupedAssumption DEF ListedInv, SoundInv
<1>1. ASSUME NEW t \in Threads, NEW d \in Docs, Retrieve(t, d) PROVE ListedInv'
  <2>1. PICK p : /\ p = point[Group[d]] \/ p = None
                 /\ req' = [req EXCEPT ![t] = [pc |-> "extend", doc |-> d, read |-> p]]
    BY <1>1 DEF Retrieve
  <2>2. AllNamed(Group[d]) => Within(Group[d], p)
    BY <1>0, <2>1, NoneLists
  <2>3. HeldInv'
    BY <1>0, <2>1, <2>2 DEF HeldLists, TypeOK
  <2>4. UNCHANGED <<point, kept, undone>>
    BY <1>1 DEF Retrieve
  <2>5. WithinInv' /\ KeptIsListed'
    BY <1>0, <2>4 DEF KeptIsListed
  <2> QED BY <2>3, <2>5 DEF ListedInv
<1>2. ASSUME NEW t \in Threads, Upsert(t) PROVE ListedInv'
  <2> DEFINE d == req[t].doc
             g == Group[d]
             read == req[t].read
             p == IF read = None THEN New(d) ELSE Extended(read, d)
  <2>1. d \in Docs /\ g \in Groups /\ Sound(g, read) /\ (AllNamed(g) => Within(g, read))
    BY <1>0, <1>2 DEF Upsert, SoundRead, HeldLists
  <2>2. /\ point' = [point EXCEPT ![g] = p] /\ req' = [req EXCEPT ![t] = Idle]
        /\ kept' = kept \union {d} /\ undone' = (undone \union Unread(g, read)) \ {d}
    BY <1>2 DEF Upsert
  <2>3. AllNamed(g) => /\ Within(g, p)
                       /\ \A e : Contains(read.docs, e) => Contains(p.docs, e)
                       /\ Namesake(d) \/ Contains(p.docs, d)
    <3>1. CASE read = None
      <4>1. \A e : ~Contains(read.docs, e)
        BY <3>1, EmptyArrays DEF Contains, None
      <4> QED BY <2>1, <3>1, <4>1, NewLists
    <3>2. CASE read # None
      BY <2>1, <3>2, ExtendedLists
    <3> QED BY <3>1, <3>2
  <2> HIDE DEF p, d, g, read
  <2>4. point'[g] = p /\ \A h \in Groups : h # g => point'[h] = point[h]
    BY <1>0, <2>1, <2>2 DEF TypeOK
  <2>5. WithinInv'
    BY <1>0, <2>3, <2>4
  <2>6. HeldInv'
    BY <1>0, <2>2 DEF HeldLists, TypeOK, Idle
  <2>7. KeptIsListed'
    <3> SUFFICES ASSUME NEW e \in kept' \ undone', AllNamed(Group[e]), ~Namesake(e)
                 PROVE  Contains(point'[Group[e]].docs, e)
      BY DEF KeptIsListed
    <3>1. e \in Docs /\ Group[e] \in Groups
      BY <1>0, <2>1, <2>2 DEF TypeOK
    <3>2. e # d => Contains(point[Group[e]].docs, e)
      BY <1>0, <2>2 DEF KeptIsListed
    <3>3. CASE Group[e] # g
      BY <2>1, <2>4, <3>1, <3>2, <3>3 DEF g
    <3>4. CASE Group[e] = g
      <4>1. e # d => Contains(read.docs, e)
        BY <2>2, <3>1, <3>2, <3>4 DEF Unread
      <4> QED BY <2>3, <2>4, <3>4, <4>1
    <3> QED BY <3>3, <3>4
  <2> QED BY <2>5, <2>6, <2>7 DEF ListedInv
<1>3. ASSUME NEW t \in Threads, NEW d \in Docs, Scroll(t, d) PROVE ListedInv'
  <2> DEFINE r == [pc |-> "reduce", doc |-> d, read |-> point, todo |-> Holding(d)]
  <2>1. HeldLists(r)
    BY <1>0 DEF HeldLists, Holding
  <2>2. req' = [req EXCEPT ![t] = r] /\ point' = point /\ kept' = kept \ {d} /\ undone' = undone \ {d}
    BY <1>3 DEF Scroll
  <2> HIDE DEF r
  <2>3. HeldInv'
    BY <1>0, <2>1, <2>2 DEF TypeOK
  <2>4. WithinInv' /\ KeptIsListed'
    BY <1>0, <2>2 DEF KeptIsListed
  <2> QED BY <2>3, <2>4 DEF ListedInv
<1>4. ASSUME NEW t \in Threads, NEW g \in Groups, WriteBack(t, g) PROVE ListedInv'
  <2> DEFINE d == req[t].doc
             read == req[t].read[g]
             reduced == Reduced(read, d)
             p == IF reduced.names = <<>> THEN None ELSE reduced
             r == [req[t] EXCEPT !.todo = @ \ {g}]
  <2>1. /\ d \in Docs /\ Sound(g, read) /\ (AllNamed(g) => Within(g, read))
        /\ Contains(read.docs, d)
    BY <1>0, <1>4 DEF WriteBack, SoundRead, HeldLists
  <2>2. /\ point' = [point EXCEPT ![g] = p] /\ req' = [req EXCEPT ![t] = r]
        /\ kept' = kept \ {d} /\ undone' = (undone \union Unread(g, read)) \ {d}
    BY <1>4 DEF WriteBack
  <2>3. AllNamed(g) => Within(g, p) /\ \A e : e # d /\ Contains(read.docs, e) => Contains(p.docs, e)
    <3> SUFFICES ASSUME AllNamed(g)
                 PROVE  Within(g, p) /\ \A e : e # d /\ Contains(read.docs, e) => Contains(p.docs, e)
      OBVIOUS
    <3>1. Within(g, reduced) /\ \A e : e # d /\ Contains(read.docs, e) => Contains(reduced.docs, e)
      BY <2>1, ReducedLists
    <3>2. reduced.names = <<>> => \A e : ~Contains(reduced.docs, e)
      <4>1. Parallel(reduced) /\ reduced.docs \in Seq(Docs)
        BY <2>1, SoundReduced DEF Sound, Payload
      <4> HIDE DEF reduced
      <4>2. reduced.names = <<>> => Len(reduced.docs) = 0
        BY <4>1, EmptyArrays DEF Parallel
      <4> QED BY <4>2 DEF Contains
    <3> HIDE DEF reduced
    <3> QED BY <3>1, <3>2, NoneLists
  <2>4. r.pc = "reduce" /\ r.doc = d /\ r.read = req[t].read /\ r.todo \subseteq req[t].todo
    <3>1. req[t] \in Scrolled
      BY <1>0, <1>4 DEF WriteBack, TypeOK, Idle, Read, Scrolled
    <3> QED BY <3>1 DEF Scrolled
  <2> HIDE DEF p, r, d
  <2>5. point'[g] = p /\ \A h \in Groups : h # g => point'[h] = point[h]
    BY <1>0, <2>2 DEF TypeOK
  <2>6. WithinInv'
    BY <1>0, <2>3, <2>5
  <2>7. HeldLists(r)
    BY <1>0, <1>4, <2>4 DEF HeldLists, WriteBack, d
  <2>8. HeldInv'
    BY <1>0, <2>2, <2>7 DEF TypeOK
  <2>9. KeptIsListed'
    <3> SUFFICES ASSUME NEW e \in kept' \ undone', AllNamed(Group[e]), ~Namesake(e)
                 PROVE  Contains(point'[Group[e]].docs, e)
      BY DEF KeptIsListed
    <3>1. e \in Docs /\ Group[e] \in Groups /\ e # d
      BY <1>0, <2>2 DEF TypeOK
    <3>2. Contains(point[Group[e]].docs, e)
      BY <1>0, <2>2 DEF KeptIsListed
    <3>3. CASE Group[e] # g
      BY <2>5, <3>1, <3>2, <3>3
    <3>4. CASE Group[e] = g
      <4>1. Contains(read.docs, e)
        BY <2>2, <3>1, <3>2, <3>4 DEF Unread
      <4> QED BY <2>3, <2>5, <3>1, <3>4, <4>1
    <3> QED BY <3>3, <3>4
  <2> QED BY <2>6, <2>8, <2>9 DEF ListedInv
<1>5. ASSUME NEW t \in Threads, End(t) PROVE ListedInv'
  <2>1. HeldInv'
    BY <1>0, <1>5 DEF End, TypeOK, HeldLists, Idle
  <2> QED BY <1>0, <1>5, <2>1 DEF End, KeptIsListed, ListedInv
<1>6. CASE UNCHANGED vars
  BY <1>0, <1>6 DEF vars, KeptIsListed, ListedInv, HeldLists
<1> QED BY <1>1, <1>2, <1>3, <1>4, <1>5, <1>6 DEF Next

(* A document of a group whose documents all have names, ingested and not  *)
(* deleted since, is listed by the group's point, unless a write undid it  *)
(* that had not read it, or another document of the group has its name.    *)
THEOREM KeptStaysListed == Spec => []KeptIsListed
<1>1. Init => ListedInv
  <2> SUFFICES ASSUME Init PROVE ListedInv
    OBVIOUS
  <2>1. TypeOK
    BY SoundNone DEF Init, TypeOK, Sound
  <2>2. SoundInv
    BY <2>1, SoundNone DEF SoundInv, SoundRead, Init, Idle
  <2> QED BY <2>2, NoneLists DEF ListedInv, KeptIsListed, HeldLists, Init, Idle
<1>2. ListedInv => KeptIsListed
  BY DEF ListedInv
<1> QED BY <1>1, <1>2, ListedStep, SoundInvariant, PTL DEF Spec
-----------------------------------------------------------------------------
(* Ingesting and deleting *)

LEMMA DroppedLast ==
  ASSUME NEW S, NEW s \in Seq(S), NEW e \in S, NEW n \in Nat, n = Len(s) + 1
  PROVE  Dropped(Append(s, e), n) = s
<1>1. PICK a : a = Append(s, e)
  OBVIOUS
<1>2. /\ a \in Seq(S) /\ Len(a) = n /\ n \in 1..n /\ Len(s) = n - 1
      /\ \A j \in 1..(n - 1) : a[j] = s[j]
  BY <1>1
<1>3. PICK r : r = Dropped(a, n)
  OBVIOUS
<1>0. r \in Seq(S)
  BY <1>2, <1>3, DroppedType
<1>4. Len(r) = n - 1 /\ \A j \in 1..(n - 1) : r[j] = IF j < n THEN a[j] ELSE a[j + 1]
  <2>1. Len(r) = n - 1
    BY <1>2, <1>3, DroppedEffect, ZenonT(60)
  <2>2. \A j \in 1..(n - 1) : r[j] = IF j < n THEN a[j] ELSE a[j + 1]
    BY <1>2, <1>3, DroppedEffect, ZenonT(60)
  <2> QED BY <2>1, <2>2
<1>5. \A j \in 1..(n - 1) : r[j] = s[j]
  BY <1>2, <1>4
<1>6. r = s
  BY <1>0, <1>2, <1>4, <1>5
<1> QED BY <1>1, <1>3, <1>6

LEMMA LastPosition ==
  ASSUME NEW S, NEW docs \in Seq(S), NEW d \in S, \A j \in 1..Len(docs) : docs[j] # d,
         NEW n \in Nat, n = Len(docs) + 1, NEW e, e.docs = Append(docs, d)
  PROVE  Position(e, d) = n
<1>1. PICK more : more = e.docs /\ more = Append(docs, d)
  OBVIOUS
<1>2. /\ DOMAIN more = 1..n /\ more[n] = d /\ n - 1 = Len(docs)
      /\ \A j \in 1..(n - 1) : more[j] = docs[j]
  BY <1>1
<1>3. \A j \in 1..(n - 1) : more[j] # d
  BY <1>2
<1>4. ASSUME NEW i \in 1..n PROVE (more[i] = d /\ \A j \in 1..(i - 1) : more[j] # d) <=> i = n
  <2>1. CASE i = n
    BY <1>2, <1>3, <2>1
  <2>2. CASE i # n
    <3>1. i \in 1..(n - 1)
      BY <2>2
    <3> QED BY <1>3, <2>2, <3>1
  <2> QED BY <2>1, <2>2
<1>5. n \in 1..n
  BY <1>2
<1> QED BY <1>1, <1>2, <1>4, <1>5 DEF Position

\* an ingestion of d extends p
Fresh(p, d) == Name[d] # "" /\ ~Contains(p.names, Name[d])

(* A deletion takes out of a payload exactly what the ingestion of the     *)
(* document put in: the arrays are the ones of before.                     *)
THEOREM DeletionUndoesIngestion ==
  ASSUME NEW p \in Payload, Parallel(p), NEW d \in Docs, Fresh(p, d)
  PROVE  Reduced(Extended(p, d), d) = p
<1>1. PICK names, docs, chunks : names = p.names /\ docs = p.docs /\ chunks = p.chunks
  OBVIOUS
<1>2. /\ names \in Seq(STRING) /\ docs \in Seq(Docs) /\ chunks \in Seq(Docs)
      /\ p = [names |-> names, docs |-> docs, chunks |-> chunks]
  BY <1>1 DEF Payload
<1>3. PICK n : n = Len(docs) + 1
  OBVIOUS
<1>4. /\ Len(docs) \in Nat /\ Len(names) = Len(docs) /\ Len(chunks) = Len(docs) /\ DOMAIN docs = 1..Len(docs)
      /\ \A i \in DOMAIN docs : names[i] = Name[docs[i]]
  <2>1. Len(docs) \in Nat /\ DOMAIN docs = 1..Len(docs)
    BY <1>2, LenProperties
  <2> QED BY <1>1, <2>1 DEF Parallel
<1>5. n \in Nat /\ Name[d] \in STRING
  <2>1. n \in Nat
    <3>1. Len(docs) \in Nat
      BY <1>4, Zenon
    <3> QED BY <1>3, <3>1
  <2>2. Name[d] \in STRING
    BY GroupedAssumption, Zenon
  <2> QED BY <2>1, <2>2
<1>6. \A j \in 1..Len(docs) : docs[j] # d
  <2> SUFFICES ASSUME NEW j \in 1..Len(docs), docs[j] = d PROVE FALSE
    OBVIOUS
  <2>1. j \in DOMAIN docs /\ j \in 1..Len(names)
    BY <1>4
  <2>2. names[j] = Name[d]
    BY <1>4, <2>1
  <2> QED BY <1>1, <2>1, <2>2 DEF Contains, Fresh
<1>7. PICK e : e = [names |-> Append(names, Name[d]), docs |-> Append(docs, d), chunks |-> Append(chunks, d)]
  OBVIOUS
<1>8. Extended(p, d) = e
  BY <1>1, <1>7 DEF Extended, Fresh
<1>9. Position(e, d) = n
  <2>1. e.docs = Append(docs, d)
    BY <1>7
  <2>2. docs \in Seq(Docs) /\ n \in Nat
    BY <1>2, <1>5, Zenon
  <2> QED BY <1>3, <1>6, <2>1, <2>2, LastPosition, ZenonT(60)
<1>10. Dropped(Append(names, Name[d]), n) = names
  BY <1>2, <1>3, <1>4, <1>5, DroppedLast, ZenonT(60)
<1>11. Dropped(Append(docs, d), n) = docs
  BY <1>2, <1>3, <1>5, DroppedLast, ZenonT(60)
<1>12. Dropped(Append(chunks, d), n) = chunks
  BY <1>2, <1>3, <1>4, <1>5, DroppedLast, ZenonT(60)
<1>13. Reduced(e, d) = [names |-> Dropped(Append(names, Name[d]), n), docs |-> Dropped(Append(docs, d), n),
                        chunks |-> Dropped(Append(chunks, d), n)]
  BY <1>7, <1>9 DEF Reduced
<1> QED BY <1>2, <1>8, <1>10, <1>11, <1>12, <1>13
=============================================================================
