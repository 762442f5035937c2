----------------------------- MODULE NotesProofs ----------------------------
(***************************************************************************)
(* What holds of the browser and the scheduler for every set of notes,     *)
(* times, users and requests: the types, that the form comes back, and     *)
(* that a sync which ran alone brings both sides together.                 *)
(***************************************************************************)
EXTENDS Notes, TLAPS

ReqRec == [pc : {"free", "sent", "saved", "answered"}, kind : {"sync", "submit", "list"},
           user : Typed \union {None}, view : Times, daily : BOOLEAN, mine : BOOLEAN,
           ids : SUBSET Notes, full : BOOLEAN, accepted : BOOLEAN, alone : BOOLEAN]
PageRec == [open : BOOLEAN, shown : Times, typed : Typed \union {None}, daily : BOOLEAN,
            modal : BOOLEAN, busy : BOOLEAN]
Rows == [Notes -> Row \union {None}]

(* A request under way names a user, and a list of notes a normalised one. *)
Proper(q) == /\ q \in ReqRec
             /\ q.pc # "free" => q.user \in Typed /\ (q.kind # "list" => q.user \in Users)

BrowserOK == /\ store \in Rows /\ backup \in Rows
             /\ name \in Users \union {None} /\ daily \in BOOLEAN
PageOK == page \in PageRec
ReqsOK == req \in [Requests -> ReqRec] /\ \A r \in Requests : Proper(req[r])
SchedOK == sched \in [Users -> [Notes -> Entry \union {None}]]
CountOK == acts \in 0..MaxActs /\ faults \in 0..MaxFaults
HistOK == clean \in BOOLEAN /\ ended \subseteq Users \X Notes
Types == BrowserOK /\ PageOK /\ ReqsOK /\ SchedOK /\ CountOK /\ HistOK
-----------------------------------------------------------------------------
LEMMA TypesAreTypeOK == Types => TypeOK
BY DEF Types, BrowserOK, PageOK, ReqsOK, SchedOK, CountOK, HistOK, ReqRec, PageRec, Rows, TypeOK

(* The pieces that states are made of. *)
LEMMA NoTimes == [n \in Notes |-> None] \in Times
BY DEF Times

LEMMA NoRows == [n \in Notes |-> None] \in Rows
BY DEF Rows

LEMMA ViewIsTimes == ASSUME NEW rows \in Rows PROVE View(rows) \in Times
BY DEF Rows, Row, Times, View

LEMMA ClosedPageOK == ClosedPage \in PageRec
BY NoTimes DEF ClosedPage, PageRec

LEMMA FreeReqOK == Proper(FreeReq) /\ FreeReq \in ReqRec /\ FreeReq.pc = "free"
BY NoTimes DEF FreeReq, ReqRec, Proper

LEMMA LowerOK == \A t \in Typed : Lower[t] \in Users
BY NotesAssumption

LEMMA CallOK ==
  ASSUME NEW kind \in {"sync", "submit", "list"}, NEW user \in Typed,
         kind # "list" => user \in Users, NEW view \in Times, NEW day \in BOOLEAN
  PROVE  /\ Proper(Call(kind, user, view, day))
         /\ Call(kind, user, view, day).pc = "sent" /\ Call(kind, user, view, day).kind = kind
         /\ Call(kind, user, view, day).ids = {} /\ Call(kind, user, view, day).view = view
BY FreeReqOK DEF Call, FreeReq, ReqRec, Proper

LEMMA InitTypes == Init => Types
<1> SUFFICES ASSUME Init PROVE Types
  OBVIOUS
<1>1. BrowserOK /\ SchedOK /\ clean \in BOOLEAN
  <2>1. CASE Fresh
    BY <2>1, NoRows DEF Init, Fresh, BrowserOK, SchedOK
  <2>2. CASE Connected
    <3>1. name \in Users
      BY <2>2, NotesAssumption DEF Connected
    <3>2. store \in Rows
      BY <2>2, <3>1 DEF Connected, Rows, Row
    <3>3. \A n \in Notes : store[n] # None => store[n].slot \in Slots
      BY <2>2 DEF Connected
    <3>4. SchedOK
      BY <2>2, <3>3 DEF Connected, SchedOK, Entry
    <3> QED BY <2>2, <3>1, <3>2, <3>4, NoRows DEF Init, Connected, BrowserOK
  <2> QED BY <2>1, <2>2 DEF Init
<1>2. PageOK
  BY ClosedPageOK DEF Init, PageOK
<1>3. ReqsOK
  BY FreeReqOK DEF Init, ReqsOK
<1> QED BY <1>1, <1>2, <1>3, NotesAssumption DEF Init, Types, CountOK, HistOK
-----------------------------------------------------------------------------
(* How the requests change. *)

(* What a new request does to the others. *)
Posted(r) ==
  /\ req[r].pc = "free" /\ req' \in [Requests -> ReqRec] /\ Proper(req'[r])
  /\ req'[r].pc = "sent" /\ req'[r].ids = {}
  /\ req'[r].alone => Quiet
  /\ \A q \in Requests : q # r => req'[q] = [req[q] EXCEPT !.alone = FALSE]

LEMMA PostIsPosted ==
  ASSUME ReqsOK, NEW r \in Requests, NEW kind \in {"sync", "submit", "list"}, NEW user \in Typed,
         kind # "list" => user \in Users, NEW view \in Times, NEW day \in BOOLEAN,
         Post(r, Call(kind, user, view, day))
  PROVE  Posted(r) /\ req'[r].kind = kind
<1>1. PICK call : call = Call(kind, user, view, day)
  OBVIOUS
<1>2. Proper(call) /\ call.pc = "sent" /\ call.kind = kind /\ call.ids = {}
  BY <1>1, CallOK
<1>3. /\ req[r].pc = "free"
      /\ req' = [q \in Requests |-> IF q = r THEN [call EXCEPT !.alone = Quiet]
                                    ELSE [req[q] EXCEPT !.alone = FALSE]]
  BY <1>1 DEF Post
<1>4. Quiet \in BOOLEAN
  BY DEF Quiet
<1>5. PICK b \in BOOLEAN : b = Quiet
  BY <1>4
<1>6. PICK q \in ReqRec : q = [call EXCEPT !.alone = b]
  BY <1>2 DEF Proper, ReqRec
<1>7. Proper(q) /\ q.pc = "sent" /\ q.kind = kind /\ q.ids = {} /\ q.alone = b
  BY <1>2, <1>6 DEF Proper, ReqRec
<1>8. \A o \in Requests : [req[o] EXCEPT !.alone = FALSE] \in ReqRec
  BY DEF ReqsOK, ReqRec
<1>9. req'[r] = q
  BY <1>3, <1>5, <1>6
<1> QED BY <1>3, <1>5, <1>7, <1>8, <1>9 DEF Posted

LEMMA PostedTypes ==
  ASSUME ReqsOK, NEW r \in Requests, Posted(r)
  PROVE  ReqsOK'
<1>1. \A q \in Requests : q # r => req[q] \in ReqRec /\ Proper(req[q])
  BY DEF ReqsOK
<1>2. \A q \in Requests : q # r => Proper(req'[q])
  BY <1>1 DEF Posted, Proper, ReqRec
<1> QED BY <1>2 DEF Posted, ReqsOK, Proper

LEMMA PutReq ==
  ASSUME ReqsOK, NEW r \in Requests, NEW q, Proper(q), req' = [req EXCEPT ![r] = q]
  PROVE  ReqsOK'
BY DEF ReqsOK, Proper

LEMMA SameReqs == ReqsOK /\ req' = req => ReqsOK'
BY DEF ReqsOK, Proper
-----------------------------------------------------------------------------
(* The actions, by what they do to the requests. *)

\* the user sends a request, or would if a username were known
PostStep(r) ==
  \/ \E n \in Notes, s \in Slots : SaveNote(r, n, s)
  \/ \E n \in Notes : ToggleOff(r, n) \/ DeleteEntry(r, n)
  \/ OpenTable(r) \/ OpenModal(r) \/ Submit(r) \/ \E typed \in Typed : Type(r, typed)
\* the scheduler handles a request
SaveStep(r) == \E saved \in SUBSET Notes : \E kept \in SUBSET Notes : Save(r, kept, saved)
ListStep(r) == ListRows(r) \/ \E ids \in SUBSET Notes : ListBreaksOff(r, ids)
\* nothing happens to requests
RestStep ==
  \/ CloseModal \/ SetDaily \/ Download \/ Upload
  \/ \E u \in Users, n \in Notes : Deliver(u, n) \/ Purge(u, n) \/ Cancel(u, n)

LEMMA NextSteps ==
  Next => \/ RestStep \/ CloseTable
          \/ \E r \in Requests :
               \/ PostStep(r) \/ SaveStep(r) \/ Refuse(r) \/ DeleteOthers(r) \/ DeletionFails(r)
               \/ ListStep(r) \/ ReceiveSubmit(r) \/ ReceiveList(r) \/ Lose(r)
BY DEF Next, User, Serve, Receive, PostStep, SaveStep, ListStep, RestStep

(* Nothing is sent, or one request, which is a list unless notes changed.  *)
Sends(r) == req' = req \/ (Posted(r) /\ (req'[r].kind = "list" \/ ~clean'))

LEMMA SyncStoreSends ==
  ASSUME Types, NEW r \in Requests, store' \in Rows, ~clean', SyncStore(r)
  PROVE  Sends(r)
<1>1. CASE name = None
  BY <1>1 DEF SyncStore, Sends
<1>2. CASE name # None
  <2>1. PICK view \in Times : view = View(store')
    BY ViewIsTimes
  <2>2. name \in Users /\ name \in Typed /\ daily \in BOOLEAN /\ ReqsOK
    BY <1>2, NotesAssumption DEF Types, BrowserOK
  <2>3. Post(r, Call("sync", name, view, daily))
    BY <1>2, <2>1 DEF SyncStore
  <2> QED BY <2>2, <2>3, PostIsPosted DEF Sends
<1> QED BY <1>1, <1>2

LEMMA AskSends ==
  ASSUME Types, NEW r \in Requests, NEW typed \in Typed, Ask(r, typed)
  PROVE  Sends(r)
BY NoTimes, PostIsPosted DEF Ask, Sends, Types

LEMMA RetypeSends ==
  ASSUME Types, NEW r \in Requests, NEW typed \in Typed \union {None}, NEW p \in PageRec,
         Retype(r, typed, p)
  PROVE  Sends(r) /\ page' \in PageRec /\ page'.busy = p.busy
BY AskSends DEF Retype, PageRec, Sends

(* A step of the user keeps the types of what the browser has, and leaves  *)
(* the scheduler alone; a history that is still clean has seen no change.  *)
UserOnly ==
  /\ BrowserOK' /\ PageOK' /\ CountOK' /\ clean' \in BOOLEAN
  /\ sched' = sched /\ ended' = ended /\ name' = name
  /\ clean' => (clean /\ store' = store)

LEMMA PostStepOK ==
  ASSUME Types, NEW r \in Requests, PostStep(r)
  PROVE  Sends(r) /\ UserOnly
<1> USE DEF Types
<1>1. ASSUME Act PROVE CountOK'
  BY <1>1, NotesAssumption DEF Act, CountOK
<1>2. ASSUME NEW n \in Notes, NEW row \in Row \union {None}, store' = [store EXCEPT ![n] = row]
      PROVE  store' \in Rows
  BY <1>2 DEF BrowserOK, Rows
<1>3. ASSUME NEW n \in Notes, NEW s \in Slots, SaveNote(r, n, s)
      PROVE  Sends(r) /\ UserOnly
  <2>1. PICK row \in Row : store' = [store EXCEPT ![n] = row]
    <3>1. (IF store[n] = None THEN None ELSE store[n].user) \in Users \union {None}
      BY DEF BrowserOK, Rows, Row
    <3>2. [slot |-> s, user |-> IF store[n] = None THEN None ELSE store[n].user] \in Row
      BY <3>1 DEF Row
    <3>3. store' = [store EXCEPT ![n] = [slot |-> s, user |-> IF store[n] = None THEN None ELSE store[n].user]]
      BY <1>3 DEF SaveNote
    <3> QED BY <3>2, <3>3
  <2>2. store' \in Rows
    BY <1>2, <2>1
  <2> QED BY <1>1, <1>3, <2>2, SyncStoreSends DEF SaveNote, BrowserOK, PageOK, UserOnly
<1>4. ASSUME NEW n \in Notes, ToggleOff(r, n)
      PROVE  Sends(r) /\ UserOnly
  <2>1. store' \in Rows
    BY <1>2, <1>4 DEF ToggleOff
  <2> QED BY <1>1, <1>4, <2>1, SyncStoreSends DEF ToggleOff, BrowserOK, PageOK, UserOnly
<1>5. ASSUME NEW n \in Notes, DeleteEntry(r, n)
      PROVE  Sends(r) /\ UserOnly
  <2>1. store' \in Rows
    BY <1>2, <1>5 DEF DeleteEntry
  <2>2. PICK view \in Times : view = View(store')
    BY <2>1, ViewIsTimes
  <2>3. PageOK'
    BY <1>5, <2>2 DEF DeleteEntry, PageOK, PageRec
  <2>4. PICK user \in Users \union {None} : user = IF page.typed = None THEN name ELSE Lower[page.typed]
    BY LowerOK DEF PageOK, PageRec, BrowserOK
  <2>5. IF user = None THEN UNCHANGED req ELSE Post(r, Call("sync", user, view, page.daily))
    BY <1>5, <2>2, <2>4 DEF DeleteEntry
  <2>6. page.daily \in BOOLEAN /\ Users \subseteq Typed
    BY NotesAssumption DEF PageOK, PageRec
  <2>7. Sends(r)
    BY <1>5, <2>5, <2>6, PostIsPosted DEF DeleteEntry, Sends
  <2> QED BY <1>1, <1>5, <2>1, <2>3, <2>7 DEF DeleteEntry, BrowserOK, UserOnly
<1>6. CASE OpenTable(r)
  <2>1. View(store) \in Times /\ name \in Typed \union {None} /\ daily \in BOOLEAN
    BY ViewIsTimes, NotesAssumption DEF BrowserOK
  <2>2. PageOK'
    BY <1>6, <2>1, ClosedPageOK DEF OpenTable, PageOK, PageRec
  <2>3. Sends(r)
    BY <1>6, <2>1, AskSends DEF OpenTable, Sends
  <2> QED BY <1>1, <1>6, <2>2, <2>3 DEF OpenTable, BrowserOK, HistOK, UserOnly
<1>7. CASE OpenModal(r)
  <2>1. PICK typed \in Typed \union {None} : typed = IF name = None THEN page.typed ELSE name
    BY NotesAssumption DEF BrowserOK, PageOK, PageRec
  <2>2. PICK p \in PageRec : p = [page EXCEPT !.modal = TRUE]
    BY DEF PageOK, PageRec
  <2>3. Retype(r, typed, p)
    BY <1>7, <2>1, <2>2 DEF OpenModal
  <2> QED BY <1>1, <1>7, <2>3, RetypeSends DEF OpenModal, BrowserOK, HistOK, PageOK, UserOnly
<1>8. ASSUME NEW typed \in Typed, Type(r, typed)
      PROVE  Sends(r) /\ UserOnly
  BY <1>1, <1>8, RetypeSends DEF Type, BrowserOK, HistOK, PageOK, UserOnly
<1>9. CASE Submit(r)
  <2>1. Lower[page.typed] \in Users /\ Users \subseteq Typed /\ page.shown \in Times /\ page.daily \in BOOLEAN
    BY <1>9, LowerOK, NotesAssumption DEF Submit, PageOK, PageRec
  <2>2. Sends(r)
    BY <1>9, <2>1, PostIsPosted DEF Submit, Sends
  <2>3. PageOK'
    BY <1>9 DEF Submit, PageOK, PageRec
  <2> QED BY <1>1, <1>9, <2>2, <2>3 DEF Submit, BrowserOK, UserOnly
<1> QED BY <1>3, <1>4, <1>5, <1>6, <1>7, <1>8, <1>9 DEF PostStep
-----------------------------------------------------------------------------
LEMMA BoundsKept ==
  CountOK /\ (Act \/ Fault \/ UNCHANGED <<acts, faults>>) => CountOK'
BY NotesAssumption DEF CountOK, Act, Fault

LEMMA AskerOK ==
  ASSUME Types, NEW r \in Requests, req[r].pc # "free"
  PROVE  /\ Proper(req[r]) /\ req[r] \in ReqRec /\ req[r].user \in Typed
         /\ Asker(req[r]) \in Users
         /\ req[r].kind # "list" => Asker(req[r]) = req[r].user /\ req[r].user \in Users
BY NotesAssumption DEF Types, ReqsOK, Proper, Asker

LEMMA AnsweredTypes ==
  ASSUME Types, NEW r \in Requests, req[r].pc # "free",
         NEW accepted \in BOOLEAN, NEW ids \in SUBSET Notes, req' = Answered(r, accepted, ids)
  PROVE  /\ ReqsOK' /\ \A o \in Requests : o # r => req'[o] = req[o]
         /\ req'[r] = [req[r] EXCEPT !.pc = "answered", !.accepted = accepted, !.ids = ids]
<1>1. PICK q : q = [req[r] EXCEPT !.pc = "answered", !.accepted = accepted, !.ids = ids]
  OBVIOUS
<1>2. Proper(q)
  BY <1>1, AskerOK DEF Proper, ReqRec
<1>3. req' = [req EXCEPT ![r] = q]
  BY <1>1 DEF Answered
<1> QED BY <1>1, <1>2, <1>3, PutReq DEF Types, ReqsOK

LEMMA FreedTypes ==
  ASSUME Types, NEW r \in Requests, req' = [req EXCEPT ![r] = FreeReq]
  PROVE  ReqsOK'
BY FreeReqOK, PutReq DEF Types

LEMMA SaveTypes ==
  ASSUME Types, NEW r \in Requests, SaveStep(r)
  PROVE  Types'
<1> USE DEF Types
<1>1. PICK saved \in SUBSET Notes, kept \in SUBSET Notes : Save(r, kept, saved)
  BY DEF SaveStep
<1>2. req[r].pc = "sent" /\ req[r].kind # "list"
  BY <1>1 DEF Save
<1>3. Proper(req[r]) /\ req[r] \in ReqRec /\ Asker(req[r]) \in Users
  BY <1>2, AskerOK
<1>4. ReqsOK'
  <2>1. PICK q : q = [req[r] EXCEPT !.pc = "saved", !.ids = kept,
                        !.full = (saved = Listed(req[r].view)), !.accepted = (saved # {})]
    OBVIOUS
  <2>2. Proper(q)
    BY <1>2, <1>3, <2>1 DEF Proper, ReqRec
  <2>3. req' = [req EXCEPT ![r] = q]
    BY <1>1, <2>1 DEF Save
  <2> QED BY <2>2, <2>3, PutReq
<1>5. SchedOK'
  <2>1. \A n \in saved : req[r].view[n] \in Slots /\ req[r].daily \in BOOLEAN
    BY <1>1, <1>3 DEF Save, Listed, ReqRec, Times
  <2>2. \A n \in saved : [slot |-> req[r].view[n], daily |-> req[r].daily, st |-> "pending"] \in Entry
    BY <2>1 DEF Entry
  <2> QED BY <1>1, <1>3, <2>2 DEF Save, SchedOK
<1>6. CountOK'
  <2>1. Fault \/ UNCHANGED <<acts, faults>>
    BY <1>1 DEF Save
  <2> QED BY <2>1, BoundsKept
<1>7. BrowserOK' /\ PageOK' /\ HistOK'
  BY <1>1 DEF Save, BrowserOK, PageOK, HistOK
<1> QED BY <1>4, <1>5, <1>6, <1>7

LEMMA DeleteOthersTypes ==
  ASSUME Types, NEW r \in Requests, DeleteOthers(r)
  PROVE  Types'
<1> USE DEF Types
<1>1. req[r].pc # "free"
  BY DEF DeleteOthers, Empty
<1>2. req[r] \in ReqRec /\ Asker(req[r]) \in Users
  BY <1>1, AskerOK
<1>3. ReqsOK'
  <2>1. CASE req[r].kind = "submit"
    <3>1. (req[r].accepted \/ Empty(req[r])) \in BOOLEAN
      BY <1>2 DEF ReqRec, Empty
    <3>2. PICK b \in BOOLEAN : b = (req[r].accepted \/ Empty(req[r]))
      BY <3>1
    <3>3. req' = Answered(r, b, req[r].ids) /\ req[r].ids \in SUBSET Notes
      BY <1>2, <2>1, <3>2 DEF DeleteOthers, ReqRec
    <3> QED BY <1>1, <3>3, AnsweredTypes
  <2>2. CASE req[r].kind # "submit"
    BY <2>2, FreedTypes DEF DeleteOthers
  <2> QED BY <2>1, <2>2
<1>4. SchedOK'
  BY <1>2 DEF DeleteOthers, SchedOK
<1>5. BrowserOK' /\ PageOK' /\ CountOK' /\ HistOK'
  BY BoundsKept DEF DeleteOthers, BrowserOK, PageOK, HistOK
<1> QED BY <1>3, <1>4, <1>5

(* A deletion that fails is answered as one that does not. *)
LEMMA FailedDeletion ==
  ASSUME Types, NEW r \in Requests, DeletionFails(r)
  PROVE  /\ \A o \in Requests : o # r => req'[o] = req[o]
         /\ ReqsOK'
         /\ \/ req[r].kind # "submit" /\ req' = [req EXCEPT ![r] = FreeReq]
            \/ /\ req[r].kind = "submit" /\ req'[r].kind = "submit"
               /\ req'[r].pc = "answered" /\ ~req'[r].full
               /\ req'[r].mine = req[r].mine /\ req'[r].alone = req[r].alone
<1>1. /\ req[r].pc # "free" /\ Proper(req[r]) /\ req[r] \in ReqRec
      /\ req \in [Requests -> ReqRec]
  BY AskerOK DEF DeletionFails, Empty, Types, ReqsOK
<1>2. CASE req[r].kind # "submit"
  <2>1. req' = [req EXCEPT ![r] = FreeReq]
    BY <1>2 DEF DeletionFails
  <2> QED BY <1>1, <1>2, <2>1, FreedTypes
<1>3. CASE req[r].kind = "submit"
  <2>1. PICK b \in BOOLEAN : b = (req[r].accepted \/ Empty(req[r]))
    BY <1>1 DEF ReqRec, Empty
  <2>2. PICK q : q = [req[r] EXCEPT !.pc = "answered", !.full = FALSE, !.accepted = b]
    OBVIOUS
  <2>3. req' = [req EXCEPT ![r] = q]
    BY <1>3, <2>1, <2>2 DEF DeletionFails
  <2>4. Proper(q)
    BY <1>1, <2>2 DEF Proper, ReqRec
  <2>5. /\ q.kind = req[r].kind /\ q.pc = "answered" /\ ~q.full
        /\ q.mine = req[r].mine /\ q.alone = req[r].alone
    BY <1>1, <2>2 DEF ReqRec
  <2> QED BY <1>1, <1>3, <2>3, <2>4, <2>5, PutReq DEF Types, ReqsOK
<1> QED BY <1>2, <1>3

LEMMA DeletionFailsTypes ==
  ASSUME Types, NEW r \in Requests, DeletionFails(r)
  PROVE  Types'
<1>1. ReqsOK'
  BY FailedDeletion
<1> QED BY <1>1, BoundsKept DEF DeletionFails, Types, BrowserOK, PageOK, SchedOK, HistOK

LEMMA Lists ==
  ASSUME NEW r \in Requests, ListStep(r)
  PROVE  /\ req[r].pc = "sent" /\ req[r].kind = "list"
         /\ UNCHANGED <<store, name, daily, backup, page, sched, ended>>
         /\ \E ids \in SUBSET Notes : /\ req' = Answered(r, TRUE, ids)
                                      /\ \/ clean' = FALSE
                                         \/ clean' = clean /\ ids = Listable(Asker(req[r]))
<1>1. CASE ListRows(r)
  <2>1. Listable(Asker(req[r])) \in SUBSET Notes
    BY DEF Listable
  <2> QED BY <1>1, <2>1 DEF ListRows
<1>2. ASSUME NEW ids \in SUBSET Notes, ListBreaksOff(r, ids)
      PROVE  /\ req[r].pc = "sent" /\ req[r].kind = "list"
             /\ UNCHANGED <<store, name, daily, backup, page, sched, ended>>
             /\ req' = Answered(r, TRUE, ids) /\ clean' = FALSE
  BY <1>2 DEF ListBreaksOff
<1> QED BY <1>1, <1>2 DEF ListStep, ListRows

LEMMA AnswerTypes ==
  ASSUME Types, NEW r \in Requests, Refuse(r) \/ ListStep(r)
  PROVE  Types'
<1> USE DEF Types
<1>1. req[r].pc # "free"
  BY Lists DEF Refuse
<1>2. ReqsOK'
  <2>1. CASE Refuse(r)
    <3>1. CASE req[r].kind = "sync"
      BY <2>1, <3>1, FreedTypes DEF Refuse
    <3>2. CASE req[r].kind # "sync"
      <4>1. PICK ids \in SUBSET Notes : ids = {}
        OBVIOUS
      <4>2. req' = Answered(r, FALSE, ids)
        BY <2>1, <3>2, <4>1 DEF Refuse
      <4> QED BY <1>1, <4>2, AnsweredTypes
    <3> QED BY <3>1, <3>2
  <2>2. CASE ListStep(r)
    <3>1. PICK ids \in SUBSET Notes : req' = Answered(r, TRUE, ids)
      BY <2>2, Lists
    <3> QED BY <1>1, <3>1, AnsweredTypes
  <2> QED BY <2>1, <2>2
<1>3. BrowserOK' /\ PageOK' /\ SchedOK' /\ HistOK'
  BY Lists DEF Refuse, BrowserOK, PageOK, SchedOK, HistOK
<1>4. CountOK'
  BY BoundsKept DEF Refuse, ListStep, ListRows, ListBreaksOff
<1> QED BY <1>2, <1>3, <1>4

LEMMA MarkedOK == ASSUME BrowserOK, NEW u \in Users PROVE Marked(u) \in Rows
BY DEF BrowserOK, Marked, Rows, Row

LEMMA ReceiveSubmitTypes ==
  ASSUME Types, NEW r \in Requests, ReceiveSubmit(r)
  PROVE  Types'
<1> USE DEF Types
<1>1. req[r] \in ReqRec /\ req[r].user \in Users
  BY AskerOK DEF ReceiveSubmit
<1>2. ReqsOK'
  BY FreedTypes DEF ReceiveSubmit
<1>3. BrowserOK'
  BY <1>1, MarkedOK DEF ReceiveSubmit, BrowserOK, ReqRec
<1>4. PageOK'
  <2>1. PICK view \in Times : view = View(store')
    BY <1>3, ViewIsTimes DEF BrowserOK
  <2> QED BY <2>1 DEF ReceiveSubmit, PageOK, PageRec
<1>5. HistOK'
  BY DEF ReceiveSubmit, HistOK, ReqRec
<1> QED BY <1>2, <1>3, <1>4, <1>5, BoundsKept DEF ReceiveSubmit, SchedOK

LEMMA ReceiveListTypes ==
  ASSUME Types, NEW r \in Requests, ReceiveList(r)
  PROVE  Types'
<1> USE DEF Types
<1>1. ReqsOK'
  BY FreedTypes DEF ReceiveList
<1>2. BrowserOK'
  BY DEF ReceiveList, BrowserOK, Rows
<1>3. PageOK'
  <2>1. PICK view \in Times : view = View(store')
    BY <1>2, ViewIsTimes DEF BrowserOK
  <2> QED BY <2>1 DEF ReceiveList, PageOK, PageRec
<1> QED BY <1>1, <1>2, <1>3, BoundsKept DEF ReceiveList, SchedOK, HistOK

LEMMA LoseTypes ==
  ASSUME Types, NEW r \in Requests, Lose(r)
  PROVE  Types'
<1>1. ReqsOK'
  BY FreedTypes DEF Lose
<1>2. PageOK'
  BY DEF Lose, Types, PageOK, PageRec
<1> QED BY <1>1, <1>2, BoundsKept DEF Lose, Types, BrowserOK, SchedOK, HistOK

LEMMA CloseTypes ==
  ASSUME Types, CloseTable
  PROVE  Types'
<1>1. ReqsOK'
  <2>1. \A r \in Requests : [req[r] EXCEPT !.mine = FALSE] \in ReqRec
                            /\ Proper([req[r] EXCEPT !.mine = FALSE])
    BY DEF Types, ReqsOK, Proper, ReqRec
  <2> QED BY <2>1 DEF CloseTable, ReqsOK, Proper
<1>2. PageOK'
  BY ClosedPageOK DEF CloseTable, PageOK
<1> QED BY <1>1, <1>2, BoundsKept DEF CloseTable, Types, BrowserOK, SchedOK, HistOK

LEMMA RestTypes ==
  ASSUME Types, RestStep
  PROVE  Types'
<1> USE DEF Types
<1>1. ReqsOK'
  BY SameReqs DEF RestStep, CloseModal, SetDaily, Download, Upload, Deliver, Purge, Cancel
<1>2. CountOK'
  BY BoundsKept DEF RestStep, CloseModal, SetDaily, Download, Upload, Deliver, Purge, Cancel
<1>3. BrowserOK' /\ PageOK'
  BY DEF RestStep, CloseModal, SetDaily, Download, Upload, Deliver, Purge, Cancel, BrowserOK,
         PageOK, PageRec
<1>4. HistOK'
  <2>1. ASSUME NEW u \in Users, NEW n \in Notes, Deliver(u, n) \/ Purge(u, n) \/ Cancel(u, n)
        PROVE  HistOK'
    BY <2>1 DEF Deliver, Purge, Cancel, HistOK
  <2> QED BY <2>1 DEF RestStep, CloseModal, SetDaily, Download, Upload, HistOK
<1>5. SchedOK'
  <2>1. ASSUME NEW u \in Users, NEW n \in Notes, Deliver(u, n) \/ Purge(u, n) \/ Cancel(u, n)
        PROVE  SchedOK'
    <3>1. PICK e \in Entry \union {None} : sched' = [sched EXCEPT ![u][n] = e]
      <4>1. CASE Deliver(u, n)
        <5>1. PICK st \in {"pending", "sent"} : st = IF sched[u][n].daily THEN "pending" ELSE "sent"
          OBVIOUS
        <5>2. sched[u][n] \in Entry
          BY <4>1 DEF Deliver, SchedOK
        <5>3. PICK e \in Entry : e = [sched[u][n] EXCEPT !.st = st]
          BY <5>2 DEF Entry
        <5> QED BY <4>1, <5>1, <5>3 DEF Deliver
      <4>2. CASE Purge(u, n)
        BY <4>2 DEF Purge
      <4>3. CASE Cancel(u, n)
        <5>1. PICK e \in Entry : e = [sched[u][n] EXCEPT !.st = "cancelled"]
          BY <4>3 DEF Cancel, SchedOK, Entry
        <5> QED BY <4>3, <5>1 DEF Cancel
      <4> QED BY <2>1, <4>1, <4>2, <4>3
    <3> QED BY <3>1 DEF SchedOK
  <2> QED BY <2>1 DEF RestStep, CloseModal, SetDaily, Download, Upload, SchedOK
<1> QED BY <1>1, <1>2, <1>3, <1>4, <1>5

LEMMA PostTypes ==
  ASSUME Types, NEW r \in Requests, PostStep(r)
  PROVE  Types'
<1>1. Sends(r) /\ UserOnly
  BY PostStepOK
<1>2. ReqsOK'
  BY <1>1, PostedTypes, SameReqs DEF Sends, Types
<1> QED BY <1>1, <1>2 DEF UserOnly, Types, SchedOK, HistOK

LEMMA SameTypes == Types /\ UNCHANGED vars => Types'
BY DEF vars, Types, BrowserOK, PageOK, ReqsOK, Proper, SchedOK, CountOK, HistOK

LEMMA NextTypes == Types /\ [Next]_vars => Types'
BY NextSteps, PostTypes, SaveTypes, DeleteOthersTypes, DeletionFailsTypes, AnswerTypes, ReceiveSubmitTypes,
   ReceiveListTypes, LoseTypes, CloseTypes, RestTypes, SameTypes

(* The username that is stored and submitted is always a normalised one, no *)
(* row belongs to anybody else, and notes, times and requests keep their    *)
(* types, whatever overtakes what.                                          *)
THEOREM TypeCorrect == Spec => []TypeOK
BY InitTypes, NextTypes, TypesAreTypeOK, PTL DEF Spec
-----------------------------------------------------------------------------
(* The form that waits *)

Waiting(r) == req[r].mine /\ req[r].kind = "submit" /\ req[r].pc # "free"

LEMMA BusyPost ==
  ASSUME Types, BusyIsWaiting, NEW r \in Requests, PostStep(r)
  PROVE  BusyIsWaiting'
<1> USE DEF Types, BusyIsWaiting
<1>1. CASE Submit(r)
  <2>1. PICK call : call = Call("submit", Lower[page.typed], page.shown, page.daily)
    OBVIOUS
  <2>2. call.mine /\ call.kind = "submit" /\ call.pc = "sent"
    BY <2>1 DEF Call, FreeReq
  <2>3. req'[r] = [call EXCEPT !.alone = Quiet]
    BY <1>1, <2>1 DEF Submit, Post
  <2>4. req'[r].mine /\ req'[r].kind = "submit" /\ req'[r].pc = "sent"
    <3>1. PICK b : b = Quiet
      OBVIOUS
    <3> QED BY <2>1, <2>2, <2>3, <3>1 DEF Call, FreeReq
  <2> QED BY <2>4
<1>2. CASE ~Submit(r)
  <2>1. Sends(r)
    BY PostStepOK
  <2>2. page'.busy => page.busy
    <3>1. \A typed, p : Retype(r, typed, p) => page' = [p EXCEPT !.typed = typed]
      BY DEF Retype
    <3>2. (\E n \in Notes, s \in Slots : SaveNote(r, n, s)) \/ (\E n \in Notes : ToggleOff(r, n)) => page' = page
      BY DEF SaveNote, ToggleOff
    <3>3. \A n \in Notes : DeleteEntry(r, n) => page'.busy = page.busy
      BY DEF DeleteEntry, PageOK, PageRec
    <3>4. OpenTable(r) => ~page'.busy
      BY DEF OpenTable, ClosedPage
    <3>5. OpenModal(r) => page'.busy = page.busy
      BY <3>1 DEF OpenModal, PageOK, PageRec
    <3>6. \A typed \in Typed : Type(r, typed) => page'.busy = page.busy
      BY <3>1 DEF Type, PageOK, PageRec
    <3> QED BY <1>2, <3>2, <3>3, <3>4, <3>5, <3>6 DEF PostStep
  <2>3. \A o \in Requests : Waiting(o) => Waiting(o)'
    <3>1. CASE req' = req
      BY <3>1 DEF Waiting
    <3>2. CASE Posted(r)
      <4>1. \A o \in Requests : o # r => /\ req'[o].mine = req[o].mine /\ req'[o].kind = req[o].kind
                                         /\ req'[o].pc = req[o].pc
        BY <3>2 DEF Posted, ReqsOK, ReqRec
      <4> QED BY <3>2, <4>1 DEF Posted, Waiting
    <3> QED BY <2>1, <3>1, <3>2 DEF Sends
  <2> QED BY <2>2, <2>3 DEF Waiting
<1> QED BY <1>1, <1>2

(* What the scheduler does to a submission, it is still under way. *)
LEMMA BusyServe ==
  ASSUME Types, BusyIsWaiting, NEW r \in Requests,
         SaveStep(r) \/ Refuse(r) \/ DeleteOthers(r) \/ DeletionFails(r) \/ ListStep(r)
  PROVE  BusyIsWaiting'
<1> USE DEF Types
<1>1. page' = page
  BY Lists DEF SaveStep, Save, Refuse, DeleteOthers, DeletionFails
<1>2. req[r] \in ReqRec /\ req \in [Requests -> ReqRec]
  BY DEF ReqsOK
<1>3. \A o \in Requests : o # r => req'[o] = req[o]
  BY <1>2, FailedDeletion, Lists DEF SaveStep, Save, Refuse, DeleteOthers, Answered
<1>4. CASE req' = [req EXCEPT ![r] = FreeReq] /\ req[r].kind # "submit"
  BY <1>1, <1>3, <1>4 DEF BusyIsWaiting, Waiting
<1>5. ASSUME req'[r].mine = req[r].mine, req'[r].kind = req[r].kind, req'[r].pc # "free"
      PROVE  BusyIsWaiting'
  <2>1. \A o \in Requests : Waiting(o) => Waiting(o)'
    BY <1>3, <1>5 DEF Waiting
  <2> QED BY <1>1, <2>1 DEF BusyIsWaiting, Waiting
<1>6. ASSUME NEW b, NEW ids, req' = Answered(r, b, ids)
      PROVE  BusyIsWaiting'
  <2>1. req'[r] = [req[r] EXCEPT !.pc = "answered", !.accepted = b, !.ids = ids]
    BY <1>2, <1>6 DEF Answered
  <2>2. req'[r].mine = req[r].mine /\ req'[r].kind = req[r].kind /\ req'[r].pc = "answered"
    BY <1>2, <2>1 DEF ReqRec
  <2> QED BY <1>5, <2>2
<1>7. CASE SaveStep(r)
  <2>1. PICK saved \in SUBSET Notes, kept \in SUBSET Notes : Save(r, kept, saved)
    BY <1>7 DEF SaveStep
  <2>2. PICK full \in BOOLEAN, b \in BOOLEAN : full = (saved = Listed(req[r].view)) /\ b = (saved # {})
    OBVIOUS
  <2>3. req'[r] = [req[r] EXCEPT !.pc = "saved", !.ids = kept, !.full = full, !.accepted = b]
    BY <1>2, <2>1, <2>2 DEF Save
  <2>4. req'[r].mine = req[r].mine /\ req'[r].kind = req[r].kind /\ req'[r].pc = "saved"
    BY <1>2, <2>3 DEF ReqRec
  <2> QED BY <1>5, <2>4
<1>8. CASE Refuse(r)
  BY <1>4, <1>6, <1>8 DEF Refuse
<1>9. CASE DeleteOthers(r)
  BY <1>4, <1>6, <1>9 DEF DeleteOthers
<1>10. CASE ListStep(r)
  BY <1>6, <1>10, Lists
<1>11. CASE DeletionFails(r)
  BY <1>4, <1>5, <1>11, FailedDeletion
<1> QED BY <1>7, <1>8, <1>9, <1>10, <1>11

LEMMA BusyReceive ==
  ASSUME Types, BusyIsWaiting, NEW r \in Requests, ReceiveSubmit(r) \/ ReceiveList(r) \/ Lose(r)
  PROVE  BusyIsWaiting'
<1> USE DEF Types
<1>1. req \in [Requests -> ReqRec] /\ page \in PageRec
  BY DEF ReqsOK, PageOK
<1>2. \A o \in Requests : o # r => req'[o] = req[o]
  BY <1>1 DEF ReceiveSubmit, ReceiveList, Lose
<1>3. Waiting(r) => ~page'.busy
  BY <1>1 DEF ReceiveSubmit, ReceiveList, Lose, Waiting, PageRec
<1>4. page'.busy => page.busy
  BY <1>1 DEF ReceiveSubmit, ReceiveList, Lose, PageRec
<1> QED BY <1>2, <1>3, <1>4 DEF BusyIsWaiting, Waiting

LEMMA BusyRest ==
  ASSUME Types, BusyIsWaiting, RestStep \/ CloseTable \/ UNCHANGED vars
  PROVE  BusyIsWaiting'
<1>1. CASE CloseTable
  BY <1>1 DEF CloseTable, ClosedPage, BusyIsWaiting
<1>2. CASE RestStep \/ UNCHANGED vars
  <2>1. req' = req /\ page'.busy = page.busy
    BY <1>2 DEF RestStep, CloseModal, SetDaily, Download, Upload, Deliver, Purge, Cancel, vars,
                Types, PageOK, PageRec
  <2> QED BY <2>1 DEF BusyIsWaiting
<1> QED BY <1>1, <1>2

LEMMA NextBusy == Types /\ BusyIsWaiting /\ [Next]_vars => BusyIsWaiting'
BY NextSteps, BusyPost, BusyServe, BusyReceive, BusyRest

(* The form of handleScheduleSubmit is disabled only while its own request  *)
(* is under way, whatever pages are left and opened meanwhile.              *)
THEOREM BusyWaits == Spec => []BusyIsWaiting
<1>1. Init => BusyIsWaiting
  BY DEF Init, ClosedPage, BusyIsWaiting
<1> QED BY InitTypes, NextTypes, <1>1, NextBusy, PTL DEF Spec
-----------------------------------------------------------------------------
(* The two sides of a sync *)

(* A request that is alone has no other under way beside it. *)
Lone == \A r, q \in Requests :
          req[r].pc # "free" /\ req[r].alone /\ q # r => req[q].pc = "free"

(* The rows of a full sync are what it asked for, or were cancelled, or     *)
(* sent and purged.                                                        *)
Kept(q) ==
  /\ q.ids = Listed(q.view)
  /\ \A n \in q.ids :
       /\ sched[Asker(q)][n] # None => sched[Asker(q)][n].slot = q.view[n]
       /\ sched[Asker(q)][n] = None \/ sched[Asker(q)][n].st = "cancelled" => <<Asker(q), n>> \in ended
OthersGone(q) == \A n \in Notes \ q.ids : sched[Asker(q)][n] = None

Synced(q) ==
  /\ q.pc = "sent" => q.ids = {}
  /\ q.alone /\ q.full /\ q.pc = "saved" => Kept(q)
  /\ q.alone /\ q.full /\ q.pc = "answered" /\ q.kind = "submit" /\ q.accepted =>
       Kept(q) /\ OthersGone(q)

Mine(n) == sched[name][n]

(* While the last sync is current only lists are under way, and an answer   *)
(* that may drop notes names all that is still to come.                     *)
OnlyLists(q) ==
  q.pc # "free" =>
    /\ q.kind = "list"
    /\ q.pc = "answered" /\ q.accepted /\ q.user = name => \A n \in Notes : Coming(n) => n \in q.ids
OneUser == name \in Users /\ \A n \in Notes : store[n] # None => store[n].user \in {None, name}
Seen == \A n \in Notes : Coming(n) => store[n] # None /\ store[n].slot = Mine(n).slot
Scheduled == \A n \in Notes : store[n] # None => Coming(n) \/ <<name, n>> \in ended

(* The inductive invariant. *)
SyncInv ==
  /\ Lone
  /\ \A r \in Requests : Synced(req[r])
  /\ clean => OneUser /\ Seen /\ Scheduled /\ \A r \in Requests : OnlyLists(req[r])

LEMMA InitSync == Init => SyncInv
<1> SUFFICES ASSUME Init PROVE SyncInv
  OBVIOUS
<1>1. Lone /\ \A r \in Requests : Synced(req[r]) /\ OnlyLists(req[r])
  BY DEF Init, Lone, Synced, OnlyLists, FreeReq
<1>2. clean => OneUser /\ Seen /\ Scheduled
  <2> SUFFICES ASSUME Connected PROVE OneUser /\ Seen /\ Scheduled
    BY DEF Init, Fresh
  <2>1. name \in Users
    BY NotesAssumption DEF Connected
  <2>2. \A n \in Notes : store[n] # None => /\ store[n].user \in {None, name}
                                            /\ store[n].slot \in Slots
    BY DEF Connected
  <2>3. \A n \in Notes : Mine(n) = IF store[n] = None THEN None
                                   ELSE [slot |-> store[n].slot, daily |-> daily, st |-> "pending"]
    BY <2>1 DEF Connected, Mine
  <2>4. \A n \in Notes : store[n] # None => Coming(n) /\ Mine(n).slot = store[n].slot
    <3> SUFFICES ASSUME NEW n \in Notes, store[n] # None
                 PROVE  Coming(n) /\ Mine(n).slot = store[n].slot
      OBVIOUS
    <3>1. PICK e : e = [slot |-> store[n].slot, daily |-> daily, st |-> "pending"]
      OBVIOUS
    <3>2. e \in Entry /\ e.st = "pending" /\ e.slot = store[n].slot
      BY <2>2, <3>1 DEF Connected, Entry
    <3>3. Mine(n) = e
      BY <2>3, <3>1
    <3> QED BY <3>2, <3>3, NotesAssumption DEF Coming, Mine
  <2> QED BY <2>1, <2>2, <2>3, <2>4 DEF OneUser, Seen, Scheduled, Coming, Mine
<1> QED BY <1>1, <1>2 DEF SyncInv

(* What the dispatcher, the purge and the panel do to rows: they may end or *)
(* change their status, but not their time, and no cancelled row returns.   *)
(* What is ended by the purge or the panel is known.                        *)
Fades ==
  /\ ended \subseteq ended'
  /\ \A u \in Users, n \in Notes :
       /\ sched'[u][n] = None => sched[u][n] = None \/ <<u, n>> \in ended'
       /\ sched'[u][n] # None => /\ sched[u][n] # None
                                 /\ sched'[u][n].slot = sched[u][n].slot
                                 /\ IF sched'[u][n].st = "cancelled"
                                      THEN sched[u][n].st = "cancelled" \/ <<u, n>> \in ended'
                                      ELSE sched[u][n].st # "cancelled"

LEMMA RestFades ==
  ASSUME Types, RestStep
  PROVE  Fades
<1>1. SchedOK
  BY DEF Types
<1>2. ASSUME NEW u \in Users, NEW n \in Notes, Deliver(u, n) \/ Cancel(u, n)
      PROVE  Fades
  <2>1. sched[u][n] \in Entry /\ ended \subseteq ended'
    BY <1>1, <1>2 DEF Deliver, Cancel, SchedOK
  <2>2. PICK st \in {"pending", "sent", "cancelled"} :
          /\ sched' = [sched EXCEPT ![u][n].st = st] /\ sched[u][n].st = "pending"
          /\ st = "cancelled" => <<u, n>> \in ended'
    <3>1. Deliver(u, n) => \E st \in {"pending", "sent"} :
            sched' = [sched EXCEPT ![u][n].st = st] /\ sched[u][n].st = "pending"
      BY DEF Deliver
    <3> QED BY <1>2, <3>1 DEF Cancel
  <2>3. PICK e \in Entry : e = [sched[u][n] EXCEPT !.st = st]
    BY <2>1 DEF Entry
  <2>4. e.slot = sched[u][n].slot /\ sched[u][n].st # "cancelled" /\ e.st = st
    BY <2>1, <2>2, <2>3 DEF Entry
  <2>5. sched'[u][n] = e /\ \A v \in Users, o \in Notes : v # u \/ o # n => sched'[v][o] = sched[v][o]
    BY <1>1, <2>2, <2>3 DEF SchedOK
  <2>6. sched[u][n] # None /\ e # None
    BY <2>1, NotesAssumption
  <2> QED BY <2>1, <2>2, <2>4, <2>5, <2>6 DEF Fades
<1>3. ASSUME NEW u \in Users, NEW n \in Notes, Purge(u, n)
      PROVE  Fades
  <2>1. sched'[u][n] = None /\ \A v \in Users, o \in Notes : v # u \/ o # n => sched'[v][o] = sched[v][o]
    BY <1>1, <1>3 DEF Purge, SchedOK
  <2>2. ended' = ended \union {<<u, n>>}
    BY <1>3 DEF Purge
  <2> QED BY <2>1, <2>2 DEF Fades
<1>4. CASE UNCHANGED <<sched, ended>>
  BY <1>4 DEF Fades
<1> QED BY <1>2, <1>3, <1>4 DEF RestStep, CloseModal, SetDaily, Download, Upload

LEMMA SyncedFades ==
  ASSUME Types, Fades, NEW q \in ReqRec, Proper(q), Synced(q)
  PROVE  Synced(q)'
<1>1. q.pc # "free" => Asker(q) \in Users
  BY NotesAssumption DEF Proper, Asker
<1>2. q.pc # "free" /\ Kept(q) => Kept(q)'
  BY <1>1 DEF Kept, Fades, ReqRec, Asker, Listed
<1>3. q.pc # "free" /\ OthersGone(q) => OthersGone(q)'
  BY <1>1 DEF OthersGone, Fades, ReqRec, Asker
<1> QED BY <1>2, <1>3 DEF Synced

(* While notes, username and requests stay as they are. *)
LEMMA CleanFades ==
  ASSUME Types, Fades, UNCHANGED <<store, name>>, OneUser, Seen, Scheduled
  PROVE  OneUser' /\ Seen' /\ Scheduled' /\ \A n \in Notes : Coming(n)' => Coming(n)
<1>1. name \in Users /\ name' = name /\ store' = store
  BY DEF OneUser
<1>2. \A n \in Notes : Coming(n)' => Coming(n) /\ Mine(n)'.slot = Mine(n).slot
  BY <1>1 DEF Coming, Mine, Fades
<1>3. Scheduled'
  BY <1>1 DEF Scheduled, Coming, Fades
<1> QED BY <1>1, <1>2, <1>3 DEF OneUser, Seen
-----------------------------------------------------------------------------
(* Steps that leave the rows to fade: a request is as it was, or over, or   *)
(* new, or answered with nothing, or incompletely.                          *)
Weaker(r) ==
  \/ req'[r].pc = "free"
  \/ /\ req'[r].pc = req[r].pc /\ req'[r].kind = req[r].kind /\ req'[r].user = req[r].user
     /\ req'[r].view = req[r].view /\ req'[r].ids = req[r].ids /\ req'[r].full = req[r].full
     /\ req'[r].accepted = req[r].accepted /\ (req'[r].alone => req[r].alone)
NewReq(r) == req'[r].pc = "sent" /\ req'[r].ids = {} /\ (clean' => req'[r].kind = "list")
Refused(r) == /\ req[r].pc # "free" /\ req'[r].kind = req[r].kind
              /\ req'[r].pc = "answered"
              /\ ~req'[r].accepted \/ (req[r].kind = "submit" /\ ~req'[r].full)

LEMMA Calm ==
  ASSUME Types, SyncInv, Fades, Lone', clean' => clean /\ UNCHANGED <<store, name>>,
         \A r \in Requests : Weaker(r) \/ NewReq(r) \/ Refused(r)
  PROVE  SyncInv'
<1>1. ASSUME NEW r \in Requests
      PROVE  Synced(req[r])'
  <2>1. CASE Weaker(r)
    <3>1. req[r] \in ReqRec /\ Proper(req[r]) /\ Synced(req[r])
      BY DEF Types, ReqsOK, SyncInv
    <3>2. Synced(req[r]) => \A q : q = req[r] => Synced(q)'
      BY <3>1, SyncedFades
    <3>3. PICK q : q = req[r]
      OBVIOUS
    <3>4. Synced(q)'
      BY <3>1, <3>2, <3>3
    <3>5. CASE req'[r].pc = "free"
      BY <3>5 DEF Synced
    <3>6. CASE req'[r].pc # "free"
      <4>1. /\ req'[r].pc = q.pc /\ req'[r].kind = q.kind /\ req'[r].user = q.user
            /\ req'[r].view = q.view /\ req'[r].ids = q.ids /\ req'[r].full = q.full
            /\ req'[r].accepted = q.accepted /\ (req'[r].alone => q.alone)
        BY <2>1, <3>3, <3>6 DEF Weaker
      <4>2. Asker(req[r])' = Asker(q)'
        BY <4>1 DEF Asker
      <4>3. /\ Kept(q)' => Kept(req[r])'
            /\ OthersGone(q)' => OthersGone(req[r])'
        BY <4>1, <4>2 DEF Kept, OthersGone, Listed
      <4> QED BY <3>4, <4>1, <4>3 DEF Synced
    <3> QED BY <3>5, <3>6
  <2>2. CASE NewReq(r) \/ Refused(r)
    BY <2>2 DEF NewReq, Refused, Synced
  <2> QED BY <2>1, <2>2
<1>2. clean' => OneUser' /\ Seen' /\ Scheduled' /\ \A r \in Requests : OnlyLists(req[r])'
  <2> SUFFICES ASSUME clean' PROVE OneUser' /\ Seen' /\ Scheduled'
                                   /\ \A r \in Requests : OnlyLists(req[r])'
    OBVIOUS
  <2>1. clean /\ UNCHANGED <<store, name>> /\ OneUser /\ Seen /\ Scheduled
    BY DEF SyncInv
  <2>2. OneUser' /\ Seen' /\ Scheduled' /\ \A n \in Notes : Coming(n)' => Coming(n)
    BY <2>1, CleanFades
  <2>3. ASSUME NEW r \in Requests
        PROVE  OnlyLists(req[r])'
    <3>1. OnlyLists(req[r])
      BY <2>1 DEF SyncInv
    <3>2. CASE Weaker(r)
      BY <2>1, <2>2, <3>1, <3>2 DEF Weaker, OnlyLists
    <3>3. CASE NewReq(r) \/ Refused(r)
      BY <3>1, <3>3 DEF NewReq, Refused, OnlyLists
    <3> QED BY <3>2, <3>3
  <2> QED BY <2>2, <2>3
<1> QED BY <1>1, <1>2 DEF SyncInv

(* Whoever is alone remains so while nothing new is sent. *)
LEMMA LoneKept ==
  ASSUME Lone, \A r \in Requests :
           req'[r].pc = "free" \/ (req[r].pc # "free" /\ (req'[r].alone => req[r].alone))
  PROVE  Lone'
BY DEF Lone

LEMMA NothingFades == UNCHANGED <<sched, ended>> => Fades
BY DEF Fades

LEMMA RestSync ==
  ASSUME Types, SyncInv, RestStep \/ UNCHANGED vars
  PROVE  SyncInv'
<1>1. req' = req
  BY DEF RestStep, CloseModal, SetDaily, Download, Upload, Deliver, Purge, Cancel, vars
<1>2. Fades
  BY RestFades, NothingFades DEF vars
<1>3. clean' => clean /\ UNCHANGED <<store, name>>
  BY DEF RestStep, CloseModal, SetDaily, Download, Upload, Deliver, Purge, Cancel, vars
<1>4. Lone' /\ \A r \in Requests : Weaker(r)
  BY <1>1 DEF SyncInv, Lone, Weaker
<1> QED BY <1>2, <1>3, <1>4, Calm

LEMMA CloseSync ==
  ASSUME Types, SyncInv, CloseTable
  PROVE  SyncInv'
<1>1. \A r \in Requests : req'[r] = [req[r] EXCEPT !.mine = FALSE] /\ req[r] \in ReqRec
  BY DEF CloseTable, Types, ReqsOK
<1>2. \A r \in Requests : Weaker(r) /\ req'[r].pc = req[r].pc /\ req'[r].alone = req[r].alone
  BY <1>1, ZenonT(60) DEF Weaker, ReqRec
<1>3. Lone'
  BY <1>2 DEF SyncInv, Lone
<1> QED BY <1>2, <1>3, Calm, NothingFades DEF CloseTable

LEMMA PostSync ==
  ASSUME Types, SyncInv, NEW r \in Requests, PostStep(r)
  PROVE  SyncInv'
<1>1. Sends(r) /\ UserOnly
  BY PostStepOK
<1>2. Fades /\ (clean' => clean /\ UNCHANGED <<store, name>>)
  BY <1>1, NothingFades DEF UserOnly
<1>3. CASE req' = req
  <2>1. Lone' /\ \A o \in Requests : Weaker(o)
    BY <1>3 DEF SyncInv, Lone, Weaker
  <2> QED BY <1>2, <2>1, Calm
<1>4. CASE Posted(r) /\ (req'[r].kind = "list" \/ ~clean')
  <2>1. \A o \in Requests : o # r => /\ req'[o] = [req[o] EXCEPT !.alone = FALSE]
                                     /\ req[o] \in ReqRec
    BY <1>4 DEF Posted, Types, ReqsOK
  <2>2. ASSUME NEW o \in Requests, o # r
        PROVE  Weaker(o) /\ ~req'[o].alone /\ req'[o].pc = req[o].pc
    <3>1. req'[o] = [req[o] EXCEPT !.alone = FALSE] /\ req[o] \in ReqRec
      BY <2>1, <2>2
    <3>2. ~req'[o].alone
      BY <3>1 DEF ReqRec
    <3> QED BY <3>1, <3>2 DEF Weaker, ReqRec
  <2>3. NewReq(r)
    BY <1>4 DEF Posted, NewReq
  <2>4. Lone'
    BY <1>4, <2>2 DEF Lone, Posted, Quiet
  <2> QED BY <1>2, <2>2, <2>3, <2>4, Calm
<1> QED BY <1>1, <1>3, <1>4 DEF Sends

(* A request that ends without a trace. *)
LEMMA EndSync ==
  ASSUME Types, SyncInv, NEW r \in Requests, Refuse(r) \/ Lose(r) \/ DeletionFails(r)
  PROVE  SyncInv'
<1>1. req \in [Requests -> ReqRec] /\ req[r].pc # "free"
  BY DEF Refuse, Lose, DeletionFails, Empty, Types, ReqsOK
<1>2. \A o \in Requests : o # r => req'[o] = req[o]
  BY <1>1, FailedDeletion DEF Refuse, Lose, Answered
<1>3. req'[r].pc = "free" \/ (Refused(r) /\ (req'[r].alone => req[r].alone))
  <2>1. CASE req' = [req EXCEPT ![r] = FreeReq]
    BY <1>1, <2>1 DEF FreeReq
  <2>2. CASE req' = Answered(r, FALSE, {})
    <3>1. req'[r] = [req[r] EXCEPT !.pc = "answered", !.accepted = FALSE, !.ids = {}]
      BY <1>1, <2>2 DEF Answered
    <3> QED BY <1>1, <3>1 DEF Refused, ReqRec
  <2>3. CASE DeletionFails(r) /\ req[r].kind = "submit"
    BY <1>1, <2>3, FailedDeletion DEF Refused
  <2> QED BY <2>1, <2>2, <2>3, FailedDeletion DEF Refuse, Lose
<1>4. \A o \in Requests : Weaker(o) \/ Refused(o)
  BY <1>2, <1>3 DEF Weaker
<1>5. Lone'
  <2>1. \A o \in Requests : o # r => req'[o].pc = "free" \/ (req[o].pc # "free" /\ (req'[o].alone => req[o].alone))
    BY <1>2
  <2> QED BY <1>1, <1>3, <2>1, LoneKept DEF SyncInv
<1>6. UNCHANGED <<sched, ended, clean, store, name>>
  BY DEF Refuse, Lose, DeletionFails
<1> QED BY <1>4, <1>5, <1>6, Calm, NothingFades
-----------------------------------------------------------------------------
(* A handler alone: any other request that claims to be alone is free.      *)
LEMMA OthersNotAlone ==
  ASSUME SyncInv, NEW r \in Requests, req[r].pc # "free"
  PROVE  \A o \in Requests : o # r /\ req[o].pc # "free" => ~req[o].alone
BY DEF SyncInv, Lone

(* Nothing is clean while notes are on their way. *)
LEMMA NotesAreDirty ==
  ASSUME SyncInv, NEW r \in Requests, req[r].pc # "free", req[r].kind # "list"
  PROVE  ~clean
BY DEF SyncInv, OnlyLists

LEMMA SaveSync ==
  ASSUME Types, SyncInv, NEW r \in Requests, SaveStep(r)
  PROVE  SyncInv'
<1>1. PICK saved \in SUBSET Notes, kept \in SUBSET Notes : Save(r, kept, saved)
  BY DEF SaveStep
<1>2. req[r].pc = "sent" /\ req[r].kind # "list"
  BY <1>1 DEF Save
<1>3. req[r] \in ReqRec /\ Asker(req[r]) \in Users /\ req \in [Requests -> ReqRec] /\ SchedOK
  BY <1>2, AskerOK DEF Types, ReqsOK
<1>4. ~clean'
  BY <1>1, <1>2, NotesAreDirty DEF Save
<1>5. PICK full \in BOOLEAN, b \in BOOLEAN :
        (full <=> saved = Listed(req[r].view)) /\ (b <=> saved # {})
  OBVIOUS
<1>6. req' = [req EXCEPT ![r] = [req[r] EXCEPT !.pc = "saved", !.ids = kept, !.full = full, !.accepted = b]]
  <2>1. full = (saved = Listed(req[r].view)) /\ b = (saved # {})
    BY <1>5
  <2> QED BY <1>1, <2>1 DEF Save
<1>7. /\ req'[r].pc = "saved" /\ req'[r].ids = kept /\ req'[r].full = full
      /\ req'[r].view = req[r].view /\ req'[r].user = req[r].user
      /\ (req'[r].alone => req[r].alone)
  BY <1>3, <1>6 DEF ReqRec
<1>8. \A o \in Requests : o # r => req'[o] = req[o]
  BY <1>3, <1>6
<1>9. Lone'
  BY <1>2, <1>7, <1>8, LoneKept DEF SyncInv
<1>10. full => Kept(req[r])'
  <2> SUFFICES ASSUME full PROVE Kept(req[r])'
    OBVIOUS
  <2>1. kept = Listed(req[r].view) /\ saved = kept
    BY <1>1, <1>5 DEF Save
  <2>2. Asker(req[r])' = Asker(req[r]) /\ Listed(req[r].view)' = Listed(req[r].view)
    BY <1>7 DEF Asker, Listed
  <2>3. \A n \in kept : sched'[Asker(req[r])][n] = [slot |-> req[r].view[n], daily |-> req[r].daily, st |-> "pending"]
    BY <1>1, <1>3, <2>1 DEF Save, SchedOK
  <2>4. \A n \in kept : [slot |-> req[r].view[n], daily |-> req[r].daily, st |-> "pending"] \in Entry
    BY <1>3, <2>1 DEF ReqRec, Times, Listed, Entry
  <2>5. ASSUME NEW n \in kept
        PROVE  /\ sched'[Asker(req[r])][n] # None /\ sched'[Asker(req[r])][n].slot = req[r].view[n]
               /\ sched'[Asker(req[r])][n].st = "pending"
    <3>1. PICK e \in Entry : e = [slot |-> req[r].view[n], daily |-> req[r].daily, st |-> "pending"]
      BY <2>4
    <3>2. sched'[Asker(req[r])][n] = e
      BY <2>3, <3>1
    <3>3. e.slot = req[r].view[n] /\ e.st = "pending"
      BY <3>1
    <3> QED BY <3>2, <3>3, NotesAssumption
  <2> QED BY <1>7, <2>1, <2>2, <2>5 DEF Kept
<1>11. Synced(req[r])'
  BY <1>7, <1>10 DEF Synced
<1>12. ASSUME NEW o \in Requests, o # r
       PROVE  Synced(req[o])'
  <2>1. req'[o] = req[o] /\ Synced(req[o]) /\ (req[o].pc # "free" => ~req[o].alone)
    BY <1>2, <1>8, <1>12, OthersNotAlone DEF SyncInv
  <2> QED BY <2>1 DEF Synced
<1> QED BY <1>4, <1>9, <1>11, <1>12 DEF SyncInv

(* A list is answered: it names what is still to come for its user. *)
LEMMA ListSync ==
  ASSUME Types, SyncInv, NEW r \in Requests, ListStep(r)
  PROVE  SyncInv'
<1>1. req[r].pc = "sent" /\ req[r].kind = "list" /\ UNCHANGED <<store, name, sched, ended>>
  BY Lists
<1>2. req[r] \in ReqRec /\ Asker(req[r]) \in Users /\ req \in [Requests -> ReqRec]
  BY <1>1, AskerOK, SMTT(30) DEF Types, ReqsOK
<1>3. PICK ids \in SUBSET Notes :
        /\ clean' = FALSE \/ (clean' = clean /\ ids = Listable(Asker(req[r])))
        /\ req' = [req EXCEPT ![r] = [req[r] EXCEPT !.pc = "answered", !.accepted = TRUE, !.ids = ids]]
  BY Lists DEF Answered
<1>4. /\ req'[r].pc = "answered" /\ req'[r].kind = "list" /\ req'[r].ids = ids
      /\ req'[r].user = req[r].user /\ (req'[r].alone => req[r].alone)
  BY <1>1, <1>2, <1>3 DEF ReqRec
<1>5. \A o \in Requests : o # r => req'[o] = req[o]
  BY <1>2, <1>3
<1>6. Lone'
  BY <1>1, <1>4, <1>5, LoneKept DEF SyncInv
<1>7. \A o \in Requests : Synced(req[o])'
  BY <1>1, <1>4, <1>5 DEF SyncInv, Synced, Kept, OthersGone, Asker, Listed
<1>8. clean' => OneUser' /\ Seen' /\ Scheduled' /\ \A o \in Requests : OnlyLists(req[o])'
  <2> SUFFICES ASSUME clean, ids = Listable(Asker(req[r]))
               PROVE  OneUser' /\ Seen' /\ Scheduled' /\ \A o \in Requests : OnlyLists(req[o])'
    BY <1>3
  <2>1. OneUser /\ Seen /\ Scheduled /\ \A o \in Requests : OnlyLists(req[o])
    BY DEF SyncInv
  <2>2. \A n : Coming(n)' <=> Coming(n)
    BY <1>1 DEF Coming, Mine
  <2>3. OneUser' /\ Seen' /\ Scheduled'
    BY <1>1, <2>1 DEF OneUser, Seen, Scheduled, Coming, Mine
  <2>4. OnlyLists(req[r])'
    <3>1. req[r].user = name => Asker(req[r]) = name
      BY <2>1, NotesAssumption DEF OneUser, Asker
    <3>2. req[r].user = name => \A n \in Notes : Coming(n) => n \in ids
      BY <3>1 DEF Coming, Listable
    <3> QED BY <1>1, <1>4, <2>2, <3>2 DEF OnlyLists
  <2>5. \A o \in Requests : o # r => OnlyLists(req[o])'
    BY <1>1, <1>5, <2>1, <2>2 DEF OnlyLists
  <2> QED BY <2>3, <2>4, <2>5
<1> QED BY <1>6, <1>7, <1>8 DEF SyncInv

(* A full sync of what localStorage holds brings both sides together. *)
LEMMA Together ==
  ASSUME store' \in Rows, NEW q \in ReqRec, q.user \in Users, q.user = name',
         q.view = View(store'), Kept(q)', OthersGone(q)'
  PROVE  Seen' /\ Scheduled'
<1>1. Asker(q) = name' /\ Asker(q)' = name'
  BY NotesAssumption DEF Asker
<1>2. \A n \in Notes : /\ store'[n] # None => q.view[n] = store'[n].slot /\ q.view[n] # None
                       /\ store'[n] = None => q.view[n] = None
  BY NotesAssumption DEF View, Rows, Row
<1>3. \A n \in Notes : n \in q.ids <=> store'[n] # None
  BY <1>2 DEF Kept, Listed
<1>4. \A n \in q.ids :
        /\ sched'[name'][n] # None => sched'[name'][n].slot = q.view[n]
        /\ sched'[name'][n] = None \/ sched'[name'][n].st = "cancelled" => <<name', n>> \in ended'
  BY <1>1 DEF Kept
<1>5. \A n \in Notes \ q.ids : sched'[name'][n] = None
  BY <1>1 DEF OthersGone
<1> QED BY <1>2, <1>3, <1>4, <1>5 DEF Seen, Scheduled, Coming, Mine

(* The rows of a user after the others were deleted. *)
LEMMA DeletedOthers ==
  ASSUME Types, SyncInv, NEW r \in Requests, DeleteOthers(r), req[r].alone,
         req[r].full \/ Empty(req[r])
  PROVE  Kept(req[r]) /\ \A q : q = req[r] => Kept(q)' /\ OthersGone(q)'
<1>1. req[r].pc # "free" /\ Synced(req[r])
  BY DEF DeleteOthers, Empty, SyncInv
<1>2. req[r] \in ReqRec /\ Asker(req[r]) \in Users /\ SchedOK
  BY <1>1, AskerOK DEF Types
<1>3. Kept(req[r])
  <2>1. CASE Empty(req[r])
    BY <1>1, <2>1 DEF Empty, Synced, Kept
  <2>2. CASE req[r].pc = "saved"
    BY <1>1, <2>2 DEF Synced, Empty
  <2> QED BY <2>1, <2>2 DEF DeleteOthers, Empty
<1>4. PICK q : q = req[r]
  OBVIOUS
<1>5. \A n \in Notes : sched'[Asker(q)][n] = IF n \in q.ids THEN sched[Asker(q)][n] ELSE None
  BY <1>2, <1>4 DEF DeleteOthers, SchedOK
<1>6. Asker(q)' = Asker(q) /\ ended' = ended /\ q.ids \subseteq Notes
  BY <1>2, <1>4 DEF Asker, DeleteOthers, ReqRec
<1>7. Kept(q)
  BY <1>3, <1>4
<1>8. Kept(q)' /\ OthersGone(q)'
  BY <1>5, <1>6, <1>7 DEF Kept, OthersGone, Listed
<1> QED BY <1>3, <1>4, <1>8

LEMMA DeleteOthersSync ==
  ASSUME Types, SyncInv, NEW r \in Requests, DeleteOthers(r)
  PROVE  SyncInv'
<1>1. req[r].pc # "free" /\ req[r].kind # "list" /\ UNCHANGED <<store, name>>
  BY DEF DeleteOthers, Empty
<1>2. /\ req[r] \in ReqRec /\ req \in [Requests -> ReqRec] /\ store \in Rows
      /\ req[r].user \in Users
  BY <1>1, AskerOK DEF Types, ReqsOK, BrowserOK
<1>3. \A o \in Requests : o # r => req'[o] = req[o] /\ (req[o].pc # "free" => ~req[o].alone)
  BY <1>1, <1>2, OthersNotAlone DEF DeleteOthers, Answered
<1>4. \A o \in Requests : o # r => Synced(req[o])'
  BY <1>3 DEF SyncInv, Synced
<1>5. CASE req[r].kind = "submit"
  <2>1. PICK b \in BOOLEAN : b = (req[r].accepted \/ Empty(req[r]))
    BY <1>2 DEF ReqRec, Empty
  <2>2. req'[r] = [req[r] EXCEPT !.pc = "answered", !.accepted = b, !.ids = req[r].ids]
    BY <1>2, <1>5, <2>1 DEF DeleteOthers, Answered
  <2>3. /\ req'[r].pc = "answered" /\ req'[r].alone = req[r].alone /\ req'[r].full = req[r].full
        /\ req'[r].ids = req[r].ids /\ req'[r].view = req[r].view /\ req'[r].user = req[r].user
    BY <1>2, <2>2 DEF ReqRec
  <2>4. ~clean'
    BY <1>1, <1>5, NotesAreDirty DEF DeleteOthers
  <2>5. Lone'
    BY <1>1, <1>3, <2>3, LoneKept DEF SyncInv
  <2>6. ASSUME req[r].alone, req[r].full
        PROVE  Kept(req[r])' /\ OthersGone(req[r])'
    <3>1. PICK q : q = req[r]
      OBVIOUS
    <3>2. Kept(q)' /\ OthersGone(q)'
      BY <2>6, <3>1, DeletedOthers
    <3>3. req'[r].ids = q.ids /\ req'[r].view = q.view /\ req'[r].user = q.user
      BY <2>3, <3>1
    <3> QED BY <3>2, <3>3 DEF Kept, OthersGone, Asker, Listed
  <2>7. Synced(req[r])'
    BY <2>3, <2>6 DEF Synced
  <2> QED BY <1>4, <2>4, <2>5, <2>7 DEF SyncInv
<1>6. CASE req[r].kind # "submit"
  <2>1. req'[r] = FreeReq
    BY <1>2, <1>6 DEF DeleteOthers
  <2>2. req'[r].pc = "free"
    BY <2>1, FreeReqOK
  <2>3. Synced(req[r])'
    BY <2>2 DEF Synced
  <2>4. Lone'
    BY <1>3, <2>2, LoneKept DEF SyncInv
  <2>5. ASSUME clean'
        PROVE  OneUser' /\ Seen' /\ Scheduled' /\ \A o \in Requests : OnlyLists(req[o])'
    <3>1. /\ req[r].alone /\ (req[r].full \/ Empty(req[r])) /\ req[r].user = name
          /\ req[r].view = View(store)
          /\ \A n \in Notes : store[n] # None => store[n].user \in {None, name}
      BY <1>6, <2>5 DEF DeleteOthers
    <3>2. \A o \in Requests : req'[o].pc = "free"
      BY <1>1, <1>3, <2>2, <3>1 DEF SyncInv, Lone
    <3>3. OneUser'
      BY <1>1, <1>2, <3>1 DEF OneUser
    <3>4. PICK q \in ReqRec : q = req[r]
      BY <1>2
    <3>5. Kept(q)' /\ OthersGone(q)'
      BY <3>1, <3>4, DeletedOthers
    <3>6. q.user \in Users /\ q.user = name' /\ q.view = View(store') /\ store' \in Rows
      BY <1>1, <1>2, <3>1, <3>4
    <3>7. Seen' /\ Scheduled'
      BY <3>5, <3>6, Together
    <3> QED BY <3>2, <3>3, <3>7 DEF OnlyLists
  <2> QED BY <1>4, <2>3, <2>4, <2>5 DEF SyncInv
<1> QED BY <1>5, <1>6
-----------------------------------------------------------------------------
(* The answers. *)
LEMMA FreedSync ==
  ASSUME Types, SyncInv, NEW r \in Requests, req' = [req EXCEPT ![r] = FreeReq]
  PROVE  Lone' /\ req'[r].pc = "free" /\ \A o \in Requests : o # r => req'[o] = req[o]
<1>1. \A o \in Requests : o # r => req'[o] = req[o]
  BY DEF Types, ReqsOK
<1>2. req'[r].pc = "free"
  BY FreeReqOK DEF Types, ReqsOK
<1> QED BY <1>1, <1>2, LoneKept DEF SyncInv

LEMMA MarkedView ==
  ASSUME store \in Rows, NEW user \in Users
  PROVE  /\ \A n \in Notes : Marked(user)[n] # None => Marked(user)[n].user = user
         /\ View(Marked(user)) = View(store)
<1>1. ASSUME NEW n \in Notes
      PROVE  /\ Marked(user)[n] # None => store[n] # None /\ Marked(user)[n].user = user
             /\ View(Marked(user))[n] = View(store)[n]
  <2>1. CASE store[n] = None
    BY <2>1 DEF Marked, View
  <2>2. CASE store[n] # None
    <3>1. store[n] \in Row
      BY <2>2 DEF Rows
    <3>2. PICK row : row = [store[n] EXCEPT !.user = user]
      OBVIOUS
    <3>3. row \in Row /\ row.user = user /\ row.slot = store[n].slot
      BY <3>1, <3>2 DEF Row
    <3>4. Marked(user)[n] = row
      BY <2>2, <3>2 DEF Marked
    <3>5. View(Marked(user))[n] = IF row = None THEN None ELSE row.slot
      BY <3>4 DEF View
    <3> QED BY <2>2, <3>3, <3>4, <3>5, NotesAssumption DEF View
  <2> QED BY <2>1, <2>2
<1> QED BY <1>1 DEF View

LEMMA ReceiveSubmitSync ==
  ASSUME Types, SyncInv, NEW r \in Requests, ReceiveSubmit(r)
  PROVE  SyncInv'
<1>1. /\ req[r].pc = "answered" /\ req[r].kind = "submit" /\ UNCHANGED <<sched, ended>>
      /\ req' = [req EXCEPT ![r] = FreeReq]
  BY DEF ReceiveSubmit
<1>2. Lone' /\ req'[r].pc = "free" /\ \A o \in Requests : o # r => req'[o] = req[o]
  BY <1>1, FreedSync
<1>3. ~clean /\ Types' /\ store \in Rows
  BY <1>1, NotesAreDirty, ReceiveSubmitTypes DEF Types, BrowserOK
<1>4. ASSUME NEW o \in Requests
      PROVE  Synced(req[o])'
  <2>1. CASE o = r
    BY <1>2, <2>1 DEF Synced
  <2>2. CASE o # r
    BY <1>1, <1>2, <2>2 DEF SyncInv, Synced, Kept, OthersGone, Asker, Listed
  <2> QED BY <2>1, <2>2
<1>5. ASSUME clean'
      PROVE  OneUser' /\ Seen' /\ Scheduled' /\ \A o \in Requests : OnlyLists(req[o])'
  <2>1. /\ req[r].accepted /\ req[r].alone /\ req[r].full /\ req[r].view = View(store)
        /\ name' = req[r].user /\ store' = Marked(req[r].user)
    BY <1>3, <1>5 DEF ReceiveSubmit
  <2>2. \A o \in Requests : req'[o].pc = "free"
    BY <1>1, <1>2, <2>1 DEF SyncInv, Lone
  <2>3. PICK q \in ReqRec : q = req[r]
    BY <1>1, AskerOK
  <2>4. q.user \in Users
    BY <1>1, <2>3, AskerOK
  <2>5. Kept(q) /\ OthersGone(q)
    BY <1>1, <2>1, <2>3 DEF SyncInv, Synced
  <2>6. Kept(q)' /\ OthersGone(q)'
    BY <1>1, <2>5 DEF Kept, OthersGone, Asker, Listed
  <2>7. View(Marked(q.user)) = View(store) /\ store' = Marked(q.user)
    BY <1>3, <2>1, <2>3, <2>4, MarkedView
  <2>8. q.view = View(store') /\ q.user = name'
    BY <2>1, <2>3, <2>7
  <2>9. store' \in Rows
    BY <1>3 DEF Types, BrowserOK
  <2>10. Seen' /\ Scheduled'
    BY <2>4, <2>6, <2>8, <2>9, Together
  <2>11. \A n \in Notes : store'[n] # None => store'[n].user = name'
    BY <1>3, <2>4, <2>7, <2>8, MarkedView
  <2>12. OneUser'
    BY <2>4, <2>8, <2>11 DEF OneUser
  <2> QED BY <2>2, <2>10, <2>12 DEF OnlyLists
<1> QED BY <1>2, <1>4, <1>5 DEF SyncInv

LEMMA ReceiveListSync ==
  ASSUME Types, SyncInv, NEW r \in Requests, ReceiveList(r)
  PROVE  SyncInv'
<1>1. /\ req[r].pc = "answered" /\ req[r].kind = "list" /\ UNCHANGED <<name, sched, clean, ended>>
      /\ req' = [req EXCEPT ![r] = FreeReq]
  BY DEF ReceiveList
<1>2. Lone' /\ req'[r].pc = "free" /\ \A o \in Requests : o # r => req'[o] = req[o]
  BY <1>1, FreedSync
<1>3. ASSUME NEW o \in Requests
      PROVE  Synced(req[o])'
  <2>1. CASE o = r
    BY <1>2, <2>1 DEF Synced
  <2>2. CASE o # r
    BY <1>1, <1>2, <2>2 DEF SyncInv, Synced, Kept, OthersGone, Asker, Listed
  <2> QED BY <2>1, <2>2
<1>4. ASSUME clean'
      PROVE  OneUser' /\ Seen' /\ Scheduled' /\ \A o \in Requests : OnlyLists(req[o])'
  <2>1. OneUser /\ Seen /\ Scheduled /\ \A o \in Requests : OnlyLists(req[o])
    BY <1>1, <1>4 DEF SyncInv
  <2>2. \A n \in Notes : store'[n] # None => store'[n] = store[n] /\ store[n] # None
    BY DEF ReceiveList, Types, BrowserOK, Rows
  <2>3. \A n \in Notes : Coming(n)' <=> Coming(n)
    BY <1>1 DEF Coming, Mine
  <2>4. ASSUME NEW n \in Notes, Coming(n)
        PROVE  store'[n] = store[n]
    <3>1. CASE store' = store
      BY <3>1
    <3>2. CASE /\ req[r].accepted /\ req[r].user # None
               /\ store' = [m \in Notes |-> IF m \in Dropped(req[r]) THEN None ELSE store[m]]
      <4>1. req[r].user = name => n \in req[r].ids
        BY <1>1, <2>1, <2>4, <3>2 DEF OnlyLists
      <4>2. n \notin Dropped(req[r])
        BY <2>1, <3>2, <4>1 DEF Dropped, OneUser
      <4> QED BY <3>2, <4>2
    <3> QED BY <3>1, <3>2 DEF ReceiveList
  <2>5. Seen'
    BY <1>1, <2>1, <2>3, <2>4 DEF Seen, Coming, Mine
  <2>6. OneUser' /\ Scheduled'
    BY <1>1, <2>1, <2>2, <2>3 DEF OneUser, Scheduled
  <2>7. \A o \in Requests : OnlyLists(req[o])'
    BY <1>1, <1>2, <2>1, <2>3 DEF OnlyLists
  <2> QED BY <2>5, <2>6, <2>7
<1> QED BY <1>2, <1>3, <1>4 DEF SyncInv

LEMMA NextSync == Types /\ SyncInv /\ [Next]_vars => SyncInv'
BY NextSteps, RestSync, CloseSync, PostSync, SaveSync, EndSync, DeleteOthersSync, ListSync,
   ReceiveSubmitSync, ReceiveListSync

(* After a sync that ran alone and of which no statement failed, and until  *)
(* the notes change again, nothing is sent that the user does not see:      *)
(* whatever overlapping or failing syncs of SaveNote, ToggleOff,            *)
(* DeleteEntry and Submit had left behind before.                           *)
THEOREM SyncShowsAll == Spec => []ScheduledIsSeen
<1>1. SyncInv => ScheduledIsSeen
  BY DEF SyncInv, Seen, Mine, ScheduledIsSeen
<1> QED BY InitTypes, NextTypes, InitSync, NextSync, <1>1, PTL DEF Spec

(* ... and every note he sees is scheduled or was sent, unless its row was  *)
(* cancelled, or sent and purged; no other is dropped by a list that comes  *)
(* from now on.                                                             *)
THEOREM SyncSchedulesAll == Spec => []SeenIsScheduled
<1>1. Types /\ SyncInv => SeenIsScheduled
  <2> SUFFICES ASSUME Types, SyncInv, clean PROVE SeenIsScheduled
    BY DEF SeenIsScheduled
  <2>1. OneUser /\ Scheduled /\ \A r \in Requests : OnlyLists(req[r])
    BY DEF SyncInv
  <2>2. ASSUME NEW r \in Requests, req[r].kind = "list", req[r].pc = "answered", req[r].accepted,
               NEW n \in Dropped(req[r])
        PROVE  <<name, n>> \in ended
    <3>1. n \in Notes /\ store[n] # None /\ store[n].user = req[r].user /\ n \notin req[r].ids
      BY <2>2 DEF Dropped
    <3>2. req[r].user = name
      BY <2>1, <2>2, <3>1, AskerOK, NotesAssumption DEF OneUser
    <3>3. ~Coming(n)
      BY <2>1, <2>2, <3>1, <3>2 DEF OnlyLists
    <3> QED BY <2>1, <3>1, <3>3 DEF Scheduled
  <2> QED BY <2>1, <2>2 DEF Scheduled, SeenIsScheduled
<1> QED BY InitTypes, NextTypes, InitSync, NextSync, <1>1, PTL DEF Spec
=============================================================================
