------------------------------- MODULE Notes -------------------------------
(* One browser of angels-web and the reminders the scheduler keeps for it.  *)
(* The notes live in localStorage; the angels' pages (TimeToggle) and the   *)
(* bell page (TimeTable) change them and send the WHOLE list with           *)
(* "sync": true through app/api/schedule/route.js; the bell page asks for   *)
(* the scheduled ids and drops the connected notes that are not among them. *)
(* Every fetch is a request of its own: they overtake each other and their  *)
(* answers find a localStorage and a page that have moved on.               *)
(* The scheduler is reduced to what a request saves, lists and deletes;     *)
(* module Scheduler has its rows, its dispatcher and its timers.            *)
EXTENDS Naturals, FiniteSets

CONSTANTS
  Notes,       \* the note_item_ids: one per toggle of an angel's page
  Slots,       \* the times of day
  Users,       \* normalised Telegram user names
  Typed,       \* what may be typed for one, the normalised spelling among them
  Lower,       \* [Typed -> Users]: normalizeUsername
  Registered,  \* the users who have sent /start to the bot
  Requests,    \* bounds the requests under way
  MaxActs,     \* bounds what the user and the administrator do
  MaxFaults,   \* bounds lost requests, refused notes and failing statements
  None

\* a note of localStorage; user: schedulerUsername, set together with
\* notifyTelegram, None without it
Row == [slot : Slots, user : Users \union {None}]

\* a row of the scheduler; what becomes of it is its status
Entry == [slot : Slots, daily : BOOLEAN, st : {"pending", "sent", "cancelled"}]

ASSUME NotesAssumption ==
  /\ Users \subseteq Typed /\ Registered \subseteq Users
  /\ Lower \in [Typed -> Users] /\ \A u \in Users : Lower[u] = u
  /\ None \notin Slots \union Typed \union Row \union Entry
  /\ MaxActs \in Nat /\ MaxFaults \in Nat

VARIABLES
  store,   \* localStorage "timeData"
  name,    \* localStorage "schedulerTelegramUsername"
  daily,   \* localStorage "schedulerDailyNotify"
  backup,  \* the last downloaded JSON file
  page,    \* the React state of the bell page
  req,     \* the requests under way
  sched,   \* chat.scheduler_notifications: the rows of each user
  acts, faults,
  clean,   \* history: the last sync ran alone, none of its statements failed, it is
           \* still current, and no list was broken off since
  ended    \* history: rows cancelled or purged since a request saved them

vars == <<store, name, daily, backup, page, req, sched, acts, faults, clean, ended>>
-----------------------------------------------------------------------------
Times == [Notes -> Slots \union {None}]

\* the rows of a table, and the payload of a sync: the id and time of each note
View(rows) == [n \in Notes |-> IF rows[n] = None THEN None ELSE rows[n].slot]
Listed(view) == {n \in Notes : view[n] # None}

ClosedPage == [open |-> FALSE, shown |-> [n \in Notes |-> None], typed |-> None,
               daily |-> FALSE, modal |-> FALSE, busy |-> FALSE]

\* mine: sent by the page that is open now; ids: what the server remembered
\* (sync) or found (list); full: no statement of it failed; alone: no other request
\* was under way with it
FreeReq == [pc |-> "free", kind |-> "sync", user |-> None, view |-> [n \in Notes |-> None],
            daily |-> FALSE, mine |-> FALSE, ids |-> {}, full |-> FALSE,
            accepted |-> FALSE, alone |-> FALSE]

Quiet == \A r \in Requests : req[r].pc = "free"

\* the first visit
Fresh ==
  /\ store = [n \in Notes |-> None] /\ name = None /\ daily = FALSE
  /\ sched = [u \in Users |-> [n \in Notes |-> None]]
  /\ clean = FALSE

\* a later visit: a username was stored, and the last sync ran alone.  A note
\* saved since the last submission has no notifyTelegram.
Connected ==
  /\ name \in Registered /\ daily \in BOOLEAN
  /\ store \in [Notes -> [slot : Slots, user : {None, name}] \union {None}]
  /\ sched = [u \in Users |-> [n \in Notes |->
       IF u # name \/ store[n] = None THEN None
       ELSE [slot |-> store[n].slot, daily |-> daily, st |-> "pending"]]]
  /\ clean = TRUE

Init ==
  /\ Fresh \/ Connected
  /\ backup = [n \in Notes |-> None]
  /\ page = ClosedPage
  /\ req = [r \in Requests |-> FreeReq]
  /\ acts = 0 /\ faults = 0 /\ ended = {}

Act   == acts < MaxActs /\ acts' = acts + 1 /\ UNCHANGED faults
Fault == faults < MaxFaults /\ faults' = faults + 1 /\ UNCHANGED acts

\* fetch: the request leaves, next to those already under way
Call(kind, user, view, day) ==
  [FreeReq EXCEPT !.pc = "sent", !.kind = kind, !.user = user, !.view = view,
                  !.daily = day, !.mine = (kind # "sync")]

Post(r, call) ==
  /\ req[r].pc = "free"
  /\ req' = [q \in Requests |-> IF q = r THEN [call EXCEPT !.alone = Quiet]
                                ELSE [req[q] EXCEPT !.alone = FALSE]]

Ask(r, typed) == Post(r, Call("list", typed, [n \in Notes |-> None], FALSE))

\* syncSchedulerFromLocalStorage: nothing is sent before a username is stored
SyncStore(r) ==
  IF name = None THEN UNCHANGED req ELSE Post(r, Call("sync", name, View(store'), daily))
-----------------------------------------------------------------------------
(* The angels' pages: TimeToggle. *)

\* handleSave: a note saved before keeps its notifyTelegram flag
SaveNote(r, n, s) ==
  /\ Act
  /\ store' = [store EXCEPT ![n] = [slot |-> s, user |-> IF @ = None THEN None ELSE @.user]]
  /\ SyncStore(r)
  /\ clean' = FALSE
  /\ UNCHANGED <<name, daily, backup, page, sched, ended>>

\* handleToggle, switched off: the list is sent even if the note was not in it
ToggleOff(r, n) ==
  /\ Act
  /\ store' = [store EXCEPT ![n] = None]
  /\ SyncStore(r)
  /\ clean' = FALSE
  /\ UNCHANGED <<name, daily, backup, page, sched, ended>>
-----------------------------------------------------------------------------
(* The bell page: TimeTable. *)

\* the effects of the first render: show the notes, and ask for the scheduled
\* ids of the stored username
OpenTable(r) ==
  /\ Act /\ ~page.open
  /\ page' = [ClosedPage EXCEPT !.open = TRUE, !.shown = View(store), !.typed = name, !.daily = daily]
  /\ IF name = None THEN UNCHANGED req ELSE Ask(r, name)
  /\ UNCHANGED <<store, name, daily, backup, sched, clean, ended>>

\* the user leaves the page; its requests go on, and what they still set is
\* localStorage, not the page that is opened next
CloseTable ==
  /\ Act /\ page.open
  /\ page' = ClosedPage
  /\ req' = [r \in Requests |-> [req[r] EXCEPT !.mine = FALSE]]
  /\ UNCHANGED <<store, name, daily, backup, sched, clean, ended>>

\* setTelegramUsername: the effect on telegramUsername asks for the ids
Retype(r, typed, p) ==
  /\ page' = [p EXCEPT !.typed = typed]
  /\ IF typed = page.typed \/ typed = None THEN UNCHANGED req ELSE Ask(r, typed)

OpenModal(r) ==
  /\ Act /\ page.open /\ ~page.modal /\ Listed(page.shown) # {}
  /\ Retype(r, IF name = None THEN page.typed ELSE name, [page EXCEPT !.modal = TRUE])
  /\ UNCHANGED <<store, name, daily, backup, sched, clean, ended>>

Type(r, typed) ==
  /\ Act /\ page.modal /\ ~page.busy /\ typed # page.typed
  /\ Retype(r, typed, page)
  /\ UNCHANGED <<store, name, daily, backup, sched, clean, ended>>

CloseModal ==
  /\ Act /\ page.modal /\ ~page.busy
  /\ page' = [page EXCEPT !.modal = FALSE]
  /\ UNCHANGED <<store, name, daily, backup, req, sched, clean, ended>>

SetDaily ==
  /\ Act /\ page.open /\ ~page.modal
  /\ page' = [page EXCEPT !.daily = ~@]
  /\ UNCHANGED <<store, name, daily, backup, req, sched, clean, ended>>

\* deleteEntry: the rest of localStorage is sent for the typed or the stored
\* username, with the toggle as it stands on the page
DeleteEntry(r, n) ==
  LET user == IF page.typed = None THEN name ELSE Lower[page.typed] IN
  /\ Act /\ page.open /\ ~page.modal /\ page.shown[n] # None
  /\ store' = [store EXCEPT ![n] = None]
  /\ page' = [page EXCEPT !.shown = View(store')]
  /\ IF user = None THEN UNCHANGED req ELSE Post(r, Call("sync", user, View(store'), page.daily))
  /\ clean' = FALSE
  /\ UNCHANGED <<name, daily, backup, sched, ended>>

\* faulty: the username is sent as it was typed
SubmitAsTyped(r) ==
  /\ Act /\ page.modal /\ ~page.busy /\ page.typed # None /\ Listed(page.shown) # {}
  /\ page' = [page EXCEPT !.busy = TRUE]
  /\ Post(r, Call("submit", page.typed, page.shown, page.daily))
  /\ clean' = FALSE
  /\ UNCHANGED <<store, name, daily, backup, sched, ended>>

\* handleScheduleSubmit up to its fetch: the payload is what the page shows
Submit(r) ==
  /\ Act /\ page.modal /\ ~page.busy /\ page.typed # None /\ Listed(page.shown) # {}
  /\ page' = [page EXCEPT !.busy = TRUE]
  /\ Post(r, Call("submit", Lower[page.typed], page.shown, page.daily))
  /\ clean' = FALSE
  /\ UNCHANGED <<store, name, daily, backup, sched, ended>>

\* the submitted notes are those of the page, the marked ones those of
\* localStorage when the answer comes
Marked(user) == [n \in Notes |-> IF store[n] = None THEN None ELSE [store[n] EXCEPT !.user = user]]

\* ... and from its answer on; "finally" ends the submission in every case
ReceiveSubmit(r) ==
  LET q == req[r]  p == [page EXCEPT !.busy = FALSE] IN
  /\ q.pc = "answered" /\ q.kind = "submit"
  /\ req' = [req EXCEPT ![r] = FreeReq]
  /\ IF q.accepted
     THEN /\ name' = q.user /\ daily' = q.daily /\ store' = Marked(q.user)
          /\ page' = IF q.mine THEN [p EXCEPT !.modal = FALSE, !.shown = View(store')] ELSE page
          /\ clean' = (q.alone /\ q.full /\ q.view = View(store))
     ELSE /\ page' = IF q.mine THEN p ELSE page
          /\ UNCHANGED <<name, daily, store, clean>>
  /\ UNCHANGED <<backup, sched, acts, faults, ended>>

\* the effect on telegramUsername, from its answer on.  The typed spelling is
\* compared with the normalised one of the row.
Dropped(q) == {n \in Notes : store[n] # None /\ store[n].user = q.user /\ n \notin q.ids}

ReceiveList(r) ==
  LET q == req[r]  gone == Dropped(q) IN
  /\ q.pc = "answered" /\ q.kind = "list"
  /\ req' = [req EXCEPT ![r] = FreeReq]
  /\ IF q.accepted /\ q.user # None /\ gone # {}
     THEN /\ store' = [n \in Notes |-> IF n \in gone THEN None ELSE store[n]]
          /\ page' = IF q.mine THEN [page EXCEPT !.shown = View(store')] ELSE page
     ELSE UNCHANGED <<store, page>>
  /\ UNCHANGED <<name, daily, backup, sched, acts, faults, clean, ended>>

\* downloadJson, and UploadData on its own page: the file replaces the notes,
\* flags included, and nothing is sent
Download ==
  /\ Act /\ page.open /\ ~page.modal /\ Listed(page.shown) # {} /\ store # backup
  /\ backup' = store
  /\ UNCHANGED <<store, name, daily, page, req, sched, clean, ended>>

Upload ==
  /\ Act /\ Listed(View(backup)) # {} /\ store # backup
  /\ store' = backup
  /\ clean' = FALSE
  /\ UNCHANGED <<name, daily, backup, page, req, sched, ended>>
-----------------------------------------------------------------------------
(* The scheduler, and what may happen to a request. *)

\* the user, as lookupUserTelegramID finds it
Asker(q) == Lower[q.user]
Known(q) == Asker(q) \in Registered

Answered(r, accepted, ids) ==
  [req EXCEPT ![r] = [@ EXCEPT !.pc = "answered", !.accepted = accepted, !.ids = ids]]

\* a user the bot does not know is refused, as a list or as notes
Refuse(r) ==
  /\ req[r].pc = "sent" /\ ~Known(req[r])
  /\ req' = IF req[r].kind = "sync" THEN [req EXCEPT ![r] = FreeReq] ELSE Answered(r, FALSE, {})
  /\ UNCHANGED <<store, name, daily, backup, page, sched, acts, faults, clean, ended>>

\* faulty: the ids to keep are not collected
SaveForgetsIds(r, kept, saved) ==
  LET q == req[r]  want == Listed(q.view) IN
  /\ q.pc = "sent" /\ q.kind # "list" /\ Known(q) /\ want # {} /\ kept = want /\ saved = want
  /\ sched' = [sched EXCEPT ![Asker(q)] = [n \in Notes |->
       IF n \in want THEN [slot |-> q.view[n], daily |-> q.daily, st |-> "pending"] ELSE @[n]]]
  /\ req' = [req EXCEPT ![r] = [@ EXCEPT !.pc = "saved", !.full = TRUE, !.accepted = TRUE]]
  /\ ended' = ended \ ({Asker(q)} \X want)
  /\ UNCHANGED <<store, name, daily, backup, page, acts, faults, clean>>

\* ProcessFromNote, its loop: a note whose text could not be had is left out of
\* the ids to keep, one whose insert failed is among them but has no new row.
\* What is saved is pending again, whatever had become of it.
Save(r, kept, saved) ==
  LET q == req[r]  want == Listed(q.view) IN
  /\ q.pc = "sent" /\ q.kind # "list" /\ Known(q) /\ want # {}
  /\ saved \subseteq kept /\ kept \subseteq want
  /\ IF saved = want THEN UNCHANGED <<acts, faults>> ELSE Fault
  /\ sched' = [sched EXCEPT ![Asker(q)] = [n \in Notes |->
       IF n \in saved THEN [slot |-> q.view[n], daily |-> q.daily, st |-> "pending"] ELSE @[n]]]
  /\ req' = [req EXCEPT ![r] = [@ EXCEPT !.pc = "saved", !.ids = kept, !.full = (saved = want),
                                         !.accepted = (saved # {})]]
  /\ ended' = ended \ ({Asker(q)} \X saved)
  /\ UNCHANGED <<store, name, daily, backup, page, clean>>

Empty(q) == q.pc = "sent" /\ Listed(q.view) = {}

\* ... and its end: with sync every other note of the user is deleted; with no
\* notes that is all it does.  A sync that nobody waits for is over.
DeleteOthers(r) ==
  LET q == req[r] IN
  /\ q.kind # "list" /\ (q.pc = "saved" \/ Empty(q)) /\ Known(q)
  /\ sched' = [sched EXCEPT ![Asker(q)] = [n \in Notes |-> IF n \in q.ids THEN @[n] ELSE None]]
  /\ IF q.kind = "submit"
     THEN /\ req' = Answered(r, q.accepted \/ Empty(q), q.ids)
          /\ UNCHANGED clean
     ELSE /\ req' = [req EXCEPT ![r] = FreeReq]
          /\ clean' = (/\ q.alone /\ (q.full \/ Empty(q)) /\ q.user = name /\ q.view = View(store)
                       /\ \A n \in Notes : store[n] # None => store[n].user \in {None, name})
  /\ UNCHANGED <<store, name, daily, backup, page, acts, faults, ended>>

\* the DELETE's error is discarded: the answer is as if it had been done
DeletionFails(r) ==
  LET q == req[r] IN
  /\ q.kind # "list" /\ (q.pc = "saved" \/ Empty(q)) /\ Known(q) /\ Fault
  /\ req' = [req EXCEPT ![r] =
       IF q.kind # "submit" THEN FreeReq
       ELSE [q EXCEPT !.pc = "answered", !.full = FALSE, !.accepted = q.accepted \/ Empty(q)]]
  /\ UNCHANGED <<store, name, daily, backup, page, sched, clean, ended>>

\* faulty: a reminder that was sent is not listed
ListPending(r) ==
  LET rows == sched[Asker(req[r])] IN
  /\ req[r].pc = "sent" /\ req[r].kind = "list" /\ Known(req[r])
  /\ req' = Answered(r, TRUE, {n \in Notes : rows[n] # None /\ rows[n].st = "pending"})
  /\ UNCHANGED <<store, name, daily, backup, page, sched, acts, faults, clean, ended>>

Listable(u) == {n \in Notes : sched[u][n] # None /\ sched[u][n].st # "cancelled"}

\* handleList
ListRows(r) ==
  /\ req[r].pc = "sent" /\ req[r].kind = "list" /\ Known(req[r])
  /\ req' = Answered(r, TRUE, Listable(Asker(req[r])))
  /\ UNCHANGED <<store, name, daily, backup, page, sched, acts, faults, clean, ended>>

\* the loop over the rows ends at an error as at their end: the ids read so far
\* are the answer
ListBreaksOff(r, ids) ==
  /\ req[r].pc = "sent" /\ req[r].kind = "list" /\ Known(req[r]) /\ Fault
  /\ ids \subseteq Listable(Asker(req[r])) /\ ids # Listable(Asker(req[r]))
  /\ req' = Answered(r, TRUE, ids)
  /\ clean' = FALSE
  /\ UNCHANGED <<store, name, daily, backup, page, sched, ended>>

\* faulty: the error is caught without "finally"
LoseQuietly(r) ==
  /\ req[r].pc \in {"sent", "answered"} /\ Fault
  /\ req' = [req EXCEPT ![r] = FreeReq]
  /\ UNCHANGED <<store, name, daily, backup, page, sched, clean, ended>>

\* the request does not reach the scheduler, or its answer the browser: the
\* page reports an error or says nothing
Lose(r) ==
  /\ req[r].pc \in {"sent", "answered"} /\ Fault
  /\ req' = [req EXCEPT ![r] = FreeReq]
  /\ page' = IF req[r].kind = "submit" /\ req[r].mine THEN [page EXCEPT !.busy = FALSE] ELSE page
  /\ UNCHANGED <<store, name, daily, backup, sched, clean, ended>>

\* the dispatcher sends a due row; a daily one is due again the next day
Deliver(u, n) ==
  /\ sched[u][n] # None /\ sched[u][n].st = "pending"
  /\ sched' = [sched EXCEPT ![u][n].st = IF sched[u][n].daily THEN "pending" ELSE "sent"]
  /\ UNCHANGED <<store, name, daily, backup, page, req, acts, faults, clean, ended>>

\* an hour after it was sent a row is purged
Purge(u, n) ==
  /\ sched[u][n] # None /\ sched[u][n].st = "sent"
  /\ sched' = [sched EXCEPT ![u][n] = None]
  /\ ended' = ended \union {<<u, n>>}
  /\ UNCHANGED <<store, name, daily, backup, page, req, acts, faults, clean>>

\* the administrator's panel
Cancel(u, n) ==
  /\ Act /\ sched[u][n] # None /\ sched[u][n].st = "pending"
  /\ sched' = [sched EXCEPT ![u][n].st = "cancelled"]
  /\ ended' = ended \union {<<u, n>>}
  /\ UNCHANGED <<store, name, daily, backup, page, req, clean>>
-----------------------------------------------------------------------------
User(r) ==
  \/ \E n \in Notes, s \in Slots : SaveNote(r, n, s)
  \/ \E n \in Notes : ToggleOff(r, n) \/ DeleteEntry(r, n)
  \/ OpenTable(r) \/ OpenModal(r) \/ Submit(r)
  \/ \E typed \in Typed : Type(r, typed)

\* what goes on by itself
Serve(r) ==
  \/ Refuse(r) \/ DeleteOthers(r) \/ DeletionFails(r) \/ ListRows(r)
  \/ \E ids \in SUBSET Notes : ListBreaksOff(r, ids)
  \/ \E saved \in SUBSET Notes : \E kept \in SUBSET Notes : Save(r, kept, saved)
Receive(r) == ReceiveSubmit(r) \/ ReceiveList(r)

Next ==
  \/ \E r \in Requests : User(r) \/ Serve(r) \/ Receive(r) \/ Lose(r)
  \/ CloseTable \/ CloseModal \/ SetDaily \/ Download \/ Upload
  \/ \E u \in Users, n \in Notes : Deliver(u, n) \/ Purge(u, n) \/ Cancel(u, n)

Spec == Init /\ [][Next]_vars
-----------------------------------------------------------------------------
TypeOK ==
  /\ store \in [Notes -> Row \union {None}] /\ backup \in [Notes -> Row \union {None}]
  /\ name \in Users \union {None} /\ daily \in BOOLEAN
  /\ page \in [open : BOOLEAN, shown : Times, typed : Typed \union {None}, daily : BOOLEAN,
               modal : BOOLEAN, busy : BOOLEAN]
  /\ req \in [Requests -> [pc : {"free", "sent", "saved", "answered"},
                           kind : {"sync", "submit", "list"}, user : Typed \union {None},
                           view : Times, daily : BOOLEAN, mine : BOOLEAN, ids : SUBSET Notes,
                           full : BOOLEAN, accepted : BOOLEAN, alone : BOOLEAN]]
  /\ sched \in [Users -> [Notes -> Entry \union {None}]]
  /\ acts \in 0..MaxActs /\ faults \in 0..MaxFaults
  /\ clean \in BOOLEAN /\ ended \subseteq Users \X Notes

\* what the scheduler will send, or has sent and still lists, for this username
Coming(n) == sched[name][n] # None /\ sched[name][n].st # "cancelled"

\* A lone sync whose statements all succeed repairs what overlapping, lost or
\* failing ones left behind: from then on, until the notes change again, whatever
\* the scheduler has for this username is a note the user sees, at the time he sees.
ScheduledIsSeen ==
  clean => \A n \in Notes : Coming(n) =>
             store[n] # None /\ store[n].slot = sched[name][n].slot

\* ... and every note the user sees is scheduled or was sent, unless its row was
\* cancelled, or sent and purged, since it was saved: of the rest, no list of ids
\* that is on its way drops one from localStorage.
SeenIsScheduled ==
  clean =>
    /\ \A n \in Notes : store[n] # None => Coming(n) \/ <<name, n>> \in ended
    /\ \A r \in Requests :
         req[r].kind = "list" /\ req[r].pc = "answered" /\ req[r].accepted =>
           \A n \in Dropped(req[r]) : <<name, n>> \in ended

\* The form does not stay disabled: while it is, a submission of its own page is
\* under way, whose answer, error or loss enables it again ("finally").
BusyIsWaiting ==
  page.busy => \E r \in Requests : req[r].mine /\ req[r].kind = "submit" /\ req[r].pc # "free"
=============================================================================
