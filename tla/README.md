# Verification of the assistant's services

The repository is a Telegram assistant that answers questions about a set of
uploaded documents (descriptions of "angels") and sends reminders.  It consists
of a dozen services in Go and Python that share PostgreSQL, RabbitMQ, MinIO and
Qdrant and call each other over HTTP, and of two front ends: a site on which a
user sets the times of his reminders, and a panel for the administrator.  This
directory holds TLA+ models of the parts in which several of them, several
threads of one, or several answers on their way to one page, change the same
state; the TLC configurations that check them; and proofs, checked by TLAPS, of
the properties that matter most for every size of the system.

Contents: [parts](#parts-of-the-system) ·
[modules](#modules-and-what-they-correspond-to) ·
[runs](#runs) · [fairness](#fairness) · [proofs](#proofs) ·
[divergences](#where-code-and-documentation-disagree) ·
[not modelled](#what-is-not-modelled) · [plan](#plan)

To check a run: `tlc -config MCChat.cfg MCChat`; to check the proofs of a module:
`tlapm ChatProofs.tla`.  PROJECT.json lists the runs, the lines each definition
models, and per property a faulty variant of a definition (`...OneMore`,
`...Anyway`, marked `faulty:` in the modules) under which TLC finds the property
violated.

## Parts of the system

| Part | State it keeps | Operations | Talks to |
|---|---|---|---|
| **notification/scheduler** | `chat.scheduler_notifications`; in memory the map of armed rows and a timer goroutine for each | scan and arm, claim, deliver, record, roll over a daily row, purge, `POST /schedule/from-note` with sync | mcp-proxy (`/scheduler/compose`, `/scheduler/deliver`) |
| **admin-backend** (documents) | `core.uploads`, `docs`, `versions`, `jobs`, `job_steps`; objects in MinIO | upload, list, delete a document | RabbitMQ, mcp-write, Qdrant |
| **admin-backend** (reminders) | the scheduler's table | cancel, delete a row | – |
| **ingestion-worker** | one message at a time, the job's status and steps | take, call mcp-write, mark done or failed, ack | RabbitMQ, mcp-write, PostgreSQL |
| **mcp-write** | points of the Qdrant collections `chunks`, `other`, grouped ones; contexts in PostgreSQL | ingest a document, delete its points | MinIO, extract-tool, vLLM, Qdrant |
| **tg-bot** | `updatesCh`, worker goroutines, a token channel per chat | take an update, ask, show the answer, record its message id, `/restart` | Telegram, mcp-proxy, extract-tool |
| **mcp-proxy** | `chat.messages`, `chat.answer_context`, the in-flight limit | `POST /chat`, `POST /scheduler/deliver`, compose | mcp-read, the LLM, Telegram |
| **mcp-read** | a cache in Redis; two in-flight limits | build a context for a query, full context of a chunk, all names | Qdrant, embedding, reranker |
| **extract-tool, reranker, embed-cpu** | none | convert, rank, embed | – |
| **zone-agent** (one per zone) | `.env`, prompts, `/etc/resolv.conf` on the host, the models' caches | read and write them, rebuild a service, swap a model, metrics | docker |
| **log-indexer** | `obs.logs_index` | copy from Loki, trim per service | Loki |
| **attachment-worker** | – | its queue has no publisher | – |
| **angels-web** | in the browser's localStorage: `timeData` (the notes), `schedulerTelegramUsername`, `schedulerDailyNotify`; the bell page's form | toggle and save a note, submit, delete, download, upload the list | scheduler, through `app/api/schedule/route.js` |
| **admin-web-ui** | in localStorage: `token`; what each page has fetched | sign in and out, poll metrics and chats, edit `.env`, swap models, documents, jobs, reminders, prompts | admin-backend, and through it zone-agent |

How they interact, and what is hard about it:

- *A note becomes a reminder.*  The scheduler saves rows while its own dispatcher
  scans, arms, claims, delivers and rolls them over, the panel cancels and
  deletes them, and SIGTERM cancels some of the worker's calls and not others.
  Right means: one delivery per save or rollover, none for a cancelled row, a due
  row is served, no row is stuck or lost by anything but the failures that do it.
- *A file becomes searchable.*  The upload writes to five places without a
  transaction, RabbitMQ redelivers after a lost channel, mcp-write carries on after
  the worker's time-out, and a deletion walks through the same places meanwhile.
  Right means: a job marked done is searchable, a file is there as long as its
  document, every job settles, nothing stays behind unnoticed.
- *Documents share a point.*  mcp-write keeps, per group, one point with three
  parallel arrays, which concurrent requests read, change and write back.
- *A question is answered.*  tg-bot's workers, mcp-proxy's handler (which outlives
  a bot that gave up) and delivered reminders write one memory; a reply in
  Telegram names a message id that is recorded only after the message was shown.
  Right means: one message of a chat at a time, a follow-up is answered from the
  context of what it replies to, no message waits for ever.

- *A list of notes goes to the scheduler.*  Every click on angels-web sends the
  whole list, waits for nothing and ignores the answer; the bell page asks what is
  scheduled and deletes from the browser what is not.  Requests overtake each
  other, and answers find a list that has moved on.  Right means: a sync that ran
  alone repairs it, so that what the user sees is what will be sent.
- *A zone's `.env` is rewritten* by the panel's form, which fetches, edits and puts
  back the whole text, and by model swaps, which read, change a line and rename;
  no lock or version guards it.  Right means: no zone gets another's file, and a
  swap nobody interfered with holds.
- *The panel's tabs share one token.*  Any 401 removes whatever token is stored, and
  only the tab that got it notices.  Right means: a good session is not ended by
  its own requests, a dead one is left by every tab.

The places where this can bite are listed in PROJECT.json under `hazards`, with
the properties that watch over them.  Others are not listed there and covered by no
property: a daily row saved as daily while it is being delivered as one-shot is
marked sent and purged (`worker.go:135`); in a sync, an item whose text could not be
found loses its row (`ingest.go:323`); an upload that fails after `core.docs` was
inserted leaves a document without a job (`admin-backend/handler.go:169`); the
publisher never reopens a lost channel (`queue/rabbitmq.go:38`); a follow-up to an
answer whose document was deleted falls back to the stored fragment
(`mcp-proxy/modules/memory.go:126`); mcp-read's cache
is keyed by the question alone while its value may hold a session's attachment text
(`mcp-read/modules/handler.go:129`), and stores what was found before a document was
deleted (`handler.go:390`); a swap removes the old model's cache before `.env` is
written (`ai_swap.go:340`).  Smaller ones: two workers may enter a chat in the other order
than they took its messages; a question whose LLM call failed stays in the memory
without an answer (`mcp-proxy/modules/handler.go:276`); reminders are appended to
the memory without its trim (`memory.go:277`); only the first part of a long answer is recorded (`telegram.go:85`); mcp-write's PostgreSQL saves swallow their errors
(`postgres_ops.py:26`); a deletion writes a group back with its old vector
(`qdrant_ops.py:149`); a failed embedding becomes a vector of zeros
(`mcp-read/modules/embed.go:95`); each run of log-indexer inserts the last half
hour again (`log-indexer/main.go:158`).

## Modules and what they correspond to

| Module | Models | Lines of the code |
|---|---|---|
| `Scheduler` | the scheduler process(es), their table and the panel's two calls | `notification/scheduler/modules/*.go`, `admin-backend/handler.go:1152-1235` |
| `Outbox` | abstract: what the scheduler promises about a row | – |
| `SchedulerProofs` | theorems about `Scheduler` | – |
| `Ingestion` | upload, worker, mcp-write, deletion and list of documents | `admin-backend/handler.go:124-368`, `ingestion_worker/main.py`, `mcp-write/modules` |
| `Library` | abstract: what the document services promise about a document | – |
| `IngestionProofs` | theorems about `Ingestion` | – |
| `GroupedIndex` | the grouped collections | `mcp-write/modules/ingest_system_b.py`, `qdrant_ops.py` |
| `GroupedIndexProofs` | theorems about `GroupedIndex` | – |
| `Bot` | queue, workers and tokens of tg-bot; also the abstract specification of `Chat` | `tg-bot/main.go`, `tg-bot/modules/handler.go:38-60` |
| `Chat` | extends `Bot` by what a worker does with an update, by mcp-proxy and by reminders | `tg-bot/modules`, `mcp-proxy/modules` |
| `Conversation` | abstract: what the bot promises its users | – |
| `BotProofs`, `ChatProofs` | theorems about them | – |
| `Notes` | one browser of angels-web and what the scheduler keeps for it | `angels-web/components/{TimeToggle,TimeTable,Upload}`, `app/api/schedule/route.js`, `scheduler/modules/{server,ingest}.go` |
| `NotesProofs` | theorems about `Notes` | – |
| `Zone` | the zones' `.env` files, the panel's forms, rebuilds and swaps | `admin-web-ui/src/pages/{Configurations,AISwap}.tsx`, `zone-agent/modules/{env,ai_swap,rebuild}.go` |
| `ZoneProofs` | theorems about `Zone` | – |
| `Panel` | the session of the panel's tabs, and the ChatLog page | `admin-web-ui/src/{api.ts,App.tsx}`, `pages/{Login,KeycloakCallback,ChatLog}.tsx`, `context/MonitorContext.tsx`, `admin-backend/{handler,keycloak}.go` |
| `PanelProofs` | theorems about `Panel` | – |
| `MCScheduler`, `MCIngestion`, `MCGroupedIndex`, `MCChat`, `MCNotes`, `MCZone`, `MCPanel` | small instances for TLC | – |

**Scheduler.**  `rows` is the table by row id, `now` the clock (the processes and
the database are taken to agree on it), `scan[i]` the rows of instance i's last
SELECT it has not looped over yet, `job[i][id]` the goroutine of a row: `armed`
with the time and text of the scan, `claimed` after the transaction, then the
results it has to record.  `call[i][h]` is a `ProcessFromNote` in progress.  One
SQL statement, or the claim's transaction, is one action:
`Plan` (purge and SELECT), `Arm`, `Claim`/`Miss` (`dispatchOne`'s
`UPDATE ... WHERE status='pending'` under `FOR UPDATE`), `ClaimLost` (the commit is
applied and its answer lost: the goroutine returns and the row stays `sending` with no
owner), `Deliver` (sent, sent but the answer lost, refused), `ReadDaily`, `RecordSent`,
`Rollover`, `RecordFailure`, `GiveUp`; `Stop` (SIGTERM, which cuts a claim off before or
after its commit was applied) and `Restart` (the process dies and comes back); `Post`,
`ComposeFails`, `Save`, `SaveRefused`, `Finish`, `Disconnect` for the handler, whose
deletions may fail unnoticed; `Cancel`, `Delete` for the panel; `Tick`.  History variables say how often a row was armed,
which armings were taken, what reached the user, and which rows were exposed to
a failure (`stranded`) or a race (`raced`) the properties make an exception for; a scanned row and its timer
remember, as history too, which arming they saw (`arm`).

**Ingestion.**  A document's chunks are one element of `index` per collection: the
code writes them by upsert under ids computed from document, version and text
(`ids.py`), and how many points that makes is not represented.  `up`, `del` and
`list` hold how far a request of admin-backend is (one action per call of MinIO,
PostgreSQL, RabbitMQ, mcp-write, Qdrant), `work` the consumer, `thread` the
request handler in mcp-write, which lives on when its caller has timed out.
Queue messages are redelivered after `LoseChannel` or `Crash`; a worker that dies after
its channel was lost leaves nothing to redeliver.  `basic_ack` stands inside the callback's
`try`: on a lost channel it may raise, and the `except` branch then has a job that was
done, which it marks failed (`Ack`, `MarkFailed`) before its own `basic_nack` raises too
and the consumer reconnects (`Nack`).  Histories: `dropped`, the documents
whose job a handler left open though their message was gone; `doomed`,
the documents whose deletion was asked for; `overtaken`, those of them that a worker
or a request was at then, or that a worker took past its job check before the job was
deleted; `unclean`, those of which a clean-up step failed.

**GroupedIndex.**  `point[g]` is a group's payload (names, docs, chunks), `req[t]`
a request with the payloads it has read: an ingestion (`Retrieve`, `Upsert`) or a
deletion (`Scroll`, then `WriteBack` per group).  A read that fails is a missing
point, as in the code, and any number of reads may fail or be stale.  History: `kept`, the
documents ingested and not removed since; `undone`, those that a write took out of the
point without having read them (`Unread`), which are the only ones the property exempts.

**Bot and Chat.**  `Send` (a user writes), `Dispatch` (queued, or dropped when the
queue is full), `Take`, `Enter` (takes the token or waits in line; Go hands a
channel's element to the longest waiting receiver), `Leave`, `Stop`.  `Chat` adds
the worker's steps `Refuse`, `Restart`, `Ask`, `GiveUp`, `Receive`, `Show`, `Record`,
`Finish`; mcp-proxy's `Accept` (limit, and the question stored), `Trim` (after the question
and after the answer, a statement of its own whose error is dropped), `Lookup`,
`LookupAnew`, `Save`, `SaveContext`, `Fail`; the reminder's `Remind`, `Remember`,
`TakeOver`, `Name`, `Link`; and `StopBot`.  After its first `Trim` a request is `accepted`,
or it asks for the angels' names or number (`names`) and is answered from a list without a
`Lookup`.  `Post` is what `Show` and `Remind` do at Telegram: a text may be shown in several
messages (further parts; a photo, then the text, then an edit or a new message, when the
answer to an earlier try was lost), and the id of one of them is learned, or of none.  `Leave` is a step only of a worker
that is done, every other variable of `Bot` changes only by `Bot`'s actions: that
`Chat` implements `Bot` is a theorem.

**Notes.**  `store`, `name`, `daily` and `backup` are localStorage and the
downloaded file, `page` the React state of the bell page, `sched` the rows of each
user with their status, `req` the requests under way: a `sync` (nobody waits for
it), a `submit` or a `list` query.  Actions of the user: `SaveNote`, `ToggleOff`,
`OpenTable`, `OpenModal`, `Type`, `SetDaily`, `DeleteEntry`, `Submit`, `Download`,
`Upload`; each sends what its handler sends.  The scheduler `Refuse`s, `Save`s (all,
or some of the notes) and then `DeleteOthers`, whose error it discards (`DeletionFails`:
accepted all the same), or answers with `ListRows`, or with the ids it read before an error
(`ListBreaksOff`); the page
`ReceiveSubmit`s and `ReceiveList`s; a request is lost in either direction
(`Lose`).  `Deliver`, `Purge` and `Cancel` are what the dispatcher and the
administrator do meanwhile.  It starts at a first visit or with a username stored
and a list in sync.  History: `clean`, the last sync ran alone, none of its statements
failed, it is still what the store holds, and no list was broken off since; `ended`, rows
cancelled, or sent and purged, since they were saved.

**Zone.**  A file is the zone it was read from and, per service, its assignments, of
which the first is rewritten and the last counts.  `page` is the form of the
Configurations page (`Open`, `Reload`, `Edit`, `Save`, `Close`, and what its answers
do: `Load`, `LoadFails`, `Saved`, `SaveFails`), `get` and `put` its requests, which
the agent serves with `Read` and `Write`; `swap` a model swap: `StartSwap`,
`ReadEnv`, `WriteEnv`, `Compose` and `Composed`, or `SwapFails` anywhere.  A
`docker compose up --build` takes minutes and reads `.env` when it begins: `build` holds the
compose runs under way, of rebuilds (`Rebuild`, `Rebuilt`, `RebuildFails`) and of swaps, with
the model each has read and the container will be recreated with.  History: `mixed`, the
zones whose form was given another zone's answer or an error; `lone` in a swap, that nobody
wrote `.env` or began a compose run of the service between its start and its write, that
no other swap and no such run was under way when it started, and that nobody has written
`.env` since.

**Panel.**  `token` is localStorage, `issued` and `dead` the tokens handed out and those
that expired, `kc` the ones Keycloak has signed, `keys` whether the backend has the keys to
check those; `view[t]` what a tab shows, `chat[t]` the ChatLog page,
`req[t]` the tab's requests with the token they carry.  `SubmitLogin` and
`StartKeycloak`/`Callback` sign in, `Logout` and a 401 (`Denied`) remove the token;
`Poll` and `PollChat` are the two timers; `Answer` is `AuthMiddleware` with a
handler behind it, which answers 401 to every token it cannot verify: an expired one, and any
of Keycloak's while its keys are missing (`LoseKeys`: it signs with others, or was out of
reach when the backend started; `FetchKeys`: the key library has them again).  History:
`shaky`, Keycloak's tokens that lived to see its keys missing.

Simplifications, by module:

- *Scheduler*: a text is the number of the save that wrote it; a time of day is a
  slot of `Day` ticks; an instance polls at any time.
- *Ingestion*: contents are hashes, some of them `Readable` (give text to index);
  uploading under a chosen document id, and file names, are left out.
- *GroupedIndex*: a scroll reads all groups at once (one page of 100 holds them).
- *Chat*: a chat has one user, so that session and chat coincide; the placeholder counts
  as a message of the answer once the answer is edited into it; a text shown in several
  messages has its parts told apart by their ids alone, and `MaxFaults` bounds the texts
  that need more than one together with the failures; an update counts as
  confirmed to Telegram once it was fetched; which history the LLM sees is not
  represented.  A context is named by the question or reminder it was first made
  for.  A photo answer is posted through the reminders' handler (`scheduler_api.go`), whose
  memory step normally finds the answer as the last row and records the id that tg-bot
  records again; the copy of the row which it appends when another row came between is not
  modelled.
- *Notes*: the scheduler's rows have a status and a time, no clock: anything pending
  may be delivered at any moment.  Requests for one user only meet requests of the
  same browser.
- *Zone*: the download and removal of models, and what the panel shows of a swap, are
  left out; of a text only the assignments of the swappable services are told apart.
- *Panel*: every page but ChatLog is "app": its requests are answered and handled like
  those of the metrics poll.  The backend's settings (Keycloak alone, or its own tokens too)
  are one: both kinds are accepted.

## Runs

| Run | Question | Distinct states |
|---|---|---|
| `scheduler_faults` | one instance, two rows, two items of a note saved twice (one-shot and daily), sync, failing statements, lost answers and commits, a stop or crash, cancel and delete: `UniqueRows`, `SentWasDelivered`, `SendingIsOwned`, `NoSecondDelivery`, `NeverEarly`, `AtMostOnce` (refines `Outbox`), `CancelSticks` | 1.18 M |
| `scheduler_live` | two items, scans limited to one row, a stop: `DueIsServed` | 541 k |
| `ingestion_faults` | two workers, two mcp-write threads, failing statements, a loss, a deletion: `DoneIsSearchable`, `OrphansAreOvertaken`, `OpenIsCarried`, `KeepsLibrary` (refines `Library`) | 1.61 M |
| `ingestion_shared` | two uploads of the same content and a deletion: `FileIsStored` | 439 k |
| `ingestion_failed` | a list during ingestion and deletion of a readable or unreadable file: `FailedIsListed` | 2.90 M |
| `ingestion_live` | two losses, failing statements: `JobSettles` | 675 k |
| `grouped` | two threads, four documents, two groups, one with a nameless document, every read stale or failed: `Aligned`, `NamesUnique`, `KeptIsListed` | 1.66 M |
| `chat` | one chat, two workers, two messages, a reminder, a failure or a text in several parts: `OneAtATime`, `NobodyStranded`, `RowsNameTheirText`, `FollowUpKeepsContext`, `KeepsConversation` (refines `Conversation`), `EveryUpdateSettles` | 408 k |
| `chat_restart` | violation: `RestartForgets` | – |
| `notes` | two notes, two times, a user the bot knows and one it does not, two requests, four acts, a loss, a refusal or a failing statement: `ScheduledIsSeen`, `SeenIsScheduled`, `BusyIsWaiting` | 1.99 M |
| `zone` | two zones, a service with two models, two swaps, a rebuild, two reads, a write, four acts, a failure: `FileStaysItsOwn`, `SwapHolds` | 2.38 M |
| `panel` | two tabs, two tokens, the first of them Keycloak's, two chats, two acts, a failure or missing keys: `SessionSticks`, `DeadSessionLeaves`, `MessagesSettle` | 339 k |

One passing run of each component also checks its `TypeOK`.

*Why the bounds are enough.*  Two actors of a kind are what a race needs; the
properties quantify over pairs at most.  Two rows suffice to collide in the dedup
index, and in `scheduler_live`, where the two items belong to two angels, to be due together
when a scan returns one: the other waits for the first to be served.  A clock of 3 ticks with a day of 2
lets a daily row fire and roll over, the purge (1 tick) see a sent row and a row
outside the horizon come in.  One crash or loss suffices for each
"the answer was lost" case, two for a loss during the redelivery.  In the chat a
queue of capacity 1 with two messages is full, a memory trimmed at 4 rows to 2
loses rows as soon as two questions are answered, and the second message can
reply to whatever the first one's handling or the reminder has shown; two messages for
one text are what a part or a second try adds.  In `notes` a
second request is what overtakes the first, and four acts are a submission with a
change and a second one before or behind it; a note needs another one to be deleted
in a sync that keeps something.  In `zone` two reads let the answer for a zone that
was left come into the other's form, and two swaps lose each other's line; one rebuild suffices to begin before a swap's
write and end after it; closing a form is not counted as an act.  In `panel` two tokens are an old and a new session,
of Keycloak or of the backend's own login, and one fetch of messages per tab suffices to be late for the next session.  Scheduler
runs use one instance (two double the state space without finishing in time);
the proofs cover any number.

*Deadlock.*  It is checked for the scheduler and the groups.  The other models really
stop: when the bounded ids, messages, swaps and acts are used up and nothing is
under way, nobody has to do anything more.

*Symmetry* is used for row ids, documents, workers and threads of ingestion, threads of
the groups, notes, times, requests and swaps, which the models never order, and not in runs that check liveness.

## Fairness

Only what the code's own loops do is assumed fair, weakly:

- Scheduler: an instance's polling loop (`Plan`, `Arm`), each timer goroutine
  (`Dispatch`), and that a stopping container is restarted (`restart:
  unless-stopped`).  Nobody is obliged to post, cancel, crash, or let time pass.
- Ingestion: the broker delivers (`Take`), the worker's callback and mcp-write's
  requests run, a publish is attempted.  Uploads, deletions, losses and time-outs
  are not obliged to happen.
- Chat: the dispatcher goroutine, each worker, each request in mcp-proxy.  It
  includes that every call ends, with an answer, an error or a time-out.  The
  Telegram client of tg-bot has no time-out of its own: a connection that neither
  answers nor breaks would hold a chat's token, and is outside the model (listed as
  a hazard).
- Panel: the two timers of a tab that shows the panel, the backend's answers, and the
  callbacks run for them.  Nobody is obliged to sign in, no token to expire.

`Notes` and `Zone` have no liveness property: their requests are not retried, and a
lost sync is repaired only if the user acts again.

`JobSettles` holds though statements fail and channels and workers are lost, with two
exceptions, each a history variable.  When marking a job failed fails too, the message is
dropped and the job stays running for ever (`ingestion_worker/main.py:134`, `dropped`,
which also takes the worker that dies at a document whose message another worker has
finished with).  A job whose publication failed is never queued (`handler.go:199`,
`unpublished`).  `DueIsServed` makes
an exception for a row saved for an earlier time while a timer for the later one
is armed: it waits for that timer.  The scan returns the first rows by time, those with a
timer among them (`worker.go:47`), so that as many such rows as its limit keep every later
row from being picked up until their timers fire: the second exception (`InTheWay`).

## Proofs

For every value of the constants that satisfies the named assumptions of the
modules (`SetsAssumption`, `RequestsAssumption`, `NumbersAssumption`,
`IngestionAssumption`, `GroupedAssumption`, `PoolAssumption`, `MemoryAssumption`,
`NotesAssumption`, `ZoneAssumption`, `PanelAssumption`; they say that sets are not
empty, that bounds are numbers and that ids differ from "none"):

| Module | Theorems |
|---|---|
| `SchedulerProofs` | `TypeCorrect`, `ArmingInvariant`, `NoDuplicates` (`NoSecondDelivery`), `ImplementsOutbox` (`AtMostOnce`), `ArmingsAreDeliveredOnce`, `RowsAreUnique`, `SendingHasOwner`, `SentIsDelivered`, `CancelHolds`, `NothingIsEarly` (`NeverEarly`) |
| `IngestionProofs` | `TypeCorrect`, `FilesAreStored`, `DoneWasIndexed` (`DoneIsSearchable`), `OrphansWereOvertaken`, `FailedStaysListed` (with working database statements), `OpenStaysCarried`, `ImplementsLibrary` (`KeepsLibrary`), `NothingIsLost` |
| `GroupedIndexProofs` | `TypeCorrect`, `NamesOnce`, `StaysParallel` (`Aligned`), `KeptStaysListed`, `DeletionUndoesIngestion` |
| `BotProofs` | `OneWorkerPerChat`, `NoWorkerStranded`, for the pool alone |
| `ChatProofs` | `TypeCorrect`, `ImplementsPool` (`Chat` implements `Bot`), `OneMessageAtATime`, `NobodyIsStranded`, `FollowUpHolds` (`FollowUpKeepsContext`), `ImplementsConversation` (`KeepsConversation`), `EachIsSaidOnce`, `MemoryNamesItsTexts` (`RowsNameTheirText`) |
| `NotesProofs` | `TypeCorrect`, `BusyWaits`, `SyncShowsAll` (`ScheduledIsSeen`), `SyncSchedulesAll` (`SeenIsScheduled`) |
| `ZoneProofs` | `TypeCorrect`, `FileIsOwn` (`FileStaysItsOwn`), `SwapIsHeld` (`SwapHolds`) |
| `PanelProofs` | `TypeCorrect`, `SessionIsKept` (`SessionSticks`) |

Every invariant and every safety property of the passing runs is thereby proved,
`FailedIsListed` for `DbFaults = FALSE`, which is what its run checks.  Some theorems
state what no run checks by itself: `ArmingsAreDeliveredOnce`, `NothingIsLost` and
`EachIsSaidOnce` are properties of the three abstract specifications, carried over to the
code's by the refinements; `ImplementsPool` carries the pool's over to the chat;
`ArmingInvariant` is the inductive invariant of the scheduler; `DeletionUndoesIngestion`
is a law of the functions that compute a group's payload.  The bounds on
acts, faults, losses and crashes are arbitrary numbers in the proofs.

*Scheduler.*  `NoSecondDelivery` is not inductive: it says nothing of what the
claim relies on.  `ArmingInv` adds that a pending row's latest arming is not yet
taken (so the next claim takes a new one), that taken armings are not newer than
the row's (so a save or rollover makes a new one), and that what is claimed or
sent was taken.  One lemma per group of actions (`ArmStep`, `ClaimStep`,
`DeliverStep`, `RecordStep`, ...) shows that each preserves it; `QuietStep` does
for those that touch none of its variables.  `SendingStep` then maps each step to
one of `Outbox` or to a stutter: a claim is a `Take` because its arming was
untaken, a delivery is a `Send` because it was taken and not sent.  `UniqueRows` and
`SendingIsOwned` are inductive with the types.  `SentWasDelivered` needs `SentInv`:
a goroutine holds its row's text unless a save came between (`SameText`), and one
past its delivery has delivered the text it holds (`SureShown`).  `CancelSticks`
needs `TextInv`, that no row's text is newer than its last arming, so that a save
that revives a cancelled row is seen to bring a new text.  `NeverEarly` is about a claim
that does not look at the time: `TimeInv` says of each scanned row and each timer that it
holds the row's present time as long as the arming it saw is the latest.
`ArmingsAreDeliveredOnce` follows from `Outbox` alone: its `Send` needs a taken arming that was
not sent, so no arming is handed to mcp-proxy twice.  It does not say that the user sees one
message: for one delivery mcp-proxy may show a photo whose reply was lost and then the text
(`scheduler_api.go:137-150`, in `Chat` as `Post`).

*Ingestion.*  The type of a message or a point is "of a document that was
uploaded", which only the actors' rows know: `TypedInv` is about them, and says
that a request's caller waits for it (`CallersWait`).  The properties have an
invariant each.  `StoredInv`: a row of `core.uploads` spares the next upload its Put, so it must not be
there before the object, wherever an upload stands.  `SearchInv`: the places
written along a request are there, its answer hands that to the worker, and the
worker to the job; only a deletion takes points away, and its document was doomed
before.  `OrphanInv`: once a deletion was asked for, a document that is not
overtaken is not being indexed and will not be, so that the places cleaned so far
stay clean until the row goes.  `FailInv`: without a loss a document has one message, so
that nobody is left to change a failed job but a deletion, and each read of the
list that follows sees it.  `OpenIsCarried` is inductive with the types: whoever opens a
job, takes its message or lets go of it hands it on.

`Library` knows nothing of uploads, messages and threads: a job is run before anything of
its document is indexed, collection after collection, is done when the document can be
found, and nothing goes unless somebody asked.  `LibraryInv` says what its guards need of
those in between: a document is with one upload until it is published, and nobody else is
busy with it meanwhile (`HeldAlone`); it gets its job before anybody is busy with it, and
the job is marked running before anything of it is indexed (`StageInv`); only readable
files are written (`ReadableWritten`).  That the collections come in their order is
`SearchInv`'s.
`NothingIsLost` is then a consequence of `Library` alone.

*GroupedIndex.*  A write stores a payload made from one that was read long
before, so an invariant about the stored points alone is not preserved.
`SoundInv` states the same of every payload a request holds: whatever is read is
sound, whatever is computed from a sound payload is sound, whatever is
written is one of these.  The lemmas say what the helpers on sequences (removal
at an index, appending a new name) preserve.  `ListedInv` adds, for
`KeptIsListed`, that a payload held lists only documents of its group and that a
deletion visits only groups that listed its document: what is written back then drops
no document it had read but the one that is deleted.  Those it had not read are in `undone`
from that write on, until they are ingested again or deleted.

*Chat.*  `TokenInv` adds to `OneAtATime` that whoever runs in a chat holds its
token and that those in line wait for a held token, each once: needed when
`Leave` hands the token on.  `TypeOK` of the pool needs `LineWaits`, because the
first in line must be a worker with an update, and the pool's step `Send` is
one of `Chat`'s only if a reply names a natural number, which follows from the
type of `shown`: the two invariants are proved together (`ChatInvariant`).
`ImplementsPool` and `OneWorkerPerChat` then give `OneMessageAtATime`.

`FollowUpKeepsContext` is an action property: when mcp-proxy looks up the text
replied to, the row that names the message has that text's context.  It holds
because of links between four tables, and `FollowInv` states them: a message number
belongs to one text and to nobody's placeholder (`NumberInv`); a user replies to what
was shown (`ReplyInv`); an answer's row exists before its message does, and row,
request and worker agree on its context (`StageInv`, `ReminderInv`); a row's message
shows the row's text, or a reminder that took the row over (`RowInv`); a text that was
shown has its number in its row, or a worker that is about to write it there, or is
known not to be linked (`LinkInv`).  The gap between showing and recording is closed
by the token: while a worker is about to record, nobody in its chat asks about that
message (`ShowInv`), which rests on `OneAtATime` and on `OrderInv`, that an update is
in one place at a time and handled by one worker.

`KeepsConversation` maps a step to an answer, a reminder, a message written or closed, or
a stutter.  `Write` and `Remind` are immediate; that an answer is made from a permitted
source is `SourceInv`, which follows the context from mcp-proxy's lookup over its answer
to the worker that shows it, and leans on `FollowInv` for what the message replied to
stands for; that it is the first of its question is the order of `OrderInv`.
`NobodyStranded` is the other half of the token's protocol: a token that is taken has a
running worker in its chat, and whoever waits stands in its line, so that the one who leaves
finds him.

*Notes.*  `SyncInv` carries a sync that runs alone and whose statements succeed from its
first step to the answer: while it is under way no other request is (`Lone`), the rows it
saved are what it asked for, or were cancelled, or sent and purged (`Synced`), and afterwards
only lists are under way, whose answers name everything still to come (`OnlyLists`).  Without the last part a
late list could prune a note that was just scheduled, which is what happens when
the sync was not alone.

*Zone.*  `OwnInv` says of every text on its way to a file, in the form, in an answer,
in a write, in a swap, that it is a version of that file or its zone is in `mixed`.
`HeldInv` follows a swap that is alone: what it read is what is there; from its write on
no compose run of its service under way knows another model than the one it wrote, since
those that began earlier are over or cost it `lone` (with the key assigned twice it says
nothing); when it is done the service runs with that model, and whatever compose run follows
reads the same line.

*Panel.*  Its invariant adds to the types that a request carries a token that was
handed out, and that a 401 was only given to no token, to one that is dead or to one of
Keycloak's that lived to see its keys missing (`Refused`).  Tokens do not come back to life,
and while the keys are missing Keycloak's tokens are all among the latter (`Known`, as the
callback page checks the token it got), so that no 401 can name a token that is still good
and not `shaky`.

*Only model-checked:* liveness (`DueIsServed`, `JobSettles`, `EveryUpdateSettles`,
`DeadSessionLeaves`, `MessagesSettle`): liveness under fairness is outside what the
prover handles.

## Where code and documentation disagree

With a run that shows it:

- `chat_restart`: `DeleteSession` is documented to delete the session and all
  messages (`session.go:33`).  It sends four commands with parameters in
  one statement, which PostgreSQL refuses, and `/restart` ignores the error.

Seen while modelling, without a run.  Services:

- The purge is commented as being for one-shot notifications
  (`scheduler/modules/worker.go:30`), but a daily one that was saved as daily while the
  row was being delivered is marked sent and purged (`worker.go:32`, `135`, `147`).
- `ListDocs` promises documents that are in Qdrant or have an unfinished or failed
  job (`admin-backend/handler.go:217`); a job done between the two reads is in neither
  (`handler.go:218-219`).
- A scan returns the first rows by time, those whose timer is armed already among them
  (`worker.go:47`); timers armed for later times than their rows have now hold such places, so
  that 2048 of them keep every later row waiting.
- A row that was rolled over, or saved again for a later time, while a timer for its
  earlier time was armed or scanned is sent at the earlier time and with the earlier text:
  the claim looks at the status and not at `send_at` (`worker.go:101-121`).  `NeverEarly`
  makes an exception for it.
- Cancelling a reminder (`handler.go:1151`) that a goroutine has claimed does not stop
  it: it is sent, and the row becomes sent, or pending again if daily.  `CancelSticks`
  therefore speaks of rows nobody has in flight.
- `README.md:216` says the deletion of a document removes the row first and then
  the chunks; the code begins with the chunks (`handler.go:327-365`).
- `README.md:285` calls `MAX_INFLIGHT_LLM` a global limit of LLM calls; only
  `HandleChat` takes it, composing a reminder does not (`scheduler_api.go:41`).
- `README.md:286` says a chat's debounce collapses duplicates; the code sleeps
  before each message (`tg-bot/modules/handler.go:68`) and handles all of them.
- `README.md:287` documents `MCP_READ_CACHE_TTL`; the time is a constant
  (`mcp-read/modules/model.go:11`) and the variable is never read.

Front ends; the properties of `Notes`, `Zone` and `Panel` make an exception for each:

- A list answer that is older than a submission deletes the submitted notes from the
  browser (`TimeTable.js:96`); they are sent all the same.  The same check deletes notes
  restored from a file, and those that were refused in a submission accepted for
  others, since every note is marked as scheduled (`TimeTable.js:263`).
- Two syncs under way at once may be served in the other order; the older list stays.
- A one-shot row that was sent, or that the administrator cancelled, is pending again
  after the next sync of any note (`ingest.go`, the upsert of every listed note).
- Submitting under another username leaves the first account's reminders.
- Deleting an entry sends the page's daily switch, though it was not submitted.
- A zone's answer or error that comes after another zone's form was opened is shown in
  that form, and saved from it under that zone (`Configurations.tsx:59`); likewise
  for prompts (`Prompts.tsx:92-106`).  What is typed while a save is under way is
  marked as saved.
- A rebuild begun before a swap wrote `.env` recreates the container with the old model
  after the swap has reported its end (`rebuild.go:89`): no lock keeps the two apart.
- A Keycloak session is ended in the browser when its token arrives while the backend is
  without Keycloak's keys: every error of the verification is a 401
  (`admin-backend/keycloak.go:180`).
- A late 401 removes a newer token (`api.ts:13-18`); `listDocs`, `listJobs` and `getJob`
  (`api.ts:229`, `246`, `254`) do not look for a 401 at all.

## What is not modelled

| Part | Why |
|---|---|
| the pages of angels-web other than the toggles, the bell page and the upload | text: more than 440 generated pages, six sevenths of the repository's JavaScript and TypeScript, without state or control of their own.  They are why the modelled lines are a small part of all lines |
| the other pages of the panel | they fetch, show and send one request at a time; their requests are those of `Panel`'s "app" |
| mcp-read | ranking and merging of search results; in `Chat` it is the document an answer names.  Its cache and its two nested limits are the state a model could start from |
| attachments in tg-bot | a conversion, on the path of a text message (`Chat`) |
| how questions are classified, dates parsed, prompts built, markdown converted (`query.go`, `llm.go`, `date.go`, `physical_dates.py`, `markdown_telegram.go`) | rules about text without state; the models take any outcome |
| downloads and caches of models, `resolv.conf`, prompts and metrics of zone-agent | files that one request writes; the model of a swap starts and ends at `.env` and the container |
| extract-tool, reranker, embed-cpu | stateless calls; a call that may fail in `Ingestion` |
| attachment-worker | nothing publishes to its queue |
| log-indexer | one sequential loop |
| IP filter, metrics, docker statistics of admin-backend | I/O and bounded histories behind a mutex |
| `admin-backend/modules` | a superseded copy that is not imported |
| compose files, scripts, migrations | configuration; the constraints the statements run into are in the guards of the actions |

`TTLCache` of the shared packages has no caller.  The per-key limiter (five messages
a minute, in tg-bot and again in mcp-proxy) is a refusal that may always happen
(`Refuse`, `Fail`).

## Plan

1. *Done:* the scheduler (most state, most concurrency, and messages a user
   cannot take back), ingestion, the grouped collections, the chat; then the browser's
   notes, the zones' files and the panel's session; the abstract outbox, library and
   conversation; and a proof of every safety property the runs check.
2. *Retrieval* (mcp-read with the attachments of tg-bot): the cache keyed by the
   question alone while its value holds a session's attachment text; results
   stored after a document was deleted; the rerank and embedding limits held in
   one order; the choice among collections by priority, against a reference
   definition.  Abstract specification: a map from question to the context a search
   would give.
3. *Extensions of what is there*: the prompts page in `Zone`; downloads and caches of
   models, and the patch of `resolv.conf` as a function, with its idempotence;
   `/start` in `Bot` and the per-key limiter's window as a function; the reminders
   panel's older tables; two scheduler instances in a run with fewer other features.
