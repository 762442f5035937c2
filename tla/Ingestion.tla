------------------------------ MODULE Ingestion ------------------------------
(***************************************************************************)
(* The life of a document: admin-backend uploads it (object store, four    *)
(* tables, a message), the ingestion worker takes the message and asks     *)
(* mcp-write to index the file, and admin-backend deletes the document     *)
(* again.  No two steps share a transaction: every SQL statement and every *)
(* call of a service is one step, each may fail, RabbitMQ redelivers what  *)
(* was not acknowledged and an mcp-write request outlives its caller.      *)
(* The two grouped collections are in GroupedIndex.                        *)
(***************************************************************************)
EXTENDS Naturals, FiniteSets

CONSTANTS
  Docs,         \* uuids core.docs can hand out, each one once
  Hashes,       \* file contents, by SHA-256
  Readable,     \* the contents with text and keys in it
  Uploaders,    \* concurrent POST /api/upload
  Deleters,     \* concurrent DELETE /api/docs/<id>
  Listers,      \* concurrent GET /api/docs
  Workers,      \* ingestion-worker processes
  Threads,      \* mcp-write requests at once
  DbFaults,     \* may a statement of the worker or of the list fail?
  MaxLosses     \* bound of the lost workers and connections

ASSUME IngestionAssumption ==
  /\ Readable \subseteq Hashes /\ Docs # {} /\ Hashes # {}
  /\ DbFaults \in BOOLEAN /\ MaxLosses \in Nat
  /\ "none" \notin Docs \union Hashes \union Workers

VARIABLES
  objects,      \* MinIO: the keys uploads/<hash> present
  uploads,      \* core.uploads, by file_hash
  docs,         \* core.docs
  versions,     \* core.versions, by doc_id
  jobs,         \* core.jobs: per doc, the status or "none"
  file,         \* payload: the content a doc was uploaded with
  queue,        \* ingestion_jobs: docs of the messages ready
  index,        \* what mcp-write stored: [place, doc]
  up,           \* per uploader: program counter, hash, doc
  del,          \* per deleter: program counter, doc
  list,         \* per lister: program counter and what it read
  work,         \* per worker: program counter, doc, whether the channel is lost
  thread,       \* per mcp-write request: program counter, doc, caller
  losses,       \* losses so far (bound)
  used,         \* history: the ids handed out
  unpublished,  \* history: jobs whose message was never published
  removed,      \* history: contents whose object a deletion removed
  doomed,       \* history: docs a deletion was asked for
  overtaken,    \* history: docs the worker was indexing, or began to, after their deletion was asked for
  unclean,      \* history: docs a clean-up of the index failed for
  dropped       \* history: docs whose job a handler left open and whose message was not queued

stores  == <<objects, uploads, docs, versions, jobs, file, used>>
history == <<unpublished, removed, doomed, overtaken, unclean>>
vars == <<objects, uploads, docs, versions, jobs, file, queue, index, up, del, list, work,
          thread, losses, used, unpublished, removed, doomed, overtaken, unclean, dropped>>

\* the main chunk; the other collections; the rows in Postgres
Places == {"chunks", "other", "context"}
After(place) == CASE place = "chunks" -> "other" [] place = "other" -> "context"
                  [] place = "context" -> "end"

None == "none"
Statuses == {None, "pending", "running", "done", "failed"}
UpIdle  == [pc |-> "idle", hash |-> None, doc |-> None]
DelIdle == [pc |-> "idle", doc |-> None]
Nothing == [pc |-> "idle", start |-> {}, failed |-> {}, indexed |-> {}, active |-> {}, shown |-> {}]
Waiting == [pc |-> "idle", doc |-> None, lost |-> FALSE]
Free    == [pc |-> "idle", doc |-> None, caller |-> None]

Indexed(d) == {e \in index : e.doc = d}
Open(d) == jobs[d] \in {"pending", "running"}

Init ==
  /\ objects = {} /\ uploads = {} /\ docs = {} /\ versions = {} /\ queue = {} /\ index = {}
  /\ jobs = [d \in Docs |-> None]
  /\ file = [d \in Docs |-> None]
  /\ up = [u \in Uploaders |-> UpIdle]
  /\ del = [x \in Deleters |-> DelIdle]
  /\ list = [l \in Listers |-> Nothing]
  /\ work = [w \in Workers |-> Waiting]
  /\ thread = [t \in Threads |-> Free]
  /\ losses = 0
  /\ used = {} /\ unpublished = {} /\ removed = {} /\ doomed = {} /\ overtaken = {} /\ unclean = {}
  /\ dropped = {}

-----------------------------------------------------------------------------
(* Upload *)

UpStep(u, from, to) == up[u].pc = from /\ up' = [up EXCEPT ![u].pc = to]
NotUp == UNCHANGED <<queue, index, del, list, work, thread, losses, removed, doomed, overtaken, unclean, dropped>>

\* faulty: core.uploads is filled before the object is put
RecordFirst(u, h) ==
  /\ up[u].pc = "idle" /\ used # Docs
  /\ up' = [up EXCEPT ![u] = [pc |-> IF h \in uploads THEN "stored" ELSE "absent", hash |-> h, doc |-> None]]
  /\ uploads' = uploads \union {h}
  /\ NotUp /\ UNCHANGED <<objects, docs, versions, jobs, file, used, unpublished>>

\* a failed SELECT counts as "not there"; bound: the ids left
LookUp(u, h) ==
  /\ up[u].pc = "idle" /\ used # Docs
  /\ \E pc \in {"absent"} \union (IF h \in uploads THEN {"stored"} ELSE {}) :
       up' = [up EXCEPT ![u] = [pc |-> pc, hash |-> h, doc |-> None]]
  /\ NotUp /\ UNCHANGED <<stores, unpublished>>

PutObject(u) ==
  /\ UpStep(u, "absent", "put")
  /\ objects' = objects \union {up[u].hash}
  /\ NotUp /\ UNCHANGED <<uploads, docs, versions, jobs, file, used, unpublished>>

\* ON CONFLICT DO NOTHING; the error is dropped
RecordUpload(u) ==
  /\ UpStep(u, "put", "stored")
  /\ uploads' \in {uploads, uploads \union {up[u].hash}}
  /\ NotUp /\ UNCHANGED <<objects, docs, versions, jobs, file, used, unpublished>>

InsertDoc(u, d) ==
  /\ up[u].pc = "stored" /\ d \notin used
  /\ up' = [up EXCEPT ![u].pc = "doc", ![u].doc = d]
  /\ docs' = docs \union {d} /\ used' = used \union {d}
  /\ file' = [file EXCEPT ![d] = up[u].hash]
  /\ NotUp /\ UNCHANGED <<objects, uploads, versions, jobs, unpublished>>

\* faulty: the message goes out before the job is in the table
PublishEarly(u) ==
  /\ UpStep(u, "doc", "version") /\ up[u].doc \in docs
  /\ versions' = versions \union {up[u].doc}
  /\ queue' = queue \union {up[u].doc}
  /\ UNCHANGED <<objects, uploads, docs, jobs, file, used, unpublished, index, del, list, work, thread,
                 losses, removed, doomed, overtaken, unclean, dropped>>

\* the foreign keys refuse a version or a job of a deleted doc
InsertVersion(u) ==
  /\ UpStep(u, "doc", "version") /\ up[u].doc \in docs
  /\ versions' = versions \union {up[u].doc}
  /\ NotUp /\ UNCHANGED <<objects, uploads, docs, jobs, file, used, unpublished>>

InsertJob(u) ==
  /\ UpStep(u, "version", "job") /\ up[u].doc \in docs \intersect versions
  /\ jobs' = [jobs EXCEPT ![up[u].doc] = "pending"]
  /\ NotUp /\ UNCHANGED <<objects, uploads, docs, versions, file, used, unpublished>>

Publish(u) ==
  /\ up[u].pc = "job" /\ up' = [up EXCEPT ![u] = UpIdle]
  /\ queue' = queue \union {up[u].doc}
  /\ UNCHANGED <<stores, index, del, list, work, thread, losses, history, dropped>>

\* a step fails, the client goes away or the process dies; a failed Publish is
\* answered like a good one
UploadStops(u) ==
  /\ up[u].pc # "idle" /\ up' = [up EXCEPT ![u] = UpIdle]
  /\ unpublished' = IF up[u].pc = "job" THEN unpublished \union {up[u].doc} ELSE unpublished
  /\ NotUp /\ UNCHANGED stores

-----------------------------------------------------------------------------
(* The ingestion worker: on_message *)

WorkStep(w, from, to) == work[w].pc = from /\ work' = [work EXCEPT ![w].pc = to]
NotWork == UNCHANGED <<objects, uploads, docs, versions, file, used, up, del, list, history>>

Take(w, d) ==
  /\ work[w].pc = "idle" /\ d \in queue
  /\ queue' = queue \ {d}
  /\ work' = [work EXCEPT ![w] = [pc |-> "taken", doc |-> d, lost |-> FALSE]]
  /\ NotWork /\ UNCHANGED <<jobs, index, thread, losses, dropped>>

SetJob(d, status) == jobs' = IF jobs[d] = None THEN jobs ELSE [jobs EXCEPT ![d] = status]

MarkRunning(w) ==
  /\ WorkStep(w, "taken", "marked")
  /\ SetJob(work[w].doc, "running")
  /\ NotWork /\ UNCHANGED <<queue, index, thread, losses, dropped>>

Overtakes(d) ==
  /\ overtaken' = IF jobs[d] # None /\ d \in doomed THEN overtaken \union {d} ELSE overtaken
  /\ UNCHANGED <<stores, queue, index, up, del, list, thread, losses, unpublished, removed, doomed, unclean,
               dropped>>

\* faulty: the step of a deleted job is not refused
InsertStepUnchecked(w) == WorkStep(w, "marked", "started") /\ Overtakes(work[w].doc)

\* core.job_steps references core.jobs: a deleted job stops here
InsertStep(w) ==
  /\ WorkStep(w, "marked", IF jobs[work[w].doc] = None THEN "failed" ELSE "started")
  /\ Overtakes(work[w].doc)

Call(w, t) ==
  /\ WorkStep(w, "started", "calling") /\ thread[t].pc = "idle"
  /\ thread' = [thread EXCEPT ![t] = [pc |-> "fetch", doc |-> work[w].doc, caller |-> w]]
  /\ NotWork /\ UNCHANGED <<jobs, queue, index, losses, dropped>>

\* 120 seconds without an answer; the request goes on without its caller
TimeOut(w) ==
  /\ WorkStep(w, "calling", "failed")
  /\ thread' = [t \in Threads |-> IF thread[t].caller = w THEN [thread[t] EXCEPT !.caller = None]
                                                          ELSE thread[t]]
  /\ NotWork /\ UNCHANGED <<jobs, queue, index, losses, dropped>>

\* psycopg raises, perhaps after the statement was committed: the except branch
\* takes over
WorkFails(w) ==
  /\ DbFaults /\ work[w].pc \in {"taken", "marked", "started", "indexed", "ack"}
  /\ work' = [work EXCEPT ![w].pc = "failed"]
  /\ NotWork /\ UNCHANGED <<jobs, queue, index, thread, losses, dropped>>

MarkDone(w) ==
  /\ WorkStep(w, "indexed", "ack")
  /\ SetJob(work[w].doc, "done")
  /\ NotWork /\ UNCHANGED <<queue, index, thread, losses, dropped>>

\* faulty: the failure is only logged
FailureOnlyLogged(w) ==
  /\ WorkStep(w, "failed", "nack")
  /\ NotWork /\ UNCHANGED <<jobs, queue, index, thread, losses, dropped>>

LeavesOpen(d) == dropped' = IF Open(d) /\ d \notin queue THEN dropped \union {d} ELSE dropped

MarkFailed(w) ==
  /\ WorkStep(w, "failed", "nack")
  /\ \/ SetJob(work[w].doc, "failed") /\ UNCHANGED dropped
     \/ DbFaults /\ LeavesOpen(work[w].doc) /\ UNCHANGED jobs
  /\ NotWork /\ UNCHANGED <<queue, index, thread, losses>>

\* basic_ack; on a lost channel, whose message is out for redelivery already, it
\* is written to nobody, or raises and the except branch has the finished job
Ack(w) ==
  /\ \/ work[w].pc = "ack" /\ work' = [work EXCEPT ![w] = Waiting]
     \/ work[w].lost /\ WorkStep(w, "ack", "failed")
  /\ NotWork /\ UNCHANGED <<jobs, queue, index, thread, losses, dropped>>

\* basic_nack without requeue; if it raises the consumer reconnects
Nack(w) ==
  /\ work[w].pc = "nack" /\ work' = [work EXCEPT ![w] = Waiting]
  /\ NotWork /\ UNCHANGED <<jobs, queue, index, thread, losses, dropped>>

\* faulty: auto_ack, the broker forgets a message it has delivered
LossForgets(w) ==
  /\ work[w].pc # "idle" /\ losses < MaxLosses
  /\ losses' = losses + 1
  /\ NotWork /\ UNCHANGED <<jobs, index, queue>>

\* what was not acknowledged is delivered again, once per channel
Loss(w) ==
  /\ work[w].pc # "idle" /\ losses < MaxLosses
  /\ losses' = losses + 1
  /\ queue' = IF work[w].lost THEN queue ELSE queue \union {work[w].doc}
  /\ NotWork /\ UNCHANGED <<jobs, index>>

\* the heartbeat is missed while on_message blocks: redelivered, still handled
LoseChannel(w) ==
  /\ ~work[w].lost /\ Loss(w)
  /\ work' = [work EXCEPT ![w].lost = TRUE] /\ UNCHANGED <<thread, dropped>>

Crash(w) ==
  /\ Loss(w) /\ work' = [work EXCEPT ![w] = Waiting]
  /\ thread' = [t \in Threads |-> IF thread[t].caller = w THEN [thread[t] EXCEPT !.caller = None]
                                                          ELSE thread[t]]
  /\ IF work[w].lost THEN LeavesOpen(work[w].doc) ELSE UNCHANGED dropped

-----------------------------------------------------------------------------
(* mcp-write: ingest_document *)

NotThread == UNCHANGED <<stores, queue, up, del, list, losses, history, dropped>>

\* faulty: the status code is not looked at
AnswerIsOk(t, pc) ==
  /\ thread' = [thread EXCEPT ![t] = Free]
  /\ work' = IF thread[t].caller \in Workers
               THEN [work EXCEPT ![thread[t].caller].pc = "indexed"] ELSE work

\* the request ends; its caller, if it still waits, goes on
Answer(t, pc) ==
  /\ thread' = [thread EXCEPT ![t] = Free]
  /\ work' = IF thread[t].caller \in Workers
               THEN [work EXCEPT ![thread[t].caller].pc = pc] ELSE work

Fetch(t) ==
  /\ thread[t].pc = "fetch" /\ UNCHANGED index /\ NotThread
  /\ LET h == file[thread[t].doc] IN
       \/ /\ h \in objects \intersect Readable
          /\ thread' = [thread EXCEPT ![t].pc = "chunks"] /\ UNCHANGED work
       \/ h \in objects \ Readable /\ Answer(t, "indexed")
       \/ h \notin objects /\ Answer(t, "failed")

\* an upsert under an id made from the doc, its version and its text; or a save
\* in Postgres, whose error is swallowed
Write(t) ==
  /\ thread[t].pc \in Places
  /\ \/ index' = index \union {[place |-> thread[t].pc, doc |-> thread[t].doc]}
     \/ thread[t].pc = "context" /\ UNCHANGED index
  /\ IF After(thread[t].pc) = "end"
       THEN Answer(t, "indexed")
       ELSE thread' = [thread EXCEPT ![t].pc = After(@)] /\ UNCHANGED work
  /\ NotThread

\* an error of MinIO, of the embeddings or of Qdrant; or mcp-write restarts
RequestFails(t) ==
  /\ thread[t].pc # "idle" /\ Answer(t, "failed")
  /\ UNCHANGED index /\ NotThread

-----------------------------------------------------------------------------
(* DeleteDoc: every error is dropped *)

DelStep(x, from, to) == del[x].pc = from /\ del' = [del EXCEPT ![x].pc = to]
NotDel == UNCHANGED <<file, used, queue, up, list, work, thread, losses, unpublished, dropped>>

BeingIndexed(d) == (\E w \in Workers : work[w].doc = d /\ work[w].pc \in {"started", "calling"})
                   \/ \E t \in Threads : thread[t].doc = d

AskDelete(x, d) ==
  /\ del[x].pc = "idle" /\ d \in docs
  /\ del' = [del EXCEPT ![x] = [pc |-> "chunks", doc |-> d]]
  /\ doomed' = doomed \union {d}
  /\ overtaken' = IF BeingIndexed(d) THEN overtaken \union {d} ELSE overtaken
  /\ NotDel /\ UNCHANGED <<objects, uploads, docs, versions, jobs, index, removed, unclean>>

\* mcp-write deletes what it has of the doc, place by place
Clean(x) ==
  LET place == del[x].pc  d == del[x].doc IN
  /\ place \in Places
  /\ del' = [del EXCEPT ![x].pc = IF After(place) = "end" THEN "jobs" ELSE After(place)]
  /\ \/ index' = {e \in index : ~(e.doc = d /\ e.place = place)} /\ UNCHANGED unclean
     \/ unclean' = unclean \union {d} /\ UNCHANGED index
  /\ NotDel /\ UNCHANGED <<objects, uploads, docs, versions, jobs, removed, doomed, overtaken>>

DeleteJobs(x) ==
  /\ DelStep(x, "jobs", "object")
  /\ jobs' \in {jobs, [jobs EXCEPT ![del[x].doc] = None]}
  /\ NotDel /\ UNCHANGED <<objects, uploads, docs, versions, index, removed, doomed, overtaken, unclean>>

\* file_path and file_hash are read from versions, then the object goes: it may
\* be another doc's too
RemoveObject(x) ==
  LET h == file[del[x].doc] IN
  /\ \/ /\ del[x].doc \in versions
        /\ DelStep(x, "object", "upload")
        /\ objects' \in {objects, objects \ {h}}
        /\ removed' = removed \union {h}
     \/ /\ DelStep(x, "object", "versions")
        /\ UNCHANGED <<objects, removed>>
  /\ NotDel /\ UNCHANGED <<uploads, docs, versions, jobs, index, doomed, overtaken, unclean>>

ForgetUpload(x) ==
  /\ DelStep(x, "upload", "versions")
  /\ uploads' \in {uploads, uploads \ {file[del[x].doc]}}
  /\ NotDel
  /\ UNCHANGED <<objects, docs, versions, jobs, index, removed, doomed, overtaken, unclean>>

\* both deletes are refused while a job refers to the doc
DeleteVersions(x) ==
  /\ DelStep(x, "versions", "docs")
  /\ versions' \in {versions} \union (IF jobs[del[x].doc] = None THEN {versions \ {del[x].doc}} ELSE {})
  /\ NotDel
  /\ UNCHANGED <<objects, uploads, docs, jobs, index, removed, doomed, overtaken, unclean>>

\* faulty: versions do not follow their doc
RowWithoutCascade(x) ==
  /\ del[x].pc = "docs" /\ del' = [del EXCEPT ![x] = DelIdle]
  /\ docs' \in {docs, docs \ {del[x].doc}}
  /\ NotDel
  /\ UNCHANGED <<objects, uploads, versions, jobs, index, removed, doomed, overtaken, unclean>>

DeleteRow(x) ==
  /\ del[x].pc = "docs" /\ del' = [del EXCEPT ![x] = DelIdle]
  /\ \/ /\ jobs[del[x].doc] = None
        /\ docs' = docs \ {del[x].doc} /\ versions' = versions \ {del[x].doc}
     \/ UNCHANGED <<docs, versions>>
  /\ NotDel /\ UNCHANGED <<objects, uploads, jobs, index, removed, doomed, overtaken, unclean>>

\* the client goes away, or the process dies; what was not asked for stays
DeleteStops(x) ==
  /\ del[x].pc # "idle" /\ del' = [del EXCEPT ![x] = DelIdle]
  /\ unclean' = IF del[x].pc \in Places THEN unclean \union {del[x].doc} ELSE unclean
  /\ NotDel /\ UNCHANGED <<objects, uploads, docs, versions, jobs, index, removed, doomed, overtaken>>

-----------------------------------------------------------------------------
(* ListDocs: what mcp-write has, then the jobs, then the rows *)

\* faulty: failed jobs are left out
Unfinished == {d \in Docs : jobs[d] \in {"pending", "running"}}

Active == {d \in Docs : jobs[d] \in {"pending", "running", "failed"}}
Failed == {d \in Docs : jobs[d] = "failed"}
InQdrant == {e.doc : e \in {f \in index : f.place = "chunks"}}
NotList == UNCHANGED <<stores, queue, index, up, del, work, thread, losses, history, dropped>>

\* without an answer every doc counts as indexed
ReadQdrant(l) ==
  /\ list[l].pc = "idle"
  /\ \E seen \in {InQdrant, Docs} :
       list' = [list EXCEPT ![l] = [Nothing EXCEPT !.pc = "jobs", !.indexed = seen,
                                                   !.start = docs \intersect (InQdrant \union Active),
                                                   !.failed = docs \intersect Failed]]
  /\ NotList

ReadJobs(l) ==
  /\ list[l].pc = "jobs"
  /\ \E seen \in {Active} \union (IF DbFaults THEN {{}} ELSE {}) : list' = [list EXCEPT ![l].pc = "docs", ![l].active = seen]
  /\ NotList

ReadDocs(l) ==
  /\ list[l].pc = "docs"
  /\ list' = [list EXCEPT ![l].pc = "shown",
                ![l].shown = docs \intersect (list[l].indexed \union list[l].active)]
  /\ NotList

Listed(l) == list[l].pc = "shown" /\ list' = [list EXCEPT ![l] = Nothing] /\ NotList

-----------------------------------------------------------------------------
Upload(u) ==
  \/ \E h \in Hashes : LookUp(u, h)
  \/ \E d \in Docs : InsertDoc(u, d)
  \/ PutObject(u) \/ RecordUpload(u) \/ InsertVersion(u) \/ InsertJob(u) \/ Publish(u)
  \/ UploadStops(u)

OnMessage(w) ==
  \/ MarkRunning(w) \/ InsertStep(w) \/ (\E t \in Threads : Call(w, t))
  \/ MarkDone(w) \/ MarkFailed(w) \/ Ack(w) \/ Nack(w)

Request(t) == Fetch(t) \/ Write(t) \/ RequestFails(t)

DeleteDoc(x) ==
  \/ \E d \in Docs : AskDelete(x, d)
  \/ Clean(x) \/ DeleteJobs(x) \/ RemoveObject(x) \/ ForgetUpload(x)
  \/ DeleteVersions(x) \/ DeleteRow(x) \/ DeleteStops(x)

ListDocs(l) == ReadQdrant(l) \/ ReadJobs(l) \/ ReadDocs(l) \/ Listed(l)

Next ==
  \/ \E u \in Uploaders : Upload(u)
  \/ \E w \in Workers : OnMessage(w) \/ WorkFails(w) \/ TimeOut(w) \/ LoseChannel(w) \/ Crash(w)
  \/ \E w \in Workers, d \in Docs : Take(w, d)
  \/ \E t \in Threads : Request(t)
  \/ \E x \in Deleters : DeleteDoc(x)
  \/ \E l \in Listers : ListDocs(l)

Spec == Init /\ [][Next]_vars

\* The broker delivers, the worker's loop and the requests run, and a publish is
\* tried.  Nobody is obliged to upload, delete, list, crash or time out.
Fairness ==
  /\ \A w \in Workers : WF_vars(OnMessage(w)) /\ WF_vars(\E d \in Docs : Take(w, d))
  /\ \A t \in Threads : WF_vars(Request(t))
  /\ \A u \in Uploaders : WF_vars(Publish(u))

FairSpec == Spec /\ Fairness

-----------------------------------------------------------------------------
(* Properties *)

TypeOK ==
  /\ objects \subseteq Hashes /\ uploads \subseteq Hashes /\ removed \subseteq Hashes
  /\ versions \subseteq docs /\ docs \subseteq used /\ used \subseteq Docs
  /\ jobs \in [Docs -> Statuses]
  /\ file \in [Docs -> Hashes \union {None}]
  /\ queue \subseteq used
  /\ index \subseteq [place : Places, doc : used]
  /\ up \in [Uploaders -> [pc : {"idle", "absent", "put", "stored", "doc", "version", "job"},
                           hash : Hashes \union {None}, doc : Docs \union {None}]]
  /\ del \in [Deleters -> [pc : Places \union {"idle", "jobs", "object", "upload", "versions", "docs"},
                           doc : Docs \union {None}]]
  /\ list \in [Listers -> [pc : {"idle", "jobs", "docs", "shown"}, start : SUBSET Docs,
                           failed : SUBSET Docs, indexed : SUBSET Docs, active : SUBSET Docs, shown : SUBSET Docs]]
  /\ work \in [Workers -> [pc : {"idle", "taken", "marked", "started", "calling", "indexed", "failed", "ack", "nack"},
                           doc : Docs \union {None}, lost : BOOLEAN]]
  /\ thread \in [Threads -> [pc : Places \union {"idle", "fetch"}, doc : Docs \union {None},
                             caller : Workers \union {None}]]
  /\ losses \in Nat
  /\ unpublished \union doomed \union overtaken \union unclean \union dropped \subseteq used

(* A job marked done has indexed its document, in every collection, unless *)
(* the text held nothing to index or someone asked to delete the document. *)
DoneIsSearchable ==
  \A d \in used \ doomed :
    jobs[d] = "done" /\ file[d] \in Readable =>
      {"chunks", "other"} \subseteq {e.place : e \in Indexed(d)}

(* The file of an uploaded document is in the object store, unless a       *)
(* deletion of a document with the same content took it away.              *)
FileIsStored ==
  \A d \in docs : file[d] \in objects \union removed

(* Something of a document stays in the index after its row is gone only   *)
(* if a part of its clean-up failed, or the worker was indexing it when    *)
(* the deletion was asked for, or passed its check of the job after that   *)
(* and before the job was deleted.                                         *)
OrphansAreOvertaken ==
  \A d \in used \ docs : Indexed(d) # {} => d \in overtaken \union unclean

(* A document whose ingestion failed is not hidden: it is shown by every   *)
(* call that begins after the failure, until it is deleted or its message  *)
(* is redelivered.                                                         *)
FailedIsListed ==
  \A l \in Listers : list[l].pc = "shown" /\ losses = 0 =>
    list[l].failed \intersect docs \intersect Failed \subseteq list[l].shown

(* Tables, queue, workers and mcp-write together keep what Library promises *)
(* of a document: one job, run before anything is indexed, done only when   *)
(* the document can be found; nothing taken away unasked.                   *)
Shelf == INSTANCE Library WITH Contents <- Hashes, text <- file, shelf <- docs, status <- jobs,
                               found <- {<<e.place, e.doc>> : e \in index}, asked <- doomed
KeepsLibrary == Shelf!Spec

(* No open job is forgotten: its upload is about to publish it, its message *)
(* is in the queue, or a worker has yet to record its result.  Exceptions: *)
(* its publication failed; or its handler could not even record the        *)
(* failure, or died after the broker had given the message to another.     *)
Publishes(u, d) == up[u].pc = "job" /\ up[u].doc = d
Handles(w, d) == work[w].pc \notin {"idle", "ack", "nack"} /\ work[w].doc = d
OpenIsCarried ==
  \A d \in Docs : Open(d) =>
    \/ d \in queue \union unpublished \union dropped
    \/ \E u \in Uploaders : Publishes(u, d)
    \/ \E w \in Workers : Handles(w, d)

(* Every job that was published gets its result, or is deleted, through    *)
(* crashes, lost channels, time-outs and redeliveries.                     *)
JobSettles == \A d \in Docs : Open(d) ~> ~Open(d) \/ d \in unpublished \union dropped
=============================================================================
