--------------------------- MODULE IngestionProofs ---------------------------
(***************************************************************************)
(* What holds of a document's life for every number of uploads, deletions, *)
(* lists, workers and mcp-write requests, and every number of losses.      *)
(***************************************************************************)
EXTENDS Ingestion, TLAPS

-----------------------------------------------------------------------------
(* Types.  TypeOK is not inductive: that a message, a job or a point names *)
(* a document that was handed out follows from the actors' own rows.       *)

UpRow(r) ==
  /\ r \in [pc : {"idle", "absent", "put", "stored", "doc", "version", "job"},
            hash : Hashes \union {None}, doc : Docs \union {None}]
  /\ r.pc # "idle" => r.hash \in Hashes
  /\ r.pc \in {"doc", "version", "job"} => r.doc \in used

DelRow(r) ==
  /\ r \in [pc : Places \union {"idle", "jobs", "object", "upload", "versions", "docs"},
            doc : Docs \union {None}]
  /\ r.pc # "idle" => r.doc \in used

WorkRow(r) ==
  /\ r \in [pc : {"idle", "taken", "marked", "started", "calling", "indexed", "failed", "ack", "nack"},
            doc : Docs \union {None}, lost : BOOLEAN]
  /\ r.pc # "idle" => r.doc \in used

ThreadRow(r) ==
  /\ r \in [pc : Places \union {"idle", "fetch"}, doc : Docs \union {None}, caller : Workers \union {None}]
  /\ r.pc # "idle" => r.doc \in used
  /\ r.pc = "idle" => r = Free

StoresTyped ==
  /\ objects \subseteq Hashes /\ uploads \subseteq Hashes /\ removed \subseteq Hashes
  /\ versions \subseteq docs /\ docs \subseteq used /\ used \subseteq Docs
  /\ jobs \in [Docs -> Statuses]
  /\ file \in [Docs -> Hashes \union {None}] /\ \A d \in used : file[d] \in Hashes

RestTyped ==
  /\ queue \subseteq used
  /\ index \subseteq [place : Places, doc : used]
  /\ losses \in Nat
  /\ unpublished \subseteq used /\ doomed \subseteq used /\ overtaken \subseteq used /\ unclean \subseteq used
  /\ dropped \subseteq used

ListTyped ==
  list \in [Listers -> [pc : {"idle", "jobs", "docs", "shown"}, start : SUBSET Docs,
                        failed : SUBSET Docs, indexed : SUBSET Docs, active : SUBSET Docs, shown : SUBSET Docs]]

UpTyped == up = [u \in Uploaders |-> up[u]] /\ \A u \in Uploaders : UpRow(up[u])
DelTyped == del = [x \in Deleters |-> del[x]] /\ \A x \in Deleters : DelRow(del[x])
WorkTyped == work = [w \in Workers |-> work[w]] /\ \A w \in Workers : WorkRow(work[w])
ThreadTyped == thread = [t \in Threads |-> thread[t]] /\ \A t \in Threads : ThreadRow(thread[t])

Typed == StoresTyped /\ RestTyped /\ ListTyped /\ UpTyped /\ DelTyped /\ WorkTyped /\ ThreadTyped

LEMMA TypedIsTypeOK == Typed => TypeOK
BY DEF Typed, TypeOK, StoresTyped, RestTyped, ListTyped, UpTyped, DelTyped, WorkTyped, ThreadTyped,
       UpRow, DelRow, WorkRow, ThreadRow

(* The rows of the actors speak of used, which only grows. *)
LEMMA RowsStay ==
  ASSUME used \subseteq used', NEW r
  PROVE  /\ UpRow(r) => UpRow(r)'
         /\ DelRow(r) => DelRow(r)'
         /\ WorkRow(r) => WorkRow(r)'
         /\ ThreadRow(r) => ThreadRow(r)'
BY DEF UpRow, DelRow, WorkRow, ThreadRow

LEMMA UploadTyped ==
  ASSUME Typed, NEW u \in Uploaders, Upload(u) PROVE Typed'
<1>1. UpRow(up[u]) /\ docs \subseteq used
  BY DEF Typed, UpTyped, StoresTyped
<1> USE DEF NotUp, UpStep, stores, history
<1>2. StoresTyped' /\ used \subseteq used'
  <2>1. ASSUME NEW h \in Hashes, LookUp(u, h) PROVE <1>2
    BY <2>1 DEF LookUp, Typed, StoresTyped
  <2>2. ASSUME NEW d \in Docs, InsertDoc(u, d) PROVE <1>2
    BY <2>2, <1>1 DEF InsertDoc, Typed, StoresTyped, UpRow
  <2>3. CASE PutObject(u)
    BY <2>3, <1>1 DEF PutObject, Typed, StoresTyped, UpRow
  <2>4. CASE RecordUpload(u)
    BY <2>4, <1>1 DEF RecordUpload, Typed, StoresTyped, UpRow
  <2>5. CASE InsertVersion(u)
    BY <2>5, <1>1 DEF InsertVersion, Typed, StoresTyped, UpRow
  <2>6. CASE InsertJob(u)
    BY <2>6, <1>1 DEF InsertJob, Typed, StoresTyped, UpRow, Statuses
  <2>7. CASE Publish(u) \/ UploadStops(u)
    BY <2>7 DEF Publish, UploadStops, Typed, StoresTyped
  <2> QED BY <2>1, <2>2, <2>3, <2>4, <2>5, <2>6, <2>7 DEF Upload
<1>3. \E r : UpRow(r)' /\ up' = [up EXCEPT ![u] = r]
  <2>1. ASSUME NEW h \in Hashes, LookUp(u, h) PROVE <1>3
    BY <2>1 DEF LookUp, UpRow
  <2>2. ASSUME NEW d \in Docs, InsertDoc(u, d) PROVE <1>3
    <3>1. PICK r : r = [up[u] EXCEPT !.pc = "doc", !.doc = d]
      OBVIOUS
    <3>2. UpRow(r)'
      BY <2>2, <1>1, <3>1 DEF InsertDoc, UpRow
    <3> QED BY <2>2, <3>1, <3>2 DEF InsertDoc
  <2>3. CASE PutObject(u) \/ RecordUpload(u) \/ InsertVersion(u) \/ InsertJob(u)
    <3>1. PICK to \in {"put", "stored", "version", "job"} :
             /\ up' = [up EXCEPT ![u] = [up[u] EXCEPT !.pc = to]] /\ up[u].pc # "idle"
             /\ to \in {"version", "job"} => up[u].doc \in used
      BY <2>3, <1>1 DEF PutObject, RecordUpload, InsertVersion, InsertJob
    <3>2. PICK r : r = [up[u] EXCEPT !.pc = to]
      OBVIOUS
    <3>3. UpRow(r)'
      BY <1>1, <1>2, <3>1, <3>2 DEF UpRow
    <3> QED BY <3>1, <3>2, <3>3
  <2>4. CASE Publish(u) \/ UploadStops(u)
    BY <2>4 DEF Publish, UploadStops, UpIdle, UpRow
  <2> QED BY <2>1, <2>2, <2>3, <2>4 DEF Upload
<1>4. UpTyped'
  BY <1>2, <1>3, RowsStay DEF Typed, UpTyped
<1>5. RestTyped'
  <2>1. CASE Publish(u) \/ UploadStops(u)
    BY <2>1, <1>1 DEF Publish, UploadStops, Typed, RestTyped, UpRow
  <2>2. CASE ~(Publish(u) \/ UploadStops(u))
    <3>1. UNCHANGED <<queue, index, losses, unpublished, doomed, overtaken, unclean, dropped>>
      BY <2>2 DEF Upload, LookUp, InsertDoc, PutObject, RecordUpload, InsertVersion, InsertJob
    <3> QED BY <3>1, <1>2 DEF Typed, RestTyped
  <2> QED BY <2>1, <2>2
<1>6. UNCHANGED <<del, list, work, thread>>
  BY DEF Upload, LookUp, InsertDoc, PutObject, RecordUpload, InsertVersion, InsertJob, Publish, UploadStops
<1> QED
  BY <1>2, <1>4, <1>5, <1>6, RowsStay DEF Typed, ListTyped, DelTyped, WorkTyped, ThreadTyped

(* The steps of a worker change its own row, the status of its job, the    *)
(* queue and the request it calls or leaves behind.                        *)

WorkerActs(w) ==
  OnMessage(w) \/ WorkFails(w) \/ TimeOut(w) \/ LoseChannel(w) \/ Crash(w) \/ \E d \in Docs : Take(w, d)

LEMMA WorkTypedStep ==
  ASSUME Typed, NEW w \in Workers, WorkerActs(w) PROVE Typed'
<1>1. WorkRow(work[w]) /\ queue \subseteq used
  BY DEF Typed, WorkTyped, RestTyped
<1> USE DEF NotWork, WorkStep, stores, history, Overtakes, Loss
<1>2. UNCHANGED <<objects, uploads, docs, versions, file, used, up, del, list,
                  removed, unpublished, doomed, unclean>>
  BY DEF WorkerActs, OnMessage, MarkRunning, InsertStep, Call, MarkDone, MarkFailed, Ack, Nack,
         WorkFails, TimeOut, LoseChannel, Crash, Take
<1>3. jobs' \in [Docs -> Statuses]
  <2>1. jobs \in [Docs -> Statuses]
    BY DEF Typed, StoresTyped
  <2>2. jobs' = jobs \/ \E s \in {"running", "done", "failed"} : SetJob(work[w].doc, s)
    BY DEF WorkerActs, OnMessage, MarkRunning, InsertStep, Call, MarkDone, MarkFailed, Ack, Nack,
           WorkFails, TimeOut, LoseChannel, Crash, Take
  <2> QED BY <2>1, <2>2 DEF SetJob, Statuses
<1>4. \E r : WorkRow(r) /\ work' = [work EXCEPT ![w] = r]
  <2>1. ASSUME NEW d \in Docs, Take(w, d) PROVE <1>4
    BY <2>1, <1>1 DEF Take, WorkRow
  <2>2. CASE Nack(w) \/ Crash(w) \/ (Ack(w) /\ work' = [work EXCEPT ![w] = Waiting])
    BY <2>2 DEF Nack, Crash, WorkRow, Waiting
  <2>3. CASE LoseChannel(w)
    <3>1. WorkRow([work[w] EXCEPT !.lost = TRUE])
      BY <1>1 DEF WorkRow
    <3> QED BY <2>3, <3>1 DEF LoseChannel
  <2>4. CASE ~(Nack(w) \/ Crash(w) \/ (Ack(w) /\ work' = [work EXCEPT ![w] = Waiting])
               \/ LoseChannel(w) \/ \E d \in Docs : Take(w, d))
    <3>1. PICK to \in {"marked", "failed", "started", "calling", "ack", "nack"} :
            work[w].pc # "idle" /\ work' = [work EXCEPT ![w] = [work[w] EXCEPT !.pc = to]]
      BY <2>4 DEF WorkerActs, OnMessage, MarkRunning, InsertStep, Call, MarkDone, MarkFailed,
                  Ack, WorkFails, TimeOut
    <3>2. WorkRow([work[w] EXCEPT !.pc = to])
      BY <1>1, <3>1 DEF WorkRow
    <3> QED BY <3>1, <3>2
  <2> QED BY <2>1, <2>2, <2>3, <2>4
<1>5. WorkTyped'
  BY <1>2, <1>4, RowsStay DEF Typed, WorkTyped
<1>6. ThreadTyped'
  <2>1. CASE UNCHANGED thread
    BY <1>2, <2>1, RowsStay DEF Typed, ThreadTyped
  <2>2. ASSUME NEW t \in Threads, Call(w, t) PROVE ThreadTyped'
    <3>1. ThreadRow([pc |-> "fetch", doc |-> work[w].doc, caller |-> w])
      BY <1>1, <2>2 DEF Call, ThreadRow, WorkRow
    <3> QED BY <1>2, <2>2, <3>1, RowsStay DEF Call, Typed, ThreadTyped
  <2>3. CASE TimeOut(w) \/ Crash(w)
    <3>1. \A t \in Threads : ThreadRow([thread[t] EXCEPT !.caller = None])
      BY DEF Typed, ThreadTyped, ThreadRow, Free
    <3>2. thread' = [t \in Threads |-> IF thread[t].caller = w THEN [thread[t] EXCEPT !.caller = None]
                                                               ELSE thread[t]]
      BY <2>3 DEF TimeOut, Crash
    <3> QED BY <1>2, <3>1, <3>2, RowsStay DEF Typed, ThreadTyped
  <2> QED BY <2>1, <2>2, <2>3 DEF WorkerActs, OnMessage, MarkRunning, InsertStep, MarkDone, MarkFailed, Ack, Nack,
         WorkFails, LoseChannel, Take
<1>7. RestTyped'
  <2>1. queue' \subseteq used /\ losses' \in Nat
    <3>1. CASE LoseChannel(w) \/ Crash(w)
      BY <1>1, <3>1 DEF LoseChannel, Crash, WorkRow, Typed, RestTyped
    <3>2. CASE ~(LoseChannel(w) \/ Crash(w))
      <4>1. queue' \subseteq queue /\ losses' = losses
        BY <3>2 DEF WorkerActs, OnMessage, MarkRunning, InsertStep, Call, MarkDone, MarkFailed, Ack, Nack,
                    WorkFails, TimeOut, Take
      <4> QED BY <1>1, <4>1 DEF Typed, RestTyped
    <3> QED BY <3>1, <3>2
  <2>2. overtaken' \subseteq used /\ index' = index
    <3>1. overtaken' \subseteq overtaken \union {work[w].doc} /\ index' = index
          /\ (work[w].pc = "idle" => overtaken' = overtaken)
      BY DEF WorkerActs, OnMessage, MarkRunning, InsertStep, Call, MarkDone, MarkFailed, Ack, Nack,
             WorkFails, TimeOut, LoseChannel, Crash, Take
    <3> QED BY <1>1, <3>1 DEF Typed, RestTyped, WorkRow
  <2>3. dropped' \subseteq used
    <3>1. CASE MarkFailed(w) \/ Crash(w)
      <4>1. dropped' \subseteq dropped \union {work[w].doc} /\ work[w].pc # "idle"
        BY <3>1 DEF MarkFailed, Crash, LeavesOpen
      <4> QED BY <1>1, <4>1 DEF Typed, RestTyped, WorkRow
    <3>2. CASE ~(MarkFailed(w) \/ Crash(w))
      <4>1. dropped' = dropped
        BY <3>2 DEF WorkerActs, OnMessage, MarkRunning, InsertStep, Call, MarkDone, Ack, Nack,
                    WorkFails, TimeOut, LoseChannel, Take
      <4> QED BY <4>1 DEF Typed, RestTyped
    <3> QED BY <3>1, <3>2
  <2> QED BY <1>2, <2>1, <2>2, <2>3 DEF Typed, RestTyped
<1>8. StoresTyped'
  BY <1>2, <1>3 DEF Typed, StoresTyped
<1> QED
  BY <1>2, <1>5, <1>6, <1>7, <1>8, RowsStay DEF Typed, ListTyped, UpTyped, DelTyped

LEMMA AnswerTyped ==
  ASSUME Typed, UNCHANGED used, NEW t \in Threads, NEW pc \in {"indexed", "failed"}, Answer(t, pc),
         thread[t].caller \in Workers => work[thread[t].caller].pc # "idle"
  PROVE  ThreadTyped' /\ WorkTyped'
<1>1. ThreadRow(Free)
  BY DEF Free, ThreadRow
<1>2. ThreadTyped'
  BY <1>1, RowsStay DEF Answer, Typed, ThreadTyped
<1>3. CASE thread[t].caller \in Workers
  <2> DEFINE c == thread[t].caller
  <2>1. WorkRow([work[c] EXCEPT !.pc = pc])
    BY <1>3 DEF Typed, WorkTyped, WorkRow
  <2> QED BY <1>2, <1>3, <2>1, RowsStay DEF Answer, Typed, WorkTyped
<1>4. CASE thread[t].caller \notin Workers
  BY <1>2, <1>4, RowsStay DEF Answer, Typed, WorkTyped
<1> QED BY <1>3, <1>4

LEMMA DeleteTyped ==
  ASSUME Typed, NEW x \in Deleters, DeleteDoc(x) PROVE Typed'
<1>1. DelRow(del[x]) /\ docs \subseteq used
  BY DEF Typed, DelTyped, StoresTyped
<1> USE DEF NotDel, DelStep
<1>2. UNCHANGED <<file, used, queue, up, list, work, thread, losses, unpublished, dropped>>
  BY DEF DeleteDoc, AskDelete, Clean, DeleteJobs, RemoveObject, ForgetUpload, DeleteVersions, DeleteRow, DeleteStops
<1>3. \E r : DelRow(r) /\ del' = [del EXCEPT ![x] = r]
  <2>1. ASSUME NEW d \in Docs, AskDelete(x, d) PROVE <1>3
    BY <2>1, <1>1 DEF AskDelete, DelRow, Places
  <2>2. CASE DeleteRow(x) \/ DeleteStops(x)
    BY <2>2 DEF DeleteRow, DeleteStops, DelRow, DelIdle
  <2>3. CASE Clean(x) \/ DeleteJobs(x) \/ RemoveObject(x) \/ ForgetUpload(x) \/ DeleteVersions(x)
    <3>1. PICK to \in Places \union {"jobs", "object", "upload", "versions", "docs"} :
            del[x].pc # "idle" /\ del' = [del EXCEPT ![x] = [del[x] EXCEPT !.pc = to]]
      BY <2>3 DEF Clean, DeleteJobs, RemoveObject, ForgetUpload, DeleteVersions, Places, After
    <3>2. DelRow([del[x] EXCEPT !.pc = to])
      BY <1>1, <3>1 DEF DelRow
    <3> QED BY <3>1, <3>2
  <2> QED BY <2>1, <2>2, <2>3 DEF DeleteDoc
<1>4. DelTyped'
  BY <1>2, <1>3, RowsStay DEF Typed, DelTyped
<1>5. StoresTyped'
  <2>1. /\ objects' \subseteq objects /\ uploads' \subseteq uploads /\ docs' \subseteq docs
        /\ versions' \subseteq docs'
    BY DEF Typed, StoresTyped, DeleteDoc, AskDelete, Clean, DeleteJobs, RemoveObject, ForgetUpload,
           DeleteVersions, DeleteRow, DeleteStops
  <2>2. jobs' \in [Docs -> Statuses]
    <3>1. jobs' = jobs \/ jobs' = [jobs EXCEPT ![del[x].doc] = None]
      BY DEF DeleteDoc, AskDelete, Clean, DeleteJobs, RemoveObject, ForgetUpload,
             DeleteVersions, DeleteRow, DeleteStops
    <3> QED BY <3>1 DEF Typed, StoresTyped, Statuses
  <2>3. removed' \subseteq Hashes
    <3>1. CASE RemoveObject(x)
      BY <1>1, <3>1 DEF RemoveObject, Typed, StoresTyped, DelRow
    <3>2. CASE ~RemoveObject(x)
      BY <3>2 DEF Typed, StoresTyped, DeleteDoc, AskDelete, Clean, DeleteJobs, ForgetUpload,
                  DeleteVersions, DeleteRow, DeleteStops
    <3> QED BY <3>1, <3>2
  <2> QED BY <1>2, <2>1, <2>2, <2>3 DEF Typed, StoresTyped
<1>6. RestTyped'
  <2>1. index' \subseteq index
    BY DEF DeleteDoc, AskDelete, Clean, DeleteJobs, RemoveObject, ForgetUpload,
           DeleteVersions, DeleteRow, DeleteStops
  <2>2. doomed' \subseteq used /\ overtaken' \subseteq used /\ unclean' \subseteq used
    <3>1. ASSUME NEW d \in Docs, AskDelete(x, d) PROVE <2>2
      BY <1>1, <3>1 DEF AskDelete, Typed, RestTyped
    <3>2. CASE Clean(x) \/ DeleteStops(x)
      <4>1. UNCHANGED <<doomed, overtaken>> /\ unclean' \subseteq unclean \union {del[x].doc} /\ del[x].pc # "idle"
        BY <3>2 DEF Clean, DeleteStops, Places
      <4> QED BY <1>1, <4>1 DEF Typed, RestTyped, DelRow
    <3>3. CASE DeleteJobs(x) \/ RemoveObject(x) \/ ForgetUpload(x) \/ DeleteVersions(x) \/ DeleteRow(x)
      BY <3>3 DEF DeleteJobs, RemoveObject, ForgetUpload, DeleteVersions, DeleteRow, Typed, RestTyped
    <3> QED BY <3>1, <3>2, <3>3 DEF DeleteDoc
  <2> QED BY <1>2, <2>1, <2>2 DEF Typed, RestTyped
<1> QED
  BY <1>2, <1>4, <1>5, <1>6, RowsStay DEF Typed, ListTyped, UpTyped, WorkTyped, ThreadTyped

LEMMA ListTypedStep ==
  ASSUME Typed, NEW l \in Listers, ListDocs(l) PROVE Typed'
<1>1. UNCHANGED <<stores, queue, index, up, del, work, thread, losses, history, dropped>>
  BY DEF ListDocs, ReadQdrant, ReadJobs, ReadDocs, Listed, NotList
<1>2. ListTyped'
  <2>1. /\ docs \subseteq Docs /\ InQdrant \subseteq Docs /\ Active \subseteq Docs /\ Failed \subseteq Docs
    BY DEF Typed, StoresTyped, RestTyped, InQdrant, Active, Failed
  <2>2. ListTyped
    BY DEF Typed
  <2> HIDE DEF Typed
  <2>3. CASE ReadQdrant(l)
    <3>1. PICK seen \in SUBSET Docs :
            list' = [list EXCEPT ![l] = [Nothing EXCEPT !.pc = "jobs", !.indexed = seen,
                                                        !.start = docs \intersect (InQdrant \union Active),
                                                        !.failed = docs \intersect Failed]]
      BY <2>1, <2>3 DEF ReadQdrant
    <3>2. \A a, b, c \in SUBSET Docs :
            [Nothing EXCEPT !.pc = "jobs", !.indexed = a, !.start = b, !.failed = c]
              \in [pc : {"idle", "jobs", "docs", "shown"}, start : SUBSET Docs, failed : SUBSET Docs,
                  indexed : SUBSET Docs, active : SUBSET Docs, shown : SUBSET Docs]
      BY DEF Nothing
    <3>3. docs \intersect (InQdrant \union Active) \in SUBSET Docs /\ docs \intersect Failed \in SUBSET Docs
      BY <2>1
    <3>4. PICK row : /\ list' = [list EXCEPT ![l] = row]
                     /\ row \in [pc : {"idle", "jobs", "docs", "shown"}, start : SUBSET Docs, failed : SUBSET Docs,
                                 indexed : SUBSET Docs, active : SUBSET Docs, shown : SUBSET Docs]
      BY <3>1, <3>2, <3>3
    <3> QED BY <2>2, <3>4 DEF ListTyped
  <2>4. CASE ReadJobs(l)
    <3>1. PICK seen \in SUBSET Docs : list' = [list EXCEPT ![l] = [list[l] EXCEPT !.pc = "docs", !.active = seen]]
      BY <2>1, <2>4, ZenonT(60) DEF ReadJobs
    <3> QED BY <2>2, <3>1 DEF ListTyped
  <2>5. CASE ReadDocs(l)
    BY <2>1, <2>2, <2>5, ZenonT(60) DEF ReadDocs, ListTyped
  <2>6. CASE Listed(l)
    BY <2>2, <2>6 DEF Listed, ListTyped, Nothing
  <2> QED BY <2>3, <2>4, <2>5, <2>6 DEF ListDocs
<1> QED BY <1>1, <1>2 DEF Typed, stores, history, StoresTyped, RestTyped, UpTyped, DelTyped, WorkTyped, ThreadTyped,
                          UpRow, DelRow, WorkRow, ThreadRow

-----------------------------------------------------------------------------
(* A request's caller waits for it, and for no other. *)

CallersWait ==
  /\ \A t \in Threads : thread[t].caller \in Workers =>
       /\ thread[t].pc # "idle"
       /\ work[thread[t].caller].pc = "calling" /\ work[thread[t].caller].doc = thread[t].doc
  /\ \A s, t \in Threads : thread[s].caller \in Workers /\ thread[s].caller = thread[t].caller => s = t

LEMMA RequestTyped ==
  ASSUME Typed, CallersWait, NEW t \in Threads, Request(t) PROVE Typed'
<1>1. ThreadRow(thread[t])
  BY DEF Typed, ThreadTyped
<1>2. UNCHANGED <<objects, uploads, docs, versions, jobs, file, used, queue, up, del, list, losses,
                  unpublished, removed, doomed, overtaken, unclean, dropped>>
  BY DEF Request, Fetch, Write, RequestFails, NotThread, stores, history
<1>3. ThreadTyped' /\ WorkTyped'
  <2>1. CASE \E pc \in {"indexed", "failed"} : Answer(t, pc)
    BY <1>2, <2>1, AnswerTyped DEF CallersWait
  <2>2. CASE ~\E pc \in {"indexed", "failed"} : Answer(t, pc)
    <3>1. PICK to \in Places : /\ thread[t].pc # "idle" /\ work' = work
                               /\ thread' = [thread EXCEPT ![t] = [thread[t] EXCEPT !.pc = to]]
      BY <2>2 DEF Request, Fetch, Write, RequestFails, Places, After
    <3>2. ThreadRow([thread[t] EXCEPT !.pc = to])
      BY <1>1, <3>1 DEF ThreadRow, Places
    <3> QED BY <1>2, <3>1, <3>2, RowsStay DEF Typed, ThreadTyped, WorkTyped
  <2> QED BY <2>1, <2>2
<1>4. RestTyped'
  <2>1. index' \subseteq [place : Places, doc : used]
    <3>1. CASE Write(t)
      <4>1. thread[t].pc \in Places /\ thread[t].doc \in used /\ thread[t].doc \in Docs
        BY <1>1, <3>1 DEF Write, ThreadRow, Places, Typed, StoresTyped
      <4> QED BY <3>1, <4>1 DEF Write, Typed, RestTyped
    <3>2. CASE Fetch(t) \/ RequestFails(t)
      BY <3>2 DEF Fetch, RequestFails, Typed, RestTyped
    <3> QED BY <3>1, <3>2 DEF Request
  <2> QED BY <1>2, <2>1 DEF Typed, RestTyped
<1> QED
  BY <1>2, <1>3, <1>4, RowsStay DEF Typed, StoresTyped, ListTyped, UpTyped, DelTyped

LEMMA CallersStep ==
  ASSUME Typed, CallersWait, [Next]_vars PROVE CallersWait'
<1> DEFINE Same == UNCHANGED <<work, thread>>
<1>0. /\ None \notin Workers
      /\ \A t \in Threads : ThreadRow(thread[t]) /\ thread = [s \in Threads |-> thread[s]]
      /\ \A w \in Workers : WorkRow(work[w]) /\ work = [v \in Workers |-> work[v]]
  BY IngestionAssumption DEF Typed, ThreadTyped, WorkTyped, None
<1>1. CASE Same
  BY <1>1 DEF CallersWait
<1>2. ASSUME NEW w \in Workers, WorkerActs(w), UNCHANGED thread PROVE CallersWait'
  <2>1. PICK r : work' = [work EXCEPT ![w] = r]
    BY <1>2 DEF WorkerActs, OnMessage, MarkRunning, InsertStep, MarkDone, MarkFailed, Ack, Nack, Call,
                WorkFails, TimeOut, LoseChannel, Crash, Take, WorkStep
  <2>2. CASE LoseChannel(w)
    <3>1. work'[w].pc = work[w].pc /\ work'[w].doc = work[w].doc
      BY <1>0, <2>2 DEF LoseChannel, WorkRow
    <3>2. \A v \in Workers : v # w => work'[v] = work[v]
      BY <1>0, <2>1
    <3> QED BY <1>2, <3>1, <3>2 DEF CallersWait
  <2>3. CASE work[w].pc # "calling"
    <3>1. \A t \in Threads : thread[t].caller # w
      BY <2>3 DEF CallersWait
    <3>2. \A v \in Workers : v # w => work'[v] = work[v]
      BY <1>0, <2>1
    <3> QED BY <1>2, <3>1, <3>2 DEF CallersWait
  <2>4. CASE (TimeOut(w) \/ Crash(w)) /\ work[w].pc = "calling"
    <3>1. \A t \in Threads : thread'[t].caller # w
      BY <1>0, <2>4 DEF TimeOut, Crash, ThreadRow
    <3>2. \A v \in Workers : v # w => work'[v] = work[v]
      BY <1>0, <2>1
    <3> QED BY <1>2, <3>1, <3>2 DEF CallersWait
  <2> QED
    BY <1>2, <2>2, <2>3, <2>4 DEF WorkerActs, OnMessage, MarkRunning, InsertStep, MarkDone, MarkFailed,
       Ack, Nack, Call, WorkFails, Take, WorkStep
<1>3. ASSUME NEW w \in Workers, TimeOut(w) \/ Crash(w) PROVE CallersWait'
  <2>1. \A t \in Threads : /\ thread'[t].caller # w
                           /\ thread'[t].pc = thread[t].pc /\ thread'[t].doc = thread[t].doc
                           /\ thread'[t].caller \in Workers => thread'[t].caller = thread[t].caller
    BY <1>0, <1>3 DEF TimeOut, Crash, ThreadRow
  <2>2. \A v \in Workers : v # w => work'[v] = work[v]
    BY <1>0, <1>3 DEF TimeOut, Crash, WorkStep
  <2> QED BY <2>1, <2>2 DEF CallersWait
<1>4. ASSUME NEW w \in Workers, NEW t \in Threads, Call(w, t) PROVE CallersWait'
  <2>1. \A s \in Threads : thread[s].caller # w
    BY <1>4 DEF Call, WorkStep, CallersWait
  <2>2. /\ thread'[t] = [pc |-> "fetch", doc |-> work[w].doc, caller |-> w]
        /\ \A s \in Threads : s # t => thread'[s] = thread[s]
    BY <1>0, <1>4 DEF Call
  <2>3. /\ work'[w].pc = "calling" /\ work'[w].doc = work[w].doc
        /\ \A v \in Workers : v # w => work'[v] = work[v]
    BY <1>0, <1>4 DEF Call, WorkStep, WorkRow
  <2> QED BY <2>1, <2>2, <2>3 DEF CallersWait
<1>5. ASSUME NEW t \in Threads, Request(t) PROVE CallersWait'
  <2>1. CASE \E pc \in {"indexed", "failed"} : Answer(t, pc)
    <3>1. thread'[t].caller = None /\ \A s \in Threads : s # t => thread'[s] = thread[s]
      BY <1>0, <2>1 DEF Answer, Free
    <3>2. \A v \in Workers : v # thread[t].caller => work'[v] = work[v]
      BY <1>0, <2>1 DEF Answer
    <3>3. \A s \in Threads : thread'[s].caller \in Workers =>
            s # t /\ thread'[s] = thread[s] /\ thread[s].caller # thread[t].caller
      BY <1>0, <3>1 DEF CallersWait
    <3> QED BY <3>2, <3>3 DEF CallersWait
  <2>2. CASE ~\E pc \in {"indexed", "failed"} : Answer(t, pc)
    <3>1. PICK to \in Places : /\ thread[t].pc # "idle" /\ work' = work
                               /\ thread' = [thread EXCEPT ![t] = [thread[t] EXCEPT !.pc = to]]
      BY <1>5, <2>2 DEF Request, Fetch, Write, RequestFails, Places, After
    <3>2. \A s \in Threads : /\ thread'[s].caller = thread[s].caller /\ thread'[s].doc = thread[s].doc
                             /\ thread[s].pc # "idle" => thread'[s].pc # "idle"
      BY <1>0, <3>1 DEF ThreadRow, Places
    <3> QED BY <3>1, <3>2 DEF CallersWait
  <2> QED BY <2>1, <2>2
<1>6. ASSUME NEW u \in Uploaders, Upload(u) PROVE Same
  BY <1>6 DEF Upload, LookUp, InsertDoc, PutObject, RecordUpload, InsertVersion, InsertJob, Publish,
              UploadStops, NotUp
<1>7. ASSUME NEW x \in Deleters, DeleteDoc(x) PROVE Same
  BY <1>7 DEF DeleteDoc, AskDelete, Clean, DeleteJobs, RemoveObject, ForgetUpload, DeleteVersions,
              DeleteRow, DeleteStops, NotDel
<1>8. ASSUME NEW l \in Listers, ListDocs(l) PROVE Same
  BY <1>8 DEF ListDocs, ReadQdrant, ReadJobs, ReadDocs, Listed, NotList
<1>9. UNCHANGED vars => Same
  BY DEF vars
<1>10. ASSUME NEW w \in Workers, WorkerActs(w) PROVE CallersWait'
  <2>1. UNCHANGED thread \/ TimeOut(w) \/ Crash(w) \/ \E t \in Threads : Call(w, t)
    BY <1>10 DEF WorkerActs, OnMessage, MarkRunning, InsertStep, MarkDone, MarkFailed, Ack, Nack,
                 WorkFails, LoseChannel, Take, Overtakes
  <2> QED BY <1>2, <1>3, <1>4, <1>10, <2>1
<1> HIDE DEF Same
<1> QED BY <1>1, <1>5, <1>6, <1>7, <1>8, <1>9, <1>10 DEF Next, WorkerActs

TypedInv == Typed /\ CallersWait

LEMMA TypedInvariant == Spec => []TypedInv
<1>1. Init => TypedInv
  <2> SUFFICES ASSUME Init PROVE TypedInv
    OBVIOUS
  <2>1. StoresTyped /\ RestTyped /\ ListTyped
    BY DEF Init, StoresTyped, RestTyped, ListTyped, Statuses, Nothing
  <2>2. UpTyped /\ DelTyped /\ WorkTyped /\ ThreadTyped
    BY DEF Init, UpTyped, DelTyped, WorkTyped, ThreadTyped, UpRow, DelRow, WorkRow, ThreadRow,
           UpIdle, DelIdle, Waiting, Free
  <2>3. CallersWait
    BY IngestionAssumption DEF Init, CallersWait, Free, None
  <2> QED BY <2>1, <2>2, <2>3 DEF TypedInv, Typed
<1>2. TypedInv /\ [Next]_vars => TypedInv'
  <2> SUFFICES ASSUME Typed, CallersWait, [Next]_vars PROVE Typed' /\ CallersWait'
    BY DEF TypedInv
  <2>1. ASSUME UNCHANGED vars PROVE Typed'
    <3>1. used' = used /\ UNCHANGED <<objects, uploads, docs, versions, jobs, file, queue, index, up, del, list, work,
                                      thread, losses, unpublished, removed, doomed, overtaken, unclean, dropped>>
      BY <2>1 DEF vars
    <3> QED BY <3>1, RowsStay DEF Typed, StoresTyped, RestTyped, ListTyped, UpTyped, DelTyped, WorkTyped, ThreadTyped
  <2>2. ASSUME Next PROVE Typed'
    <3>1. \/ \E u \in Uploaders : Upload(u)
          \/ \E w \in Workers : WorkerActs(w)
          \/ \E t \in Threads : Request(t)
          \/ \E x \in Deleters : DeleteDoc(x)
          \/ \E l \in Listers : ListDocs(l)
      BY <2>2 DEF Next, WorkerActs
    <3> QED BY <3>1, UploadTyped, WorkTypedStep, RequestTyped, DeleteTyped, ListTypedStep
  <2>3. Typed'
    BY <2>1, <2>2
  <2> QED BY <2>3, CallersStep
<1> QED BY <1>1, <1>2, PTL DEF Spec

(* Every table, message, point, history and actor of a document's life     *)
(* keeps its type: among them, a version has its row in core.docs, and a   *)
(* message and a point name a document that was uploaded.                  *)
THEOREM TypeCorrect == Spec => []TypeOK
<1>1. TypedInv => TypeOK
  BY TypedIsTypeOK DEF TypedInv
<1> QED BY <1>1, TypedInvariant, PTL

-----------------------------------------------------------------------------
(* One point per document and collection: the id is made from the document. *)

(* Only a request adds to the index. *)
LEMMA IndexSteps ==
  ASSUME [Next]_vars
  PROVE  index' \subseteq index \/ \E t \in Threads : Write(t)
<1>1. ASSUME NEW u \in Uploaders, Upload(u) PROVE index' = index
  BY <1>1 DEF Upload, LookUp, InsertDoc, PutObject, RecordUpload, InsertVersion, InsertJob, Publish,
              UploadStops, NotUp
<1>2. ASSUME NEW w \in Workers, WorkerActs(w) PROVE index' = index
  BY <1>2 DEF WorkerActs, OnMessage, MarkRunning, InsertStep, Call, MarkDone, MarkFailed, Ack, Nack,
              WorkFails, TimeOut, LoseChannel, Crash, Take, Overtakes, Loss
<1>3. ASSUME NEW t \in Threads, Request(t) PROVE index' = index \/ Write(t)
  BY <1>3 DEF Request, Fetch, RequestFails
<1>4. ASSUME NEW x \in Deleters, DeleteDoc(x) PROVE index' \subseteq index
  BY <1>4 DEF DeleteDoc, AskDelete, Clean, DeleteJobs, RemoveObject, ForgetUpload, DeleteVersions,
              DeleteRow, DeleteStops
<1>5. ASSUME NEW l \in Listers, ListDocs(l) PROVE index' = index
  BY <1>5 DEF ListDocs, ReadQdrant, ReadJobs, ReadDocs, Listed, NotList
<1>6. UNCHANGED vars => index' = index
  BY DEF vars
<1> QED BY <1>1, <1>2, <1>3, <1>4, <1>5, <1>6 DEF Next, WorkerActs

-----------------------------------------------------------------------------
(* The object of a document.  A row of core.uploads spares the next upload *)
(* its Put, so that the row itself must not be there before the object; an *)
(* upload that put the object may be overtaken by a deletion, which        *)
(* removed remembers.                                                      *)

Kept == objects \union removed

StoredInv ==
  /\ uploads \subseteq Kept
  /\ \A u \in Uploaders : up[u].pc \in {"put", "stored", "doc", "version", "job"} => up[u].hash \in Kept
  /\ FileIsStored

LEMMA StoredStep == TypedInv /\ StoredInv /\ [Next]_vars => StoredInv'
<1> SUFFICES ASSUME Typed, StoredInv, [Next]_vars PROVE StoredInv'
  BY DEF TypedInv
<1> DEFINE Same == UNCHANGED <<objects, removed, uploads, up, docs, file>>
<1>0. /\ docs \subseteq used /\ used \subseteq Docs
      /\ \A u \in Uploaders : UpRow(up[u]) /\ up = [v \in Uploaders |-> up[v]]
      /\ file \in [Docs -> Hashes \union {None}]
  BY DEF Typed, StoresTyped, UpTyped
<1>1. CASE Same
  BY <1>1 DEF StoredInv, FileIsStored, Kept
<1>2. ASSUME NEW u \in Uploaders, Upload(u) PROVE StoredInv'
  <2>1. Kept \subseteq Kept' /\ removed' = removed
    BY <1>2 DEF Upload, LookUp, InsertDoc, PutObject, RecordUpload, InsertVersion, InsertJob, Publish,
                UploadStops, NotUp, stores, history, Kept
  <2>2. uploads' \subseteq Kept'
    <3>1. uploads' \subseteq uploads \/ (up[u].pc = "put" /\ uploads' \subseteq uploads \union {up[u].hash})
      BY <1>2 DEF Upload, LookUp, InsertDoc, PutObject, RecordUpload, InsertVersion, InsertJob, Publish,
                  UploadStops, UpStep, stores
    <3> QED BY <2>1, <3>1 DEF StoredInv
  <2>3. up'[u].pc \in {"put", "stored", "doc", "version", "job"} => up'[u].hash \in Kept'
    <3>1. ASSUME NEW h \in Hashes, LookUp(u, h) PROVE <2>3
      BY <1>0, <2>1, <3>1 DEF LookUp, StoredInv
    <3>2. CASE PutObject(u)
      BY <1>0, <3>2 DEF PutObject, UpStep, UpRow, Kept
    <3>3. ASSUME NEW d \in Docs, InsertDoc(u, d) PROVE <2>3
      BY <1>0, <2>1, <3>3 DEF InsertDoc, UpRow, StoredInv
    <3>4. CASE RecordUpload(u) \/ InsertVersion(u) \/ InsertJob(u)
      BY <1>0, <2>1, <3>4 DEF RecordUpload, InsertVersion, InsertJob, UpStep, UpRow, StoredInv
    <3>5. CASE Publish(u) \/ UploadStops(u)
      BY <1>0, <3>5 DEF Publish, UploadStops, UpIdle
    <3> QED BY <1>2, <3>1, <3>2, <3>3, <3>4, <3>5 DEF Upload
  <2>4. \A v \in Uploaders : v # u => up'[v] = up[v]
    BY <1>0, <1>2 DEF Upload, LookUp, InsertDoc, PutObject, RecordUpload, InsertVersion, InsertJob, Publish,
                      UploadStops, UpStep
  <2>5. FileIsStored'
    <3>1. ASSUME NEW d \in Docs, InsertDoc(u, d) PROVE FileIsStored'
      <4>1. up[u].hash \in Kept'
        BY <2>1, <3>1 DEF InsertDoc, StoredInv
      <4>2. file'[d] = up[u].hash /\ \A c \in docs : file'[c] = file[c]
        BY <1>0, <3>1 DEF InsertDoc
      <4> QED BY <2>1, <3>1, <4>1, <4>2 DEF InsertDoc, StoredInv, FileIsStored, Kept
    <3>2. CASE ~\E d \in Docs : InsertDoc(u, d)
      <4>1. docs' = docs /\ file' = file
        BY <1>2, <3>2 DEF Upload, LookUp, PutObject, RecordUpload, InsertVersion, InsertJob, Publish,
                          UploadStops, NotUp, stores
      <4> QED BY <2>1, <4>1 DEF StoredInv, FileIsStored, Kept
    <3> QED BY <3>1, <3>2
  <2> QED BY <2>1, <2>2, <2>3, <2>4, <2>5 DEF StoredInv
<1>3. ASSUME NEW x \in Deleters, DeleteDoc(x) PROVE StoredInv'
  <2>1. Kept \subseteq Kept'
    BY <1>3 DEF DeleteDoc, AskDelete, Clean, DeleteJobs, RemoveObject, ForgetUpload, DeleteVersions,
                DeleteRow, DeleteStops, Kept
  <2>2. uploads' \subseteq uploads /\ docs' \subseteq docs /\ UNCHANGED <<up, file>>
    BY <1>3 DEF DeleteDoc, AskDelete, Clean, DeleteJobs, RemoveObject, ForgetUpload, DeleteVersions,
                DeleteRow, DeleteStops, NotDel
  <2> QED BY <2>1, <2>2 DEF StoredInv, FileIsStored, Kept
<1>4. ASSUME NEW w \in Workers, WorkerActs(w) PROVE Same
  BY <1>4 DEF WorkerActs, OnMessage, MarkRunning, InsertStep, Call, MarkDone, MarkFailed, Ack, Nack,
              WorkFails, TimeOut, LoseChannel, Crash, Take, Overtakes, Loss, NotWork, stores, history
<1>5. ASSUME NEW t \in Threads, Request(t) PROVE Same
  BY <1>5 DEF Request, Fetch, Write, RequestFails, NotThread, stores, history
<1>6. ASSUME NEW l \in Listers, ListDocs(l) PROVE Same
  BY <1>6 DEF ListDocs, ReadQdrant, ReadJobs, ReadDocs, Listed, NotList, stores, history
<1>7. UNCHANGED vars => Same
  BY DEF vars
<1> HIDE DEF Same
<1> QED BY <1>1, <1>2, <1>3, <1>4, <1>5, <1>6, <1>7 DEF Next, WorkerActs

(* However uploads of the same content race each other and deletions, the  *)
(* object of a document in core.docs is there, unless a deletion of a      *)
(* document with the same content removed it.                              *)
THEOREM FilesAreStored == Spec => []FileIsStored
<1>1. Init => StoredInv
  BY DEF Init, StoredInv, FileIsStored, UpIdle
<1>2. StoredInv => FileIsStored
  BY DEF StoredInv
<1> QED BY <1>1, <1>2, StoredStep, TypedInvariant, PTL DEF Spec

-----------------------------------------------------------------------------
(* What a done job has in the index.  Along a request the places written   *)
(* so far are there; the answer hands that to the caller, and the caller   *)
(* to the job.  Only a deletion takes points away, and it makes its        *)
(* document doomed first.                                                  *)

Has(d, place) == \E e \in index : e.doc = d /\ e.place = place
Searchable(d) == file[d] \in Readable => Has(d, "chunks") /\ Has(d, "other")

DeletersDoom == \A x \in Deleters : del[x].pc # "idle" => del[x].doc \in doomed

UnusedHaveNoJob == \A d \in Docs \ used : jobs[d] = None

RequestsWrote ==
  \A t \in Threads : thread[t].doc \notin doomed =>
    /\ thread[t].pc \in {"other", "context"} => Has(thread[t].doc, "chunks")
    /\ thread[t].pc = "context" => Has(thread[t].doc, "other")

CallersKnow ==
  \A w \in Workers : work[w].pc = "indexed" /\ work[w].doc \notin doomed => Searchable(work[w].doc)

JobsKnow == \A d \in used \ doomed : jobs[d] = "done" => Searchable(d)

SearchInv == DeletersDoom /\ UnusedHaveNoJob /\ RequestsWrote /\ CallersKnow /\ JobsKnow

LEMMA DoomStep ==
  ASSUME Typed, DeletersDoom, [Next]_vars
  PROVE  DeletersDoom' /\ doomed \subseteq doomed'
<1>0. del = [x \in Deleters |-> del[x]] /\ \A x \in Deleters : DelRow(del[x])
  BY DEF Typed, DelTyped
<1>1. ASSUME NEW x \in Deleters, DeleteDoc(x) PROVE DeletersDoom' /\ doomed \subseteq doomed'
  <2>1. doomed \subseteq doomed'
    BY <1>1 DEF DeleteDoc, AskDelete, Clean, DeleteJobs, RemoveObject, ForgetUpload, DeleteVersions,
                DeleteRow, DeleteStops
  <2>2. \A y \in Deleters : y # x => del'[y] = del[y]
    BY <1>0, <1>1 DEF DeleteDoc, AskDelete, Clean, DeleteJobs, RemoveObject, ForgetUpload, DeleteVersions,
                      DeleteRow, DeleteStops, DelStep
  <2>3. del'[x].pc # "idle" => del'[x].doc \in doomed'
    <3>1. ASSUME NEW d \in Docs, AskDelete(x, d) PROVE <2>3
      BY <1>0, <3>1 DEF AskDelete
    <3>2. CASE DeleteRow(x) \/ DeleteStops(x)
      BY <1>0, <3>2 DEF DeleteRow, DeleteStops, DelIdle
    <3>3. CASE Clean(x) \/ DeleteJobs(x) \/ RemoveObject(x) \/ ForgetUpload(x) \/ DeleteVersions(x)
      <4>1. del'[x].doc = del[x].doc /\ del[x].pc # "idle"
        BY <1>0, <3>3 DEF Clean, DeleteJobs, RemoveObject, ForgetUpload, DeleteVersions, DelStep, DelRow, Places
      <4> QED BY <2>1, <4>1 DEF DeletersDoom
    <3> QED BY <1>1, <3>1, <3>2, <3>3 DEF DeleteDoc
  <2> QED BY <2>1, <2>2, <2>3 DEF DeletersDoom
<1> DEFINE Same == UNCHANGED <<del, doomed>>
<1>2. Same => DeletersDoom' /\ doomed \subseteq doomed'
  BY DEF DeletersDoom
<1>3. ASSUME NEW u \in Uploaders, Upload(u) PROVE Same
  BY <1>3 DEF Upload, LookUp, InsertDoc, PutObject, RecordUpload, InsertVersion, InsertJob, Publish,
              UploadStops, NotUp, history
<1>4. ASSUME NEW w \in Workers, WorkerActs(w) PROVE Same
  BY <1>4 DEF WorkerActs, OnMessage, MarkRunning, InsertStep, Call, MarkDone, MarkFailed, Ack, Nack,
              WorkFails, TimeOut, LoseChannel, Crash, Take, Overtakes, Loss, NotWork, history
<1>5. ASSUME NEW t \in Threads, Request(t) PROVE Same
  BY <1>5 DEF Request, Fetch, Write, RequestFails, NotThread, history
<1>6. ASSUME NEW l \in Listers, ListDocs(l) PROVE Same
  BY <1>6 DEF ListDocs, ReadQdrant, ReadJobs, ReadDocs, Listed, NotList, history
<1>7. UNCHANGED vars => Same
  BY DEF vars
<1> HIDE DEF Same
<1> QED BY <1>1, <1>2, <1>3, <1>4, <1>5, <1>6, <1>7 DEF Next, WorkerActs

(* What was written of a document stays, until someone asks to delete it. *)
LEMMA PointsStay ==
  ASSUME Typed, DeletersDoom, [Next]_vars, NEW d \in used \ doomed
  PROVE  /\ \A place : Has(d, place) => Has(d, place)'
         /\ Searchable(d) => Searchable(d)'
         /\ d \in used'
<1>1. used \subseteq used' /\ file'[d] = file[d]
  <2>0. file \in [Docs -> Hashes \union {None}] /\ used \subseteq Docs
    BY DEF Typed, StoresTyped
  <2>1. ASSUME NEW u \in Uploaders, Upload(u) PROVE <1>1
    BY <2>0, <2>1 DEF Upload, LookUp, InsertDoc, PutObject, RecordUpload, InsertVersion, InsertJob, Publish,
                      UploadStops, stores
  <2>2. ASSUME NEW w \in Workers, WorkerActs(w) PROVE <1>1
    BY <2>2 DEF WorkerActs, OnMessage, MarkRunning, InsertStep, Call, MarkDone, MarkFailed, Ack, Nack,
                WorkFails, TimeOut, LoseChannel, Crash, Take, Overtakes, Loss, NotWork, stores
  <2>3. ASSUME NEW t \in Threads, Request(t) PROVE <1>1
    BY <2>3 DEF Request, Fetch, Write, RequestFails, NotThread, stores
  <2>4. ASSUME NEW x \in Deleters, DeleteDoc(x) PROVE <1>1
    BY <2>4 DEF DeleteDoc, AskDelete, Clean, DeleteJobs, RemoveObject, ForgetUpload, DeleteVersions,
                DeleteRow, DeleteStops, NotDel
  <2>5. ASSUME NEW l \in Listers, ListDocs(l) PROVE <1>1
    BY <2>5 DEF ListDocs, ReadQdrant, ReadJobs, ReadDocs, Listed, NotList, stores
  <2>6. UNCHANGED vars => <1>1
    BY DEF vars
  <2> QED BY <2>1, <2>2, <2>3, <2>4, <2>5, <2>6 DEF Next, WorkerActs
<1>2. \A e \in index : e.doc = d => e \in index'
  <2>1. ASSUME NEW u \in Uploaders, Upload(u) PROVE index' = index
    BY <2>1 DEF Upload, LookUp, InsertDoc, PutObject, RecordUpload, InsertVersion, InsertJob, Publish,
                UploadStops, NotUp
  <2>2. ASSUME NEW w \in Workers, WorkerActs(w) PROVE index' = index
    BY <2>2 DEF WorkerActs, OnMessage, MarkRunning, InsertStep, Call, MarkDone, MarkFailed, Ack, Nack,
                WorkFails, TimeOut, LoseChannel, Crash, Take, Overtakes, Loss
  <2>3. ASSUME NEW t \in Threads, Request(t) PROVE index \subseteq index'
    BY <2>3 DEF Request, Fetch, Write, RequestFails
  <2>4. ASSUME NEW x \in Deleters, DeleteDoc(x) PROVE <1>2
    <3>1. CASE Clean(x)
      <4>1. del[x].doc # d
        BY <3>1 DEF Clean, DeletersDoom, Places
      <4> QED BY <3>1, <4>1 DEF Clean
    <3>2. CASE ~Clean(x)
      BY <2>4, <3>2 DEF DeleteDoc, AskDelete, DeleteJobs, RemoveObject, ForgetUpload, DeleteVersions,
                        DeleteRow, DeleteStops
    <3> QED BY <3>1, <3>2
  <2>5. ASSUME NEW l \in Listers, ListDocs(l) PROVE index' = index
    BY <2>5 DEF ListDocs, ReadQdrant, ReadJobs, ReadDocs, Listed, NotList
  <2>6. UNCHANGED vars => index' = index
    BY DEF vars
  <2> QED BY <2>1, <2>2, <2>3, <2>4, <2>5, <2>6 DEF Next, WorkerActs
<1>3. \A place : Has(d, place) => Has(d, place)'
  BY <1>2 DEF Has
<1> QED BY <1>1, <1>3 DEF Searchable

(* Only a worker and a deletion touch the status of a job that is there. *)
LEMMA JobSteps ==
  ASSUME [Next]_vars
  PROVE  \/ \E u \in Uploaders : InsertJob(u)
         \/ \E w \in Workers : MarkRunning(w) \/ MarkDone(w) \/ MarkFailed(w)
         \/ \E x \in Deleters : DeleteJobs(x)
         \/ jobs' = jobs
<1>1. ASSUME NEW u \in Uploaders, Upload(u) PROVE InsertJob(u) \/ jobs' = jobs
  BY <1>1 DEF Upload, LookUp, InsertDoc, PutObject, RecordUpload, InsertVersion, Publish, UploadStops, stores
<1>2. ASSUME NEW w \in Workers, WorkerActs(w) PROVE MarkRunning(w) \/ MarkDone(w) \/ MarkFailed(w) \/ jobs' = jobs
  BY <1>2 DEF WorkerActs, OnMessage, InsertStep, Call, Ack, Nack, WorkFails, TimeOut, LoseChannel, Crash, Take,
              Overtakes, Loss, stores
<1>3. ASSUME NEW t \in Threads, Request(t) PROVE jobs' = jobs
  BY <1>3 DEF Request, Fetch, Write, RequestFails, NotThread, stores
<1>4. ASSUME NEW x \in Deleters, DeleteDoc(x) PROVE DeleteJobs(x) \/ jobs' = jobs
  BY <1>4 DEF DeleteDoc, AskDelete, Clean, RemoveObject, ForgetUpload, DeleteVersions, DeleteRow, DeleteStops
<1>5. ASSUME NEW l \in Listers, ListDocs(l) PROVE jobs' = jobs
  BY <1>5 DEF ListDocs, ReadQdrant, ReadJobs, ReadDocs, Listed, NotList, stores
<1>6. UNCHANGED vars => jobs' = jobs
  BY DEF vars
<1> QED BY <1>1, <1>2, <1>3, <1>4, <1>5, <1>6 DEF Next, WorkerActs

(* An id that was handed out is not handed out again. *)
LEMMA UsedGrows ==
  ASSUME [Next]_vars
  PROVE  used \subseteq used' /\ docs' \subseteq docs \union (used' \ used)
<1> DEFINE Fresh == used \subseteq used' /\ docs' \subseteq docs \union (used' \ used)
<1>1. ASSUME NEW u \in Uploaders, Upload(u) PROVE Fresh
  BY <1>1 DEF Upload, LookUp, InsertDoc, PutObject, RecordUpload, InsertVersion, InsertJob, Publish,
              UploadStops, stores
<1>2. ASSUME NEW w \in Workers, WorkerActs(w) PROVE Fresh
  BY <1>2 DEF WorkerActs, OnMessage, MarkRunning, InsertStep, Call, MarkDone, MarkFailed, Ack, Nack,
              WorkFails, TimeOut, LoseChannel, Crash, Take, Overtakes, Loss, NotWork, stores
<1>3. ASSUME NEW t \in Threads, Request(t) PROVE Fresh
  BY <1>3 DEF Request, Fetch, Write, RequestFails, NotThread, stores
<1>4. ASSUME NEW x \in Deleters, DeleteDoc(x) PROVE Fresh
  BY <1>4 DEF DeleteDoc, AskDelete, Clean, DeleteJobs, RemoveObject, ForgetUpload, DeleteVersions,
              DeleteRow, DeleteStops, NotDel
<1>5. ASSUME NEW l \in Listers, ListDocs(l) PROVE Fresh
  BY <1>5 DEF ListDocs, ReadQdrant, ReadJobs, ReadDocs, Listed, NotList, stores
<1>6. UNCHANGED vars => Fresh
  BY DEF vars
<1> HIDE DEF Fresh
<1>7. Fresh
  BY <1>1, <1>2, <1>3, <1>4, <1>5, <1>6 DEF Next, WorkerActs
<1> QED BY <1>7 DEF Fresh

LEMMA UnusedStep ==
  ASSUME Typed, Typed', UnusedHaveNoJob, [Next]_vars
  PROVE  UnusedHaveNoJob'
<1>1. /\ jobs \in [Docs -> Statuses] /\ docs \subseteq used /\ used \subseteq Docs
      /\ \A x \in Deleters : DelRow(del[x])
  BY DEF Typed, StoresTyped, DelTyped
<1>2. used \subseteq used'
  BY UsedGrows
<1>3. \A d \in Docs \ used : jobs'[d] = None
  <2>1. ASSUME NEW u \in Uploaders, InsertJob(u) PROVE <1>3
    BY <1>1, <2>1 DEF InsertJob, UnusedHaveNoJob
  <2>2. ASSUME NEW w \in Workers, MarkRunning(w) \/ MarkDone(w) \/ MarkFailed(w) PROVE <1>3
    <3>1. jobs' = jobs \/ \E s : SetJob(work[w].doc, s)
      BY <2>2 DEF MarkRunning, MarkDone, MarkFailed
    <3> QED BY <1>1, <3>1 DEF SetJob, UnusedHaveNoJob
  <2>3. ASSUME NEW x \in Deleters, DeleteJobs(x) PROVE <1>3
    BY <1>1, <2>3 DEF DeleteJobs, UnusedHaveNoJob
  <2>4. jobs' = jobs => <1>3
    BY DEF UnusedHaveNoJob
  <2> QED BY <2>1, <2>2, <2>3, <2>4, JobSteps
<1> QED BY <1>2, <1>3 DEF UnusedHaveNoJob

LEMMA SearchStep == TypedInv /\ SearchInv /\ TypedInv' /\ [Next]_vars => SearchInv'
<1> SUFFICES ASSUME Typed, CallersWait, SearchInv, Typed', [Next]_vars PROVE SearchInv'
  BY DEF TypedInv
<1>0. /\ DeletersDoom /\ UnusedHaveNoJob /\ RequestsWrote /\ CallersKnow /\ JobsKnow
      /\ DeletersDoom' /\ UnusedHaveNoJob' /\ doomed \subseteq doomed'
  BY DoomStep, UnusedStep DEF SearchInv
<1>1. \A d \in used \ doomed : /\ \A place : Has(d, place) => Has(d, place)'
                               /\ Searchable(d) => Searchable(d)'
  BY <1>0, PointsStay
<1>2. /\ None \notin Docs /\ None \notin Workers /\ used \subseteq Docs
      /\ thread = [t \in Threads |-> thread[t]] /\ \A t \in Threads : ThreadRow(thread[t])
      /\ work = [w \in Workers |-> work[w]] /\ \A w \in Workers : WorkRow(work[w])
  BY IngestionAssumption DEF None, Typed, ThreadTyped, WorkTyped, StoresTyped
<1>3. RequestsWrote'
  <2> SUFFICES ASSUME NEW t \in Threads, NEW d, d = thread'[t].doc, d \notin doomed',
                      thread'[t].pc \in {"other", "context"}
               PROVE  Has(d, "chunks")' /\ (thread'[t].pc = "context" => Has(d, "other")')
    BY DEF RequestsWrote
  <2>1. CASE thread'[t].pc = thread[t].pc /\ thread'[t].doc = thread[t].doc
    <3>1. thread[t].pc # "idle" /\ d = thread[t].doc
      BY <2>1
    <3>2. d \in used /\ d \notin doomed
      BY <1>0, <1>2, <3>1 DEF ThreadRow
    <3>3. Has(d, "chunks") /\ (thread[t].pc = "context" => Has(d, "other"))
      BY <1>0, <2>1, <3>1, <3>2 DEF RequestsWrote
    <3> QED BY <1>1, <2>1, <3>2, <3>3
  <2>2. CASE Write(t)
    <3>1. PICK p : p = thread[t].pc
      OBVIOUS
    <3>2. p \in {"chunks", "other"} /\ thread[t].doc = d /\ thread'[t].pc = After(p)
      BY <1>2, <2>2, <3>1 DEF Write, ThreadRow, Places, After, Answer, Free
    <3>3. d \in used /\ d \notin doomed
      BY <1>0, <1>2, <3>1, <3>2 DEF ThreadRow
    <3>4. Has(d, p)'
      <4>1. [place |-> p, doc |-> d] \in index'
        BY <2>2, <3>1, <3>2 DEF Write
      <4> QED BY <4>1 DEF Has
    <3>5. p = "other" => Has(d, "chunks")'
      BY <1>0, <1>1, <3>1, <3>2, <3>3 DEF RequestsWrote
    <3> QED BY <3>2, <3>4, <3>5 DEF After
  <2>3. CASE ~Write(t) /\ ~(thread'[t].pc = thread[t].pc /\ thread'[t].doc = thread[t].doc)
    <3>1. ASSUME NEW w \in Workers, WorkerActs(w) PROVE FALSE
      <4>1. CASE UNCHANGED thread
        BY <2>3, <4>1
      <4>2. CASE TimeOut(w) \/ Crash(w)
        BY <1>2, <2>3, <4>2 DEF TimeOut, Crash, ThreadRow
      <4>3. ASSUME NEW s \in Threads, Call(w, s) PROVE FALSE
        BY <1>2, <2>3, <4>3 DEF Call
      <4> QED BY <3>1, <4>1, <4>2, <4>3 DEF WorkerActs, OnMessage, MarkRunning, InsertStep, MarkDone, MarkFailed, Ack, Nack,
                  WorkFails, LoseChannel, Take, Overtakes
    <3>2. ASSUME NEW s \in Threads, Request(s) PROVE FALSE
      <4>1. CASE s # t
        BY <1>2, <2>3, <3>2, <4>1 DEF Request, Fetch, Write, RequestFails, Answer
      <4>2. CASE s = t
        BY <1>2, <2>3, <3>2, <4>2 DEF Request, Fetch, RequestFails, Answer, Free, ThreadRow
      <4> QED BY <4>1, <4>2
    <3>3. UNCHANGED thread
      <4>1. ASSUME NEW u \in Uploaders, Upload(u) PROVE UNCHANGED thread
        BY <4>1 DEF Upload, LookUp, InsertDoc, PutObject, RecordUpload, InsertVersion, InsertJob, Publish,
                    UploadStops, NotUp
      <4>2. ASSUME NEW x \in Deleters, DeleteDoc(x) PROVE UNCHANGED thread
        BY <4>2 DEF DeleteDoc, AskDelete, Clean, DeleteJobs, RemoveObject, ForgetUpload, DeleteVersions,
                    DeleteRow, DeleteStops, NotDel
      <4>3. ASSUME NEW l \in Listers, ListDocs(l) PROVE UNCHANGED thread
        BY <4>3 DEF ListDocs, ReadQdrant, ReadJobs, ReadDocs, Listed, NotList
      <4>4. UNCHANGED vars => UNCHANGED thread
        BY DEF vars
      <4> QED BY <3>1, <3>2, <4>1, <4>2, <4>3, <4>4 DEF Next, WorkerActs
    <3> QED BY <2>3, <3>3
  <2> QED BY <2>1, <2>2, <2>3
<1>4. CallersKnow'
  <2> SUFFICES ASSUME NEW w \in Workers, NEW d, d = work'[w].doc, d \notin doomed', work'[w].pc = "indexed"
               PROVE  Searchable(d)'
    BY DEF CallersKnow
  <2>1. CASE work'[w].pc = work[w].pc /\ work'[w].doc = work[w].doc
    <3>1. d \in used /\ d \notin doomed
      BY <1>0, <1>2, <2>1 DEF WorkRow
    <3> QED BY <1>0, <1>1, <2>1, <3>1 DEF CallersKnow
  <2>2. ASSUME NEW t \in Threads, Request(t), thread[t].caller = w, Answer(t, "indexed") PROVE Searchable(d)'
    <3>1. d = thread[t].doc /\ thread[t].pc # "idle"
      <4>1. work'[w].doc = work[w].doc
        BY <1>2, <2>2 DEF Answer, WorkRow
      <4> QED BY <2>2, <4>1 DEF CallersWait
    <3>2. d \in used /\ d \notin doomed
      BY <1>0, <1>2, <3>1 DEF ThreadRow
    <3>3. file[d] \notin Readable \/ thread[t].pc = "context"
      <4>0. work[w].pc = "calling" /\ work' # work /\ ~Answer(t, "failed")
        <5>1. work[w].pc = "calling"
          BY <2>2 DEF CallersWait
        <5>2. Answer(t, "failed") => work'[w].pc = "failed"
          BY <1>2, <2>2 DEF Answer, WorkRow
        <5> QED BY <5>1, <5>2
      <4>1. CASE thread[t].pc \in {"chunks", "other"}
        BY <2>2, <4>0, <4>1 DEF Request, Fetch, Write, RequestFails, After
      <4>2. CASE thread[t].pc = "fetch"
        BY <2>2, <3>1, <4>0, <4>2 DEF Request, Fetch, Write, RequestFails, Places
      <4> QED BY <1>2, <3>1, <4>1, <4>2 DEF ThreadRow, Places
    <3>4. Searchable(d)
      BY <1>0, <3>1, <3>2, <3>3 DEF Searchable, RequestsWrote
    <3> QED BY <1>1, <3>2, <3>4
  <2>3. ASSUME NEW v \in Workers, WorkerActs(v)
        PROVE  work'[w].pc = work[w].pc /\ work'[w].doc = work[w].doc
    <3>1. CASE v # w
      BY <1>2, <2>3, <3>1 DEF WorkerActs, OnMessage, MarkRunning, InsertStep, Call, MarkDone, MarkFailed, Ack, Nack,
         WorkFails, TimeOut, LoseChannel, Crash, Take, WorkStep
    <3>2. CASE v = w /\ LoseChannel(w)
      BY <1>2, <3>2 DEF LoseChannel, WorkRow
    <3>3. CASE v = w /\ ~LoseChannel(w)
      <4>1. work'[w].pc # "indexed"
        BY <1>2, <2>3, <3>3 DEF WorkerActs, OnMessage, MarkRunning, InsertStep, Call, MarkDone, MarkFailed, Ack, Nack,
           WorkFails, TimeOut, Crash, Take, WorkStep, WorkRow, Waiting
      <4> QED BY <4>1
    <3> QED BY <3>1, <3>2, <3>3
  <2>4. ASSUME NEW t \in Threads, Request(t)
        PROVE  \/ work'[w].pc = work[w].pc /\ work'[w].doc = work[w].doc
               \/ thread[t].caller = w /\ Answer(t, "indexed")
    <3>1. work' = work \/ Answer(t, "indexed") \/ Answer(t, "failed")
      BY <2>4 DEF Request, Fetch, Write, RequestFails
    <3>2. CASE Answer(t, "failed") /\ thread[t].caller = w
      BY <1>2, <3>2 DEF Answer, WorkRow
    <3>3. ASSUME NEW pc, Answer(t, pc), thread[t].caller # w PROVE work'[w] = work[w]
      BY <1>2, <3>3 DEF Answer
    <3> QED BY <3>1, <3>2, <3>3
  <2>5. ASSUME ~\E v \in Workers : WorkerActs(v), ~\E t \in Threads : Request(t) PROVE UNCHANGED work
    <3>1. ASSUME NEW u \in Uploaders, Upload(u) PROVE UNCHANGED work
      BY <3>1 DEF Upload, LookUp, InsertDoc, PutObject, RecordUpload, InsertVersion, InsertJob, Publish,
                  UploadStops, NotUp
    <3>2. ASSUME NEW x \in Deleters, DeleteDoc(x) PROVE UNCHANGED work
      BY <3>2 DEF DeleteDoc, AskDelete, Clean, DeleteJobs, RemoveObject, ForgetUpload, DeleteVersions,
                  DeleteRow, DeleteStops, NotDel
    <3>3. ASSUME NEW l \in Listers, ListDocs(l) PROVE UNCHANGED work
      BY <3>3 DEF ListDocs, ReadQdrant, ReadJobs, ReadDocs, Listed, NotList
    <3>4. UNCHANGED vars => UNCHANGED work
      BY DEF vars
    <3> QED BY <2>5, <3>1, <3>2, <3>3, <3>4 DEF Next, WorkerActs
  <2> QED BY <2>1, <2>2, <2>3, <2>4, <2>5
<1>5. JobsKnow'
  <2> SUFFICES ASSUME NEW d \in used' \ doomed', jobs'[d] = "done" PROVE Searchable(d)'
    BY DEF JobsKnow
  <2>1. d \in Docs /\ d \notin doomed /\ jobs \in [Docs -> Statuses]
    BY <1>0 DEF Typed, StoresTyped
  <2>2. CASE jobs[d] = "done"
    <3>1. d \in used
      BY <1>0, <2>1, <2>2 DEF UnusedHaveNoJob, None
    <3> QED BY <1>0, <1>1, <2>1, <2>2, <3>1 DEF JobsKnow
  <2>3. CASE jobs[d] # "done"
    <3>1. ASSUME NEW u \in Uploaders, InsertJob(u) PROVE FALSE
      BY <2>1, <2>3, <3>1 DEF InsertJob
    <3>2. ASSUME NEW x \in Deleters, DeleteJobs(x) PROVE FALSE
      BY <2>1, <2>3, <3>2 DEF DeleteJobs, None
    <3>3. ASSUME NEW w \in Workers, MarkRunning(w) \/ MarkFailed(w) PROVE FALSE
      BY <2>1, <2>3, <3>3 DEF MarkRunning, MarkFailed, SetJob
    <3>4. ASSUME NEW w \in Workers, MarkDone(w) PROVE Searchable(d)'
      <4>1. work[w].doc = d /\ work[w].pc = "indexed"
        BY <2>1, <2>3, <3>4 DEF MarkDone, SetJob, WorkStep
      <4>2. d \in used
        BY <1>2, <4>1 DEF WorkRow
      <4> QED BY <1>0, <1>1, <2>1, <4>1, <4>2 DEF CallersKnow
    <3>5. jobs' # jobs
      BY <2>3
    <3> QED BY <3>1, <3>2, <3>3, <3>4, <3>5, JobSteps
  <2> QED BY <2>2, <2>3
<1> QED BY <1>0, <1>3, <1>4, <1>5 DEF SearchInv

LEMMA SearchInvariant == Spec => []SearchInv
<1>1. Init => SearchInv
  BY DEF Init, SearchInv, DeletersDoom, UnusedHaveNoJob, RequestsWrote, CallersKnow, JobsKnow,
         DelIdle, Free, Waiting
<1>2. TypedInv /\ TypedInv' /\ SearchInv /\ [Next]_vars => SearchInv'
  BY SearchStep
<1> QED BY <1>1, <1>2, TypedInvariant, PTL DEF Spec

(* A job marked done has indexed its document in both Qdrant collections,  *)
(* after any redelivery, time-out or overlapping request, unless the file  *)
(* held nothing to index or a deletion of the document was asked for.      *)
THEOREM DoneWasIndexed == Spec => []DoneIsSearchable
<1>1. SearchInv => DoneIsSearchable
  <2> SUFFICES ASSUME SearchInv, NEW d \in used \ doomed, jobs[d] = "done", file[d] \in Readable
               PROVE  {"chunks", "other"} \subseteq {e.place : e \in Indexed(d)}
    BY DEF DoneIsSearchable
  <2>1. Has(d, "chunks") /\ Has(d, "other")
    BY DEF SearchInv, JobsKnow, Searchable
  <2> QED BY <2>1 DEF Has, Indexed
<1> QED BY <1>1, SearchInvariant, PTL

-----------------------------------------------------------------------------
(* What a deletion leaves in the index.  Once it was asked for, a document *)
(* that is not overtaken is not being indexed and will not be, so that the *)
(* places cleaned so far stay clean until the row goes.                    *)

Clear(d) == d \notin overtaken \union unclean

CleanedBefore(pc) == CASE pc = "chunks" -> {} [] pc = "other" -> {"chunks"}
                       [] pc = "context" -> {"chunks", "other"} [] OTHER -> Places

DoomedAreLeftAlone == \A d \in doomed \ overtaken : ~BeingIndexed(d)

PlacesStayClean ==
  \A x \in Deleters : del[x].pc # "idle" /\ Clear(del[x].doc) =>
    \A place \in CleanedBefore(del[x].pc) : ~Has(del[x].doc, place)

GoneAreClean ==
  \A d \in used \ docs : d \in doomed /\ (Clear(d) => \A place \in Places : ~Has(d, place))

OrphanInv == DeletersDoom /\ DoomedAreLeftAlone /\ PlacesStayClean /\ GoneAreClean

LEMMA HistoryGrows ==
  ASSUME [Next]_vars
  PROVE  overtaken \subseteq overtaken' /\ unclean \subseteq unclean'
<1> DEFINE Grows == overtaken \subseteq overtaken' /\ unclean \subseteq unclean'
<1>1. ASSUME NEW u \in Uploaders, Upload(u) PROVE Grows
  BY <1>1 DEF Upload, LookUp, InsertDoc, PutObject, RecordUpload, InsertVersion, InsertJob, Publish,
              UploadStops, NotUp, history
<1>2. ASSUME NEW w \in Workers, WorkerActs(w) PROVE Grows
  BY <1>2 DEF WorkerActs, OnMessage, MarkRunning, InsertStep, Call, MarkDone, MarkFailed, Ack, Nack,
              WorkFails, TimeOut, LoseChannel, Crash, Take, Overtakes, Loss, NotWork, history
<1>3. ASSUME NEW t \in Threads, Request(t) PROVE Grows
  BY <1>3 DEF Request, Fetch, Write, RequestFails, NotThread, history
<1>4. ASSUME NEW x \in Deleters, DeleteDoc(x) PROVE Grows
  BY <1>4 DEF DeleteDoc, AskDelete, Clean, DeleteJobs, RemoveObject, ForgetUpload, DeleteVersions,
              DeleteRow, DeleteStops
<1>5. ASSUME NEW l \in Listers, ListDocs(l) PROVE Grows
  BY <1>5 DEF ListDocs, ReadQdrant, ReadJobs, ReadDocs, Listed, NotList, history
<1>6. UNCHANGED vars => Grows
  BY DEF vars
<1> HIDE DEF Grows
<1>7. Grows
  BY <1>1, <1>2, <1>3, <1>4, <1>5, <1>6 DEF Next, WorkerActs
<1> QED BY <1>7 DEF Grows

(* Only the check of the job, passed while the job is there, or the        *)
(* request for the deletion itself can make a doomed document indexed.     *)
LEMMA LeftAloneStep ==
  ASSUME Typed, OrphanInv, [Next]_vars
  PROVE  DoomedAreLeftAlone'
<1>0. /\ None \notin Docs /\ doomed \subseteq used /\ used \subseteq Docs
      /\ thread = [t \in Threads |-> thread[t]] /\ \A t \in Threads : ThreadRow(thread[t])
      /\ work = [w \in Workers |-> work[w]] /\ \A w \in Workers : WorkRow(work[w])
      /\ DoomedAreLeftAlone /\ overtaken \subseteq overtaken'
  BY IngestionAssumption, HistoryGrows DEF None, Typed, ThreadTyped, WorkTyped, StoresTyped, RestTyped, OrphanInv
<1>1. ASSUME NEW d \in Docs, ~BeingIndexed(d)
      PROVE  ~BeingIndexed(d)' \/ \E w \in Workers : InsertStep(w) /\ work[w].doc = d /\ jobs[d] # None
  <2>0. /\ \A w \in Workers : work[w].doc = d => work[w].pc \notin {"started", "calling"}
        /\ \A t \in Threads : thread[t].doc # d
    BY <1>1 DEF BeingIndexed
  <2> SUFFICES ASSUME ~\E w \in Workers : InsertStep(w) /\ work[w].doc = d /\ jobs[d] # None
               PROVE  /\ \A w \in Workers : work'[w].doc = d => work'[w].pc \notin {"started", "calling"}
                      /\ \A t \in Threads : thread'[t].doc # d
    BY DEF BeingIndexed
  <2> DEFINE Alone == /\ \A w \in Workers : work'[w].doc = d => work'[w].pc \notin {"started", "calling"}
                      /\ \A t \in Threads : thread'[t].doc # d
  <2>1. ASSUME NEW w \in Workers, WorkerActs(w) PROVE Alone
    <3>1. \A v \in Workers : v # w => work'[v] = work[v]
      BY <1>0, <2>1 DEF WorkerActs, OnMessage, MarkRunning, InsertStep, Call, MarkDone, MarkFailed, Ack, Nack,
         WorkFails, TimeOut, LoseChannel, Crash, Take, WorkStep
    <3>2. work'[w].doc = d => work'[w].pc \notin {"started", "calling"}
      <4>1. CASE InsertStep(w)
        BY <1>0, <4>1 DEF InsertStep, WorkStep, WorkRow
      <4>2. ASSUME NEW t \in Threads, Call(w, t) PROVE <3>2
        BY <1>0, <2>0, <4>2 DEF Call, WorkStep, WorkRow
      <4>3. CASE LoseChannel(w)
        BY <1>0, <2>0, <4>3 DEF LoseChannel, WorkRow
      <4>4. CASE ~InsertStep(w) /\ ~LoseChannel(w) /\ ~\E t \in Threads : Call(w, t)
        BY <1>0, <2>1, <4>4 DEF WorkerActs, OnMessage, MarkRunning, MarkDone, MarkFailed, Ack, Nack,
           WorkFails, TimeOut, Crash, Take, WorkStep, WorkRow, Waiting
      <4> QED BY <4>1, <4>2, <4>3, <4>4
    <3>3. \A t \in Threads : thread'[t].doc # d
      <4>1. ASSUME NEW t \in Threads, Call(w, t) PROVE <3>3
        BY <1>0, <2>0, <4>1 DEF Call, WorkStep
      <4>2. CASE TimeOut(w) \/ Crash(w)
        BY <1>0, <2>0, <4>2 DEF TimeOut, Crash, ThreadRow
      <4>3. CASE UNCHANGED thread
        BY <2>0, <4>3
      <4> QED BY <2>1, <4>1, <4>2, <4>3 DEF WorkerActs, OnMessage, MarkRunning, InsertStep, MarkDone, MarkFailed, Ack, Nack,
         WorkFails, LoseChannel, Take, Overtakes
    <3> QED BY <2>0, <3>1, <3>2, <3>3
  <2>2. ASSUME NEW t \in Threads, Request(t) PROVE Alone
    <3>1. CASE \E pc \in {"indexed", "failed"} : Answer(t, pc)
      <4>1. PICK pc \in {"indexed", "failed"} : Answer(t, pc)
        BY <3>1
      <4>2. \A w \in Workers : work'[w] = work[w] \/ work'[w].pc = pc
        BY <1>0, <4>1 DEF Answer, WorkRow
      <4>3. \A s \in Threads : thread'[s] = thread[s] \/ thread'[s].doc = None
        BY <1>0, <4>1 DEF Answer, Free
      <4> QED BY <1>0, <2>0, <4>2, <4>3
    <3>2. CASE ~\E pc \in {"indexed", "failed"} : Answer(t, pc)
      <4>1. PICK to \in Places : work' = work /\ thread' = [thread EXCEPT ![t] = [thread[t] EXCEPT !.pc = to]]
        BY <2>2, <3>2 DEF Request, Fetch, Write, RequestFails, Places, After
      <4>2. \A s \in Threads : thread'[s].doc = thread[s].doc
        BY <1>0, <4>1 DEF ThreadRow
      <4> QED BY <2>0, <4>1, <4>2
    <3> QED BY <3>1, <3>2
  <2>3. UNCHANGED <<work, thread>> => Alone
    BY <2>0
  <2>4. ASSUME ~\E w \in Workers : WorkerActs(w), ~\E t \in Threads : Request(t) PROVE UNCHANGED <<work, thread>>
    <3>1. ASSUME NEW u \in Uploaders, Upload(u) PROVE UNCHANGED <<work, thread>>
      BY <3>1 DEF Upload, LookUp, InsertDoc, PutObject, RecordUpload, InsertVersion, InsertJob, Publish,
                  UploadStops, NotUp
    <3>2. ASSUME NEW x \in Deleters, DeleteDoc(x) PROVE UNCHANGED <<work, thread>>
      BY <3>2 DEF DeleteDoc, AskDelete, Clean, DeleteJobs, RemoveObject, ForgetUpload, DeleteVersions,
                  DeleteRow, DeleteStops, NotDel
    <3>3. ASSUME NEW l \in Listers, ListDocs(l) PROVE UNCHANGED <<work, thread>>
      BY <3>3 DEF ListDocs, ReadQdrant, ReadJobs, ReadDocs, Listed, NotList
    <3>4. UNCHANGED vars => UNCHANGED <<work, thread>>
      BY DEF vars
    <3> QED BY <2>4, <3>1, <3>2, <3>3, <3>4 DEF Next, WorkerActs
  <2> HIDE DEF Alone
  <2>5. Alone
    BY <2>1, <2>2, <2>3, <2>4
  <2> QED BY <2>5 DEF Alone
<1>2. SUFFICES ASSUME NEW d \in doomed' \ overtaken' PROVE ~BeingIndexed(d)'
  BY DEF DoomedAreLeftAlone
<1>3. CASE d \in doomed
  <2>1. ~BeingIndexed(d) /\ d \in Docs
    BY <1>0, <1>2, <1>3 DEF DoomedAreLeftAlone
  <2>2. ASSUME NEW w \in Workers, InsertStep(w), work[w].doc = d, jobs[d] # None PROVE FALSE
    BY <1>2, <1>3, <2>2 DEF InsertStep, Overtakes
  <2> QED BY <1>1, <2>1, <2>2
<1>4. CASE d \notin doomed
  <2>1. PICK x \in Deleters : AskDelete(x, d)
    <3>1. ASSUME NEW u \in Uploaders, Upload(u) PROVE FALSE
      BY <1>2, <1>4, <3>1 DEF Upload, LookUp, InsertDoc, PutObject, RecordUpload, InsertVersion, InsertJob, Publish,
                  UploadStops, NotUp, history
    <3>2. ASSUME NEW w \in Workers, WorkerActs(w) PROVE FALSE
      BY <1>2, <1>4, <3>2 DEF WorkerActs, OnMessage, MarkRunning, InsertStep, Call, MarkDone, MarkFailed, Ack, Nack,
                  WorkFails, TimeOut, LoseChannel, Crash, Take, Overtakes, Loss, NotWork, history
    <3>3. ASSUME NEW t \in Threads, Request(t) PROVE FALSE
      BY <1>2, <1>4, <3>3 DEF Request, Fetch, Write, RequestFails, NotThread, history
    <3>4. ASSUME NEW x \in Deleters, DeleteDoc(x) PROVE AskDelete(x, d)
      BY <1>2, <1>4, <3>4 DEF DeleteDoc, AskDelete, Clean, DeleteJobs, RemoveObject, ForgetUpload, DeleteVersions,
                  DeleteRow, DeleteStops
    <3>5. ASSUME NEW l \in Listers, ListDocs(l) PROVE FALSE
      BY <1>2, <1>4, <3>5 DEF ListDocs, ReadQdrant, ReadJobs, ReadDocs, Listed, NotList, history
    <3>6. ~UNCHANGED vars
      BY <1>2, <1>4 DEF vars
    <3> QED BY <3>1, <3>2, <3>3, <3>4, <3>5, <3>6 DEF Next, WorkerActs
  <2>2. ~BeingIndexed(d) /\ UNCHANGED <<work, thread>>
    BY <1>2, <2>1 DEF AskDelete, NotDel
  <2> QED BY <2>2 DEF BeingIndexed
<1> QED BY <1>3, <1>4

LEMMA OrphanStep == TypedInv /\ OrphanInv /\ [Next]_vars => OrphanInv'
<1> SUFFICES ASSUME Typed, OrphanInv, [Next]_vars PROVE OrphanInv'
  BY DEF TypedInv
<1>0. /\ DeletersDoom /\ DeletersDoom' /\ doomed \subseteq doomed' /\ doomed \subseteq used /\ docs \subseteq used
      /\ DoomedAreLeftAlone /\ DoomedAreLeftAlone' /\ PlacesStayClean /\ GoneAreClean
      /\ \A d : ~Clear(d) => ~Clear(d)'
      /\ del = [x \in Deleters |-> del[x]] /\ \A x \in Deleters : DelRow(del[x])
  BY DoomStep, LeftAloneStep, HistoryGrows DEF OrphanInv, Clear, Typed, DelTyped, RestTyped, StoresTyped
<1>1. ASSUME NEW d \in doomed, Clear(d), NEW place, Has(d, place)' PROVE Has(d, place)
  <2>1. CASE index' \subseteq index
    BY <1>1, <2>1 DEF Has
  <2>2. ASSUME NEW t \in Threads, Write(t) PROVE Has(d, place)
    <3>1. ~BeingIndexed(d)
      BY <1>0, <1>1 DEF DoomedAreLeftAlone, Clear
    <3>2. thread[t].doc # d
      BY <3>1 DEF BeingIndexed
    <3> QED BY <1>1, <2>2, <3>2 DEF Write, Has
  <2> QED BY <2>1, <2>2, IndexSteps
<1>2. PlacesStayClean'
  <2> SUFFICES ASSUME NEW x \in Deleters, del'[x].pc # "idle", NEW d, d = del'[x].doc, Clear(d)',
                      NEW place \in CleanedBefore(del'[x].pc)
               PROVE  ~Has(d, place)'
    BY DEF PlacesStayClean, Clear, CleanedBefore
  <2>1. Clear(d)
    BY <1>0
  <2>2. CASE del'[x] = del[x]
    <3>1. d \in doomed /\ ~Has(d, place)
      BY <1>0, <2>1, <2>2 DEF DeletersDoom, PlacesStayClean
    <3> QED BY <1>1, <2>1, <3>1
  <2>3. CASE DeleteDoc(x)
    <3>1. ASSUME NEW c \in Docs, AskDelete(x, c) PROVE FALSE
      BY <1>0, <3>1 DEF AskDelete, CleanedBefore
    <3>2. CASE DeleteRow(x) \/ DeleteStops(x)
      BY <1>0, <3>2 DEF DeleteRow, DeleteStops, DelIdle
    <3>3. CASE Clean(x)
      <4>1. PICK p \in Places : p = del[x].pc
        BY <3>3 DEF Clean
      <4>2. d = del[x].doc /\ del[x].pc # "idle" /\ d \in doomed
        BY <1>0, <3>3 DEF Clean, DelRow, DeletersDoom, Places
      <4>3. place \in CleanedBefore(p) \union {p}
        BY <1>0, <3>3, <4>1 DEF Clean, CleanedBefore, Places, After, DelRow
      <4>4. CASE place = p
        <5>1. index' = {e \in index : ~(e.doc = d /\ e.place = p)}
          BY <3>3, <4>1, <4>2 DEF Clean, Clear
        <5> QED BY <4>4, <5>1 DEF Has
      <4>5. CASE place \in CleanedBefore(p)
        <5>1. ~Has(d, place)
          BY <1>0, <2>1, <4>1, <4>2, <4>5 DEF PlacesStayClean
        <5> QED BY <1>1, <2>1, <4>2, <5>1
      <4> QED BY <4>3, <4>4, <4>5
    <3>4. CASE DeleteJobs(x) \/ RemoveObject(x) \/ ForgetUpload(x) \/ DeleteVersions(x)
      <4>1. /\ d = del[x].doc /\ del[x].pc \in {"jobs", "object", "upload", "versions"}
            /\ del'[x].pc \in {"object", "upload", "versions", "docs"}
        BY <1>0, <3>4 DEF DeleteJobs, RemoveObject, ForgetUpload, DeleteVersions, DelStep, DelRow
      <4>2. d \in doomed /\ place \in CleanedBefore(del[x].pc)
        BY <1>0, <4>1 DEF DeletersDoom, CleanedBefore
      <4>3. ~Has(d, place)
        BY <1>0, <2>1, <4>1, <4>2 DEF PlacesStayClean
      <4> QED BY <1>1, <2>1, <4>2, <4>3
    <3> QED BY <2>3, <3>1, <3>2, <3>3, <3>4 DEF DeleteDoc
  <2>4. del'[x] = del[x] \/ DeleteDoc(x)
    <3>1. ASSUME NEW u \in Uploaders, Upload(u) PROVE del' = del
      BY <3>1 DEF Upload, LookUp, InsertDoc, PutObject, RecordUpload, InsertVersion, InsertJob, Publish,
                  UploadStops, NotUp
    <3>2. ASSUME NEW w \in Workers, WorkerActs(w) PROVE del' = del
      BY <3>2 DEF WorkerActs, OnMessage, MarkRunning, InsertStep, Call, MarkDone, MarkFailed, Ack, Nack,
                  WorkFails, TimeOut, LoseChannel, Crash, Take, Overtakes, Loss, NotWork
    <3>3. ASSUME NEW t \in Threads, Request(t) PROVE del' = del
      BY <3>3 DEF Request, Fetch, Write, RequestFails, NotThread
    <3>4. ASSUME NEW y \in Deleters, DeleteDoc(y), y # x PROVE del'[x] = del[x]
      BY <1>0, <3>4 DEF DeleteDoc, AskDelete, Clean, DeleteJobs, RemoveObject, ForgetUpload, DeleteVersions,
                  DeleteRow, DeleteStops, DelStep
    <3>5. ASSUME NEW l \in Listers, ListDocs(l) PROVE del' = del
      BY <3>5 DEF ListDocs, ReadQdrant, ReadJobs, ReadDocs, Listed, NotList
    <3>6. UNCHANGED vars => del' = del
      BY DEF vars
    <3> QED BY <3>1, <3>2, <3>3, <3>4, <3>5, <3>6 DEF Next, WorkerActs
  <2> QED BY <2>2, <2>3, <2>4
<1>3. GoneAreClean'
  <2> SUFFICES ASSUME NEW d \in used' \ docs'
               PROVE  d \in doomed' /\ (Clear(d)' => \A place \in Places : ~Has(d, place)')
    BY DEF GoneAreClean, Clear
  <2>1. CASE d \in used \ docs
    <3>1. d \in doomed /\ (Clear(d) => \A place \in Places : ~Has(d, place))
      BY <1>0, <2>1 DEF GoneAreClean
    <3> QED BY <1>0, <1>1, <3>1
  <2>2. CASE d \notin used \ docs
    <3>1. PICK x \in Deleters : DeleteRow(x) /\ del[x].doc = d
      <4>1. ASSUME NEW u \in Uploaders, Upload(u) PROVE FALSE
        BY <2>2, <4>1 DEF Upload, LookUp, InsertDoc, PutObject, RecordUpload, InsertVersion, InsertJob, Publish,
                    UploadStops, NotUp, stores
      <4>2. ASSUME NEW w \in Workers, WorkerActs(w) PROVE FALSE
        BY <2>2, <4>2 DEF WorkerActs, OnMessage, MarkRunning, InsertStep, Call, MarkDone, MarkFailed, Ack, Nack,
                    WorkFails, TimeOut, LoseChannel, Crash, Take, Overtakes, Loss, NotWork, stores
      <4>3. ASSUME NEW t \in Threads, Request(t) PROVE FALSE
        BY <2>2, <4>3 DEF Request, Fetch, Write, RequestFails, NotThread, stores
      <4>4. ASSUME NEW x \in Deleters, DeleteDoc(x) PROVE DeleteRow(x) /\ del[x].doc = d
        BY <2>2, <4>4 DEF DeleteDoc, AskDelete, Clean, DeleteJobs, RemoveObject, ForgetUpload, DeleteVersions,
                    DeleteRow, DeleteStops, NotDel
      <4>5. ASSUME NEW l \in Listers, ListDocs(l) PROVE FALSE
        BY <2>2, <4>5 DEF ListDocs, ReadQdrant, ReadJobs, ReadDocs, Listed, NotList, stores
      <4>6. ~UNCHANGED vars
        BY <2>2 DEF vars
      <4> QED BY <4>1, <4>2, <4>3, <4>4, <4>5, <4>6 DEF Next, WorkerActs
    <3>2. del[x].pc = "docs" /\ d \in doomed
      BY <1>0, <3>1 DEF DeleteRow, DeletersDoom
    <3>3. Clear(d) => \A place \in Places : ~Has(d, place)
      BY <1>0, <3>1, <3>2 DEF PlacesStayClean, CleanedBefore
    <3> QED BY <1>0, <1>1, <3>2, <3>3
  <2> QED BY <2>1, <2>2
<1> QED BY <1>0, <1>2, <1>3 DEF OrphanInv

(* What is left of a document in the index after its row is gone is there  *)
(* because a part of the clean-up failed, or because the worker was at it  *)
(* when the deletion was asked for or passed its check of the job between  *)
(* that and the deletion of the job: after the job is gone nothing starts. *)
THEOREM OrphansWereOvertaken == Spec => []OrphansAreOvertaken
<1>1. Init => OrphanInv
  BY DEF Init, OrphanInv, DeletersDoom, DoomedAreLeftAlone, PlacesStayClean, GoneAreClean, DelIdle
<1>2. TypedInv /\ OrphanInv => OrphansAreOvertaken
  <2> SUFFICES ASSUME Typed, OrphanInv, NEW d \in used \ docs, Indexed(d) # {}
               PROVE  d \in overtaken \union unclean
    BY DEF TypedInv, OrphansAreOvertaken
  <2>1. PICK e \in index : e.doc = d /\ e.place \in Places
    BY DEF Indexed, Typed, RestTyped
  <2> QED BY <2>1 DEF OrphanInv, GoneAreClean, Clear, Has
<1> QED BY <1>1, <1>2, OrphanStep, TypedInvariant, PTL DEF Spec

-----------------------------------------------------------------------------
(* The list and a failed document.  Without a loss a document has one      *)
(* message, so that nobody is left to change the status of a failed job    *)
(* except a deletion; then each read of the list that follows finds it.    *)

Holds(u, d) == up[u].pc \in {"doc", "version", "job"} /\ up[u].doc = d
Works(w, d) == work[w].pc # "idle" /\ work[w].doc = d

OneMessage ==
  \A d \in Docs :
    /\ \A u, v \in Uploaders : Holds(u, d) /\ Holds(v, d) => u = v
    /\ \A u \in Uploaders : Holds(u, d) => d \notin queue /\ \A w \in Workers : ~Works(w, d)
    /\ d \in queue => \A w \in Workers : ~Works(w, d)
    /\ \A v, w \in Workers : Works(v, d) /\ Works(w, d) => v = w

Finished(d) ==
  /\ d \in used /\ d \notin queue /\ jobs[d] \in {"failed", None}
  /\ \A u \in Uploaders : ~Holds(u, d)
  /\ \A w \in Workers : Works(w, d) => work[w].pc = "nack"

LEMMA UploadHolds ==
  ASSUME Typed, NEW u \in Uploaders, Upload(u), NEW d \in Docs
  PROVE  /\ \A v \in Uploaders : v # u => (Holds(v, d)' <=> Holds(v, d))
         /\ UNCHANGED work
         /\ \/ /\ Holds(u, d)' => Holds(u, d)
               /\ queue' = queue \/ (~Holds(u, d)' /\ \E c \in Docs : Holds(u, c) /\ queue' = queue \union {c})
            \/ d \notin used /\ queue' = queue
<1>0. up = [v \in Uploaders |-> up[v]] /\ \A v \in Uploaders : UpRow(up[v])
  BY DEF Typed, UpTyped
<1>1. UNCHANGED work
  BY DEF Upload, LookUp, InsertDoc, PutObject, RecordUpload, InsertVersion, InsertJob, Publish,
         UploadStops, NotUp
<1>2. \A v \in Uploaders : v # u => up'[v] = up[v]
  BY <1>0 DEF Upload, LookUp, InsertDoc, PutObject, RecordUpload, InsertVersion, InsertJob, Publish,
              UploadStops, UpStep
<1>3. CASE Publish(u)
  <2>1. up[u].doc \in Docs /\ up[u].pc = "job" /\ up'[u] = UpIdle /\ queue' = queue \union {up[u].doc}
    BY <1>0, <1>3, IngestionAssumption DEF Publish, UpRow, Typed, StoresTyped
  <2> QED BY <1>1, <1>2, <2>1 DEF Holds, UpIdle
<1>4. CASE ~Publish(u)
  <2>1. queue' = queue
    BY <1>4 DEF Upload, LookUp, InsertDoc, PutObject, RecordUpload, InsertVersion, InsertJob,
                UploadStops, NotUp
  <2>2. (Holds(u, d)' => Holds(u, d)) \/ d \notin used
    <3>1. ASSUME NEW h \in Hashes, LookUp(u, h) PROVE <2>2
      BY <1>0, <3>1 DEF LookUp, Holds
    <3>2. ASSUME NEW c \in Docs, InsertDoc(u, c) PROVE <2>2
      BY <1>0, <3>2 DEF InsertDoc, Holds, UpRow
    <3>3. CASE PutObject(u) \/ RecordUpload(u) \/ InsertVersion(u) \/ InsertJob(u)
      BY <1>0, <3>3 DEF PutObject, RecordUpload, InsertVersion, InsertJob, UpStep, Holds, UpRow
    <3>4. CASE UploadStops(u)
      BY <1>0, <3>4 DEF UploadStops, Holds, UpIdle
    <3> QED BY <1>4, <3>1, <3>2, <3>3, <3>4 DEF Upload
  <2> QED BY <1>1, <1>2, <2>1, <2>2 DEF Holds
<1> QED BY <1>3, <1>4

(* The other actors hand out no message again; a worker takes one.         *)
LEMMA OthersWork ==
  ASSUME Typed, CallersWait, [Next]_vars, losses' = losses, ~\E u \in Uploaders : Upload(u), NEW d \in Docs
  PROVE  /\ UNCHANGED up
         /\ \A w \in Workers : Works(w, d)' => Works(w, d) \/ (Take(w, d) /\ d \in queue /\ d \notin queue')
         /\ \A v, w \in Workers : Take(w, d) /\ v # w => (Works(v, d)' <=> Works(v, d))
         /\ queue' \subseteq queue
         /\ \A w \in Workers : Works(w, d) /\ Works(w, d)' /\ work[w].pc = "nack" => work'[w].pc = "nack"
<1>0. /\ work = [w \in Workers |-> work[w]] /\ \A w \in Workers : WorkRow(work[w]) /\ losses \in Nat
  BY DEF Typed, WorkTyped, RestTyped
<1>1. ASSUME NEW v \in Workers, WorkerActs(v)
      PROVE  /\ UNCHANGED up /\ queue' \subseteq queue
             /\ \A w \in Workers : w # v => work'[w] = work[w]
             /\ Works(v, d)' => Works(v, d) \/ (Take(v, d) /\ d \in queue /\ d \notin queue')
             /\ Works(v, d) /\ Works(v, d)' => work[v].pc # "nack"
  <2>1. losses' # losses + 1
    BY <1>0
  <2>2. UNCHANGED up /\ queue' \subseteq queue
    BY <1>1, <2>1 DEF WorkerActs, OnMessage, MarkRunning, InsertStep, Call, MarkDone, MarkFailed, Ack, Nack,
                WorkFails, TimeOut, LoseChannel, Crash, Take, Overtakes, Loss, NotWork
  <2>3. \A w \in Workers : w # v => work'[w] = work[w]
    BY <1>0, <1>1, <2>1 DEF WorkerActs, OnMessage, MarkRunning, InsertStep, Call, MarkDone, MarkFailed, Ack, Nack,
                      WorkFails, TimeOut, LoseChannel, Crash, Loss, Take, WorkStep
  <2>4. CASE \E c \in Docs : Take(v, c)
    <3>1. PICK c \in Docs : Take(v, c)
      BY <2>4
    <3>2. work'[v].doc = c /\ work[v].pc = "idle" /\ c \in queue /\ c \notin queue'
      BY <1>0, <3>1 DEF Take
    <3>3. Works(v, d)' => c = d
      BY <3>2 DEF Works
    <3>4. ~Works(v, d)
      BY <3>2 DEF Works
    <3> QED BY <2>2, <2>3, <3>1, <3>2, <3>3, <3>4
  <2>5. CASE Nack(v) \/ (Ack(v) /\ work' = [work EXCEPT ![v] = Waiting])
    BY <1>0, <2>2, <2>3, <2>5 DEF Nack, Works, Waiting
  <2>6. CASE ~(Nack(v) \/ (Ack(v) /\ work' = [work EXCEPT ![v] = Waiting])) /\ ~\E c \in Docs : Take(v, c)
    <3>1. PICK to : /\ work' = [work EXCEPT ![v] = [work[v] EXCEPT !.pc = to]]
                    /\ work[v].pc \notin {"idle", "nack"}
      BY <1>1, <2>1, <2>6 DEF WorkerActs, OnMessage, MarkRunning, InsertStep, Call, MarkDone, MarkFailed,
                              Ack, WorkFails, TimeOut, LoseChannel, Crash, Loss, WorkStep
    <3>2. work'[v].doc = work[v].doc
      BY <1>0, <3>1 DEF WorkRow
    <3> QED BY <2>2, <2>3, <3>1, <3>2 DEF Works
  <2> QED BY <2>4, <2>5, <2>6
<1>2. ASSUME NEW t \in Threads, Request(t)
      PROVE  /\ UNCHANGED <<up, queue>>
             /\ \A w \in Workers :
                  \/ work'[w] = work[w]
                  \/ work[w].pc = "calling" /\ work'[w].doc = work[w].doc
  <2>1. UNCHANGED <<up, queue>>
    BY <1>2 DEF Request, Fetch, Write, RequestFails, NotThread
  <2>2. ASSUME NEW pc, Answer(t, pc), NEW w \in Workers, work'[w] # work[w]
        PROVE  work[w].pc = "calling" /\ work'[w].doc = work[w].doc
    BY <1>0, <2>2 DEF Answer, CallersWait, WorkRow
  <2>3. work' = work \/ \E pc : Answer(t, pc)
    BY <1>2 DEF Request, Fetch, Write, RequestFails
  <2> QED BY <2>1, <2>2, <2>3
<1>3. ASSUME ~\E w \in Workers : WorkerActs(w), ~\E t \in Threads : Request(t)
      PROVE  UNCHANGED <<up, queue, work>>
  <2>1. ASSUME NEW x \in Deleters, DeleteDoc(x) PROVE UNCHANGED <<up, queue, work>>
    BY <2>1 DEF DeleteDoc, AskDelete, Clean, DeleteJobs, RemoveObject, ForgetUpload, DeleteVersions,
                DeleteRow, DeleteStops, NotDel
  <2>2. ASSUME NEW l \in Listers, ListDocs(l) PROVE UNCHANGED <<up, queue, work>>
    BY <2>2 DEF ListDocs, ReadQdrant, ReadJobs, ReadDocs, Listed, NotList
  <2>3. UNCHANGED vars => UNCHANGED <<up, queue, work>>
    BY DEF vars
  <2> QED BY <1>3, <2>1, <2>2, <2>3 DEF Next, WorkerActs
<1> DEFINE Goal == /\ UNCHANGED up
                   /\ \A w \in Workers : Works(w, d)' => Works(w, d) \/ (Take(w, d) /\ d \in queue /\ d \notin queue')
                   /\ queue' \subseteq queue
                   /\ \A w \in Workers : Works(w, d) /\ Works(w, d)' /\ work[w].pc = "nack" => work'[w].pc = "nack"
<1>4. ASSUME NEW v \in Workers, WorkerActs(v) PROVE Goal
  BY <1>1, <1>4 DEF Works
<1>5. ASSUME NEW t \in Threads, Request(t) PROVE Goal
  BY <1>2, <1>5 DEF Works
<1>6. UNCHANGED <<up, queue, work>> => Goal
  BY DEF Works
<1> HIDE DEF Goal
<1>7. Goal
  BY <1>3, <1>4, <1>5, <1>6
<1>8. \A v, w \in Workers : Take(w, d) /\ v # w => (Works(v, d)' <=> Works(v, d))
  BY <1>0 DEF Take, Works
<1> QED BY <1>7, <1>8 DEF Goal

LEMMA OneMessageStep ==
  ASSUME Typed, CallersWait, OneMessage, [Next]_vars, losses' = losses
  PROVE  OneMessage'
<1> SUFFICES ASSUME NEW d \in Docs
             PROVE  /\ \A u, v \in Uploaders : Holds(u, d)' /\ Holds(v, d)' => u = v
                    /\ \A u \in Uploaders : Holds(u, d)' => d \notin queue' /\ \A w \in Workers : ~Works(w, d)'
                    /\ d \in queue' => \A w \in Workers : ~Works(w, d)'
                    /\ \A v, w \in Workers : Works(v, d)' /\ Works(w, d)' => v = w
  BY DEF OneMessage
<1>0. /\ \A u, v \in Uploaders : Holds(u, d) /\ Holds(v, d) => u = v
      /\ \A u \in Uploaders : Holds(u, d) => d \notin queue /\ \A w \in Workers : ~Works(w, d)
      /\ d \in queue => \A w \in Workers : ~Works(w, d)
      /\ \A v, w \in Workers : Works(v, d) /\ Works(w, d) => v = w
  BY DEF OneMessage
<1>1. CASE \E u \in Uploaders : Upload(u)
  <2>1. PICK u \in Uploaders : Upload(u)
    BY <1>1
  <2>2. /\ \A v \in Uploaders : v # u => (Holds(v, d)' <=> Holds(v, d))
        /\ \A w \in Workers : Works(w, d)' <=> Works(w, d)
    BY <2>1, UploadHolds DEF Works
  <2>3. CASE d \notin used /\ queue' = queue
    <3>1. d \notin queue /\ (\A w \in Workers : ~Works(w, d)) /\ \A v \in Uploaders : ~Holds(v, d)
      BY <2>3 DEF Typed, RestTyped, WorkTyped, UpTyped, WorkRow, UpRow, Works, Holds
    <3> QED BY <2>2, <2>3, <3>1
  <2>4. CASE (Holds(u, d)' => Holds(u, d)) /\ queue' = queue
    BY <1>0, <2>2, <2>4
  <2>5. ASSUME NEW c \in Docs, Holds(u, c), ~Holds(u, d)', queue' = queue \union {c}
        PROVE  /\ \A v, w \in Uploaders : Holds(v, d)' /\ Holds(w, d)' => v = w
               /\ \A v \in Uploaders : Holds(v, d)' => d \notin queue' /\ \A w \in Workers : ~Works(w, d)'
               /\ d \in queue' => \A w \in Workers : ~Works(w, d)'
               /\ \A v, w \in Workers : Works(v, d)' /\ Works(w, d)' => v = w
    <3>1. CASE c = d
      <4>1. \A v \in Uploaders : ~Holds(v, d)'
        BY <1>0, <2>2, <2>5, <3>1
      <4> QED BY <1>0, <2>2, <2>5, <3>1, <4>1
    <3>2. CASE c # d
      BY <1>0, <2>2, <2>5, <3>2
    <3> QED BY <3>1, <3>2
  <2> QED BY <2>1, <2>3, <2>4, <2>5, UploadHolds
<1>2. CASE ~\E u \in Uploaders : Upload(u)
  <2>1. /\ \A u \in Uploaders : Holds(u, d)' <=> Holds(u, d)
        /\ \A w \in Workers : Works(w, d)' => Works(w, d) \/ (Take(w, d) /\ d \in queue /\ d \notin queue')
        /\ \A v, w \in Workers : Take(w, d) /\ v # w => (Works(v, d)' <=> Works(v, d))
        /\ queue' \subseteq queue
    BY <1>2, OthersWork DEF Holds
  <2>2. CASE \E w \in Workers : Take(w, d) /\ d \in queue /\ d \notin queue'
    <3>1. PICK w \in Workers : Take(w, d) /\ d \in queue /\ d \notin queue'
      BY <2>2
    <3>2. \A v \in Workers : v # w => ~Works(v, d)'
      BY <1>0, <2>1, <3>1
    <3> QED BY <1>0, <2>1, <3>1, <3>2
  <2>3. CASE ~\E w \in Workers : Take(w, d) /\ d \in queue /\ d \notin queue'
    <3>1. \A w \in Workers : Works(w, d)' => Works(w, d)
      BY <2>1, <2>3
    <3> QED BY <1>0, <2>1, <3>1
  <2> QED BY <2>2, <2>3
<1> QED BY <1>1, <1>2

LEMMA FinishedStays ==
  ASSUME Typed, CallersWait, [Next]_vars, losses' = losses, NEW d \in Docs, Finished(d)
  PROVE  Finished(d)' /\ (jobs'[d] = "failed" => jobs[d] = "failed")
<1>0. /\ d \in used /\ d \notin queue /\ jobs[d] \in {"failed", None} /\ jobs \in [Docs -> Statuses]
      /\ \A u \in Uploaders : ~Holds(u, d)
      /\ \A w \in Workers : Works(w, d) => work[w].pc = "nack"
  BY DEF Finished, Typed, StoresTyped
<1>1. jobs'[d] \in {"failed", None} /\ (jobs'[d] = "failed" => jobs[d] = "failed")
  <2>1. ASSUME NEW u \in Uploaders, InsertJob(u) PROVE jobs'[d] = jobs[d]
    BY <1>0, <2>1 DEF InsertJob, UpStep, Holds
  <2>2. ASSUME NEW w \in Workers, MarkRunning(w) \/ MarkDone(w) \/ MarkFailed(w) PROVE jobs'[d] = jobs[d]
    <3>1. work[w].doc # d
      BY <1>0, <2>2 DEF MarkRunning, MarkDone, MarkFailed, WorkStep, Works
    <3>2. jobs' = jobs \/ \E s : SetJob(work[w].doc, s)
      BY <2>2 DEF MarkRunning, MarkDone, MarkFailed
    <3> QED BY <1>0, <3>1, <3>2 DEF SetJob
  <2>3. ASSUME NEW x \in Deleters, DeleteJobs(x) PROVE jobs'[d] = jobs[d] \/ jobs'[d] = None
    BY <1>0, <2>3 DEF DeleteJobs
  <2>4. None # "failed"
    BY DEF None
  <2> QED BY <1>0, <2>1, <2>2, <2>3, <2>4, JobSteps
<1>2. d \in used'
  BY <1>0, UsedGrows
<1>3. d \notin queue' /\ (\A u \in Uploaders : ~Holds(u, d)') /\ \A w \in Workers : Works(w, d)' => work'[w].pc = "nack"
  <2>1. ASSUME NEW u \in Uploaders, Upload(u) PROVE <1>3
    <3>1. /\ \A v \in Uploaders : v # u => (Holds(v, d)' <=> Holds(v, d))
          /\ UNCHANGED work /\ ~Holds(u, d)'
          /\ queue' = queue \/ \E c \in Docs : Holds(u, c) /\ queue' = queue \union {c}
      BY <1>0, <2>1, UploadHolds
    <3>2. d \notin queue'
      <4>1. CASE queue' = queue
        BY <1>0, <4>1
      <4>2. ASSUME NEW c \in Docs, Holds(u, c), queue' = queue \union {c} PROVE d \notin queue'
        BY <1>0, <4>2
      <4> QED BY <3>1, <4>1, <4>2
    <3> QED BY <1>0, <3>1, <3>2 DEF Works
  <2>2. CASE ~\E u \in Uploaders : Upload(u)
    <3>1. /\ UNCHANGED up /\ queue' \subseteq queue
          /\ \A w \in Workers : Works(w, d)' => Works(w, d) \/ d \in queue
          /\ \A w \in Workers : Works(w, d) /\ Works(w, d)' /\ work[w].pc = "nack" => work'[w].pc = "nack"
      BY <2>2, OthersWork
    <3> QED BY <1>0, <3>1 DEF Holds
  <2> QED BY <2>1, <2>2
<1> QED BY <1>1, <1>2, <1>3 DEF Finished

FailedAreFinished == \A d \in Docs : jobs[d] = "failed" => Finished(d)

LEMMA FailedStep ==
  ASSUME Typed, CallersWait, OneMessage, FailedAreFinished, [Next]_vars, losses' = losses
  PROVE  FailedAreFinished'
<1> SUFFICES ASSUME NEW d \in Docs, jobs'[d] = "failed" PROVE Finished(d)'
  BY DEF FailedAreFinished
<1>1. CASE jobs[d] = "failed"
  BY <1>1, FinishedStays DEF FailedAreFinished
<1>2. CASE jobs[d] # "failed"
  <2>0. /\ jobs \in [Docs -> Statuses] /\ queue \subseteq used
        /\ work = [w \in Workers |-> work[w]] /\ \A w \in Workers : WorkRow(work[w])
    BY DEF Typed, StoresTyped, WorkTyped, RestTyped
  <2>1. PICK w \in Workers : MarkFailed(w) /\ work[w].doc = d /\ jobs' = [jobs EXCEPT ![d] = "failed"]
    <3>1. ASSUME NEW u \in Uploaders, InsertJob(u) PROVE FALSE
      BY <1>2, <2>0, <3>1 DEF InsertJob
    <3>2. ASSUME NEW x \in Deleters, DeleteJobs(x) PROVE FALSE
      BY <1>2, <2>0, <3>2 DEF DeleteJobs, None
    <3>3. ASSUME NEW w \in Workers, MarkRunning(w) \/ MarkDone(w) PROVE FALSE
      BY <1>2, <2>0, <3>3 DEF MarkRunning, MarkDone, SetJob
    <3>4. ASSUME NEW w \in Workers, MarkFailed(w)
          PROVE  work[w].doc = d /\ jobs' = [jobs EXCEPT ![d] = "failed"]
      BY <1>2, <2>0, <3>4 DEF MarkFailed, SetJob
    <3>5. jobs' # jobs
      BY <1>2
    <3> QED BY <3>1, <3>2, <3>3, <3>4, <3>5, JobSteps
  <2>2. Works(w, d) /\ UNCHANGED <<up, used, queue>> /\ work'[w].pc = "nack"
    BY <2>0, <2>1 DEF MarkFailed, WorkStep, Works, NotWork, WorkRow
  <2>3. d \in used
    BY <2>0, <2>2 DEF Works, WorkRow
  <2>4. \A v \in Workers : v # w => work'[v] = work[v] /\ ~Works(v, d)
    BY <2>0, <2>1, <2>2 DEF MarkFailed, WorkStep, OneMessage
  <2>5. d \notin queue /\ \A u \in Uploaders : ~Holds(u, d)
    BY <2>2 DEF OneMessage
  <2> QED BY <2>2, <2>3, <2>4, <2>5 DEF Finished, Holds, Works
<1> QED BY <1>1, <1>2

(* A list that saw a failed document has it in what it reads afterwards.   *)

SeesFailed(l) ==
  \A d \in list[l].failed :
    /\ Finished(d)
    /\ list[l].pc \in {"docs", "shown"} /\ jobs[d] = "failed" => d \in list[l].active
    /\ list[l].pc = "shown" /\ jobs[d] = "failed" /\ d \in docs => d \in list[l].shown

FailInv == losses = 0 => OneMessage /\ FailedAreFinished /\ \A l \in Listers : SeesFailed(l)

LEMMA FailStep == ~DbFaults /\ TypedInv /\ FailInv /\ [Next]_vars => FailInv'
<1> SUFFICES ASSUME ~DbFaults, Typed, CallersWait, FailInv, [Next]_vars, losses' = 0
             PROVE  OneMessage' /\ FailedAreFinished' /\ \A l \in Listers : SeesFailed(l)'
  BY DEF TypedInv, FailInv
<1>1. losses' = losses
  <2>1. losses \in Nat
    BY DEF Typed, RestTyped
  <2>2. losses' = losses \/ losses' = losses + 1
    <3>1. ASSUME NEW u \in Uploaders, Upload(u) PROVE losses' = losses
      BY <3>1 DEF Upload, LookUp, InsertDoc, PutObject, RecordUpload, InsertVersion, InsertJob, Publish,
                  UploadStops, NotUp
    <3>2. ASSUME NEW w \in Workers, WorkerActs(w) PROVE <2>2
      BY <3>2 DEF WorkerActs, OnMessage, MarkRunning, InsertStep, Call, MarkDone, MarkFailed, Ack, Nack,
                  WorkFails, TimeOut, LoseChannel, Crash, Take, Overtakes, Loss
    <3>3. ASSUME NEW t \in Threads, Request(t) PROVE losses' = losses
      BY <3>3 DEF Request, Fetch, Write, RequestFails, NotThread
    <3>4. ASSUME NEW x \in Deleters, DeleteDoc(x) PROVE losses' = losses
      BY <3>4 DEF DeleteDoc, AskDelete, Clean, DeleteJobs, RemoveObject, ForgetUpload, DeleteVersions,
                  DeleteRow, DeleteStops, NotDel
    <3>5. ASSUME NEW l \in Listers, ListDocs(l) PROVE losses' = losses
      BY <3>5 DEF ListDocs, ReadQdrant, ReadJobs, ReadDocs, Listed, NotList
    <3>6. UNCHANGED vars => losses' = losses
      BY DEF vars
    <3> QED BY <3>1, <3>2, <3>3, <3>4, <3>5, <3>6 DEF Next, WorkerActs
  <2> QED BY <2>1, <2>2
<1>2. OneMessage /\ FailedAreFinished /\ \A l \in Listers : SeesFailed(l)
  BY <1>1 DEF FailInv
<1>3. OneMessage' /\ FailedAreFinished'
  BY <1>1, <1>2, OneMessageStep, FailedStep
<1>4. ASSUME NEW l \in Listers PROVE SeesFailed(l)'
  <2>0. /\ ListTyped /\ docs \subseteq used /\ used \subseteq Docs
    BY DEF Typed, StoresTyped
  <2>1. ASSUME NEW d \in Docs, Finished(d)
        PROVE  Finished(d)' /\ (jobs'[d] = "failed" => jobs[d] = "failed") /\ (d \in docs' => d \in docs)
    <3>1. Finished(d)' /\ (jobs'[d] = "failed" => jobs[d] = "failed")
      BY <1>1, <2>1, FinishedStays
    <3>2. d \in docs' => d \in docs
      BY <2>1, UsedGrows DEF Finished
    <3> QED BY <3>1, <3>2
  <2>2. CASE list'[l] = list[l]
    <3>1. list[l].failed \subseteq Docs
      BY <2>0 DEF ListTyped
    <3> SUFFICES ASSUME NEW d \in list[l].failed
                 PROVE  /\ Finished(d)'
                        /\ list[l].pc \in {"docs", "shown"} /\ jobs'[d] = "failed" => d \in list[l].active
                        /\ list[l].pc = "shown" /\ jobs'[d] = "failed" /\ d \in docs' => d \in list[l].shown
      BY <2>2 DEF SeesFailed
    <3> QED BY <1>2, <2>1, <3>1 DEF SeesFailed
  <2>3. CASE ListDocs(l)
    <3>1. UNCHANGED <<docs, jobs>> /\ \A d : Finished(d) <=> Finished(d)'
      BY <2>3 DEF ListDocs, ReadQdrant, ReadJobs, ReadDocs, Listed, NotList, stores, Finished, Holds, Works
    <3>2. CASE ReadQdrant(l)
      <4>1. list'[l].pc = "jobs" /\ list'[l].failed = docs \intersect Failed
        BY <2>0, <3>2 DEF ReadQdrant, ListTyped, Nothing
      <4>2. \A d \in docs \intersect Failed : Finished(d)
        BY <1>2 DEF Failed, FailedAreFinished
      <4> QED BY <3>1, <4>1, <4>2 DEF SeesFailed
    <3>3. CASE ReadJobs(l)
      <4>1. list'[l].pc = "docs" /\ list'[l].failed = list[l].failed /\ list'[l].active = Active
        BY <2>0, <3>3 DEF ReadJobs, ListTyped
      <4>2. \A d \in list[l].failed : d \in Docs /\ (jobs[d] = "failed" => d \in Active)
        BY <2>0 DEF ListTyped, Active
      <4> QED BY <1>2, <3>1, <4>1, <4>2 DEF SeesFailed
    <3>4. CASE ReadDocs(l)
      <4>1. /\ list[l].pc = "docs" /\ list'[l].pc = "shown" /\ list'[l].failed = list[l].failed
            /\ list'[l].active = list[l].active
            /\ list'[l].shown = docs \intersect (list[l].indexed \union list[l].active)
        BY <2>0, <3>4 DEF ReadDocs, ListTyped
      <4> QED BY <1>2, <3>1, <4>1 DEF SeesFailed
    <3>5. CASE Listed(l)
      <4>1. list'[l].failed = {}
        BY <2>0, <3>5 DEF Listed, ListTyped, Nothing
      <4> QED BY <4>1 DEF SeesFailed
    <3> QED BY <2>3, <3>2, <3>3, <3>4, <3>5 DEF ListDocs
  <2>4. list'[l] = list[l] \/ ListDocs(l)
    <3>1. ASSUME NEW u \in Uploaders, Upload(u) PROVE list' = list
      BY <3>1 DEF Upload, LookUp, InsertDoc, PutObject, RecordUpload, InsertVersion, InsertJob, Publish,
                  UploadStops, NotUp
    <3>2. ASSUME NEW w \in Workers, WorkerActs(w) PROVE list' = list
      BY <3>2 DEF WorkerActs, OnMessage, MarkRunning, InsertStep, Call, MarkDone, MarkFailed, Ack, Nack,
                  WorkFails, TimeOut, LoseChannel, Crash, Take, Overtakes, Loss, NotWork
    <3>3. ASSUME NEW t \in Threads, Request(t) PROVE list' = list
      BY <3>3 DEF Request, Fetch, Write, RequestFails, NotThread
    <3>4. ASSUME NEW x \in Deleters, DeleteDoc(x) PROVE list' = list
      BY <3>4 DEF DeleteDoc, AskDelete, Clean, DeleteJobs, RemoveObject, ForgetUpload, DeleteVersions,
                  DeleteRow, DeleteStops, NotDel
    <3>5. ASSUME NEW k \in Listers, ListDocs(k), k # l PROVE list'[l] = list[l]
      BY <2>0, <3>5 DEF ListDocs, ReadQdrant, ReadJobs, ReadDocs, Listed, ListTyped
    <3>6. UNCHANGED vars => list' = list
      BY DEF vars
    <3> QED BY <3>1, <3>2, <3>3, <3>4, <3>5, <3>6 DEF Next, WorkerActs
  <2> QED BY <2>2, <2>3, <2>4
<1> QED BY <1>3, <1>4

(* A document whose ingestion failed is shown by every list that begins    *)
(* after the failure, unless it is deleted meanwhile, its message was      *)
(* redelivered or a statement of the list itself fails.                    *)
THEOREM FailedStaysListed == ~DbFaults => (Spec => []FailedIsListed)
<1> SUFFICES ASSUME ~DbFaults PROVE Spec => []FailedIsListed
  OBVIOUS
<1>1. Init => FailInv
  <2> SUFFICES ASSUME Init PROVE OneMessage /\ FailedAreFinished /\ \A l \in Listers : SeesFailed(l)
    BY DEF FailInv
  <2> QED BY DEF Init, OneMessage, FailedAreFinished, SeesFailed, Holds, Works, UpIdle, Waiting, Nothing, None
<1>2. TypedInv /\ FailInv /\ [Next]_vars => FailInv'
  BY FailStep
<1>3. FailInv => FailedIsListed
  BY DEF FailInv, FailedIsListed, SeesFailed, Failed
<1> QED BY <1>1, <1>2, <1>3, TypedInvariant, PTL DEF Spec

-----------------------------------------------------------------------------
(* No open job is forgotten.  The message of a job moves from its upload   *)
(* to the queue and on to a worker, and each of them gives it up only to   *)
(* the next, or with the result recorded, or into an exception.            *)

Carried(d) ==
  \/ d \in queue \union unpublished \union dropped
  \/ \E u \in Uploaders : Publishes(u, d)
  \/ \E w \in Workers : Handles(w, d)

LEMMA UploadCarries ==
  ASSUME Typed, OpenIsCarried, NEW u \in Uploaders, Upload(u), NEW d \in Docs, Open(d)'
  PROVE  Carried(d)'
<1>0. /\ up = [v \in Uploaders |-> up[v]] /\ UpRow(up[u]) /\ jobs \in [Docs -> Statuses]
      /\ Open(d) => Carried(d)
  BY DEF Typed, UpTyped, StoresTyped, OpenIsCarried, Carried
<1>1. UNCHANGED <<work, dropped>> /\ queue \subseteq queue' /\ unpublished \subseteq unpublished'
  BY DEF Upload, LookUp, InsertDoc, PutObject, RecordUpload, InsertVersion, InsertJob, Publish,
         UploadStops, NotUp, history
<1>2. \A v \in Uploaders : v # u => (Publishes(v, d)' <=> Publishes(v, d))
  <2>1. \A v \in Uploaders : v # u => up'[v] = up[v]
    BY <1>0 DEF Upload, LookUp, InsertDoc, PutObject, RecordUpload, InsertVersion, InsertJob, Publish,
                UploadStops, UpStep
  <2> QED BY <2>1 DEF Publishes
<1>3. CASE InsertJob(u) /\ up[u].doc = d
  BY <1>0, <1>3 DEF InsertJob, UpStep, Publishes, Carried, UpRow
<1>4. CASE ~(InsertJob(u) /\ up[u].doc = d)
  <2>1. Open(d)
    BY <1>0, <1>4 DEF Upload, LookUp, InsertDoc, PutObject, RecordUpload, InsertVersion, InsertJob, Publish,
                      UploadStops, NotUp, stores, Open
  <2>2. CASE Publishes(u, d)
    BY <2>2 DEF Publishes, Upload, LookUp, InsertDoc, PutObject, RecordUpload, InsertVersion, InsertJob,
                Publish, UploadStops, UpStep, Carried
  <2>3. CASE ~Publishes(u, d)
    BY <1>0, <1>1, <1>2, <2>1, <2>3 DEF Carried, Handles
  <2> QED BY <2>2, <2>3
<1> QED BY <1>3, <1>4

LEMMA WorkerCarries ==
  ASSUME Typed, OpenIsCarried, NEW w \in Workers, WorkerActs(w), NEW d \in Docs, Open(d)'
  PROVE  Carried(d)'
<1>0. /\ work = [v \in Workers |-> work[v]] /\ WorkRow(work[w]) /\ jobs \in [Docs -> Statuses]
      /\ Open(d) => Carried(d)
  BY DEF Typed, WorkTyped, StoresTyped, OpenIsCarried, Carried
<1> USE DEF NotWork, WorkStep, history, Overtakes, Loss
<1>1. UNCHANGED <<up, unpublished>> /\ dropped \subseteq dropped'
  BY DEF WorkerActs, OnMessage, MarkRunning, InsertStep, Call, MarkDone, MarkFailed, Ack, Nack, LeavesOpen,
         WorkFails, TimeOut, LoseChannel, Crash, Take
<1>2. \A v \in Workers : v # w => (Handles(v, d)' <=> Handles(v, d))
  <2>1. \A v \in Workers : v # w => work'[v] = work[v]
    BY <1>0 DEF WorkerActs, OnMessage, MarkRunning, InsertStep, Call, MarkDone, MarkFailed, Ack, Nack,
                WorkFails, TimeOut, LoseChannel, Crash, Take
  <2> QED BY <2>1 DEF Handles
<1>3. CASE Handles(w, d)
  <2>1. CASE MarkDone(w)
    BY <1>0, <1>3, <2>1 DEF MarkDone, SetJob, Handles, Open, None
  <2>2. CASE MarkFailed(w)
    BY <1>0, <1>3, <2>2 DEF MarkFailed, SetJob, LeavesOpen, Handles, Open, None, Carried
  <2>3. CASE Crash(w)
    <3>1. jobs' = jobs
      BY <2>3 DEF Crash
    <3> QED BY <1>3, <2>3, <3>1 DEF Crash, LeavesOpen, Handles, Open, Carried
  <2>4. CASE LoseChannel(w)
    BY <1>0, <1>3, <2>4 DEF LoseChannel, Handles, Carried, WorkRow
  <2>5. CASE ~(MarkDone(w) \/ MarkFailed(w) \/ Crash(w) \/ LoseChannel(w))
    <3>1. PICK to \in {"marked", "failed", "started", "calling"} : work' = [work EXCEPT ![w] = [work[w] EXCEPT !.pc = to]]
      BY <1>3, <2>5 DEF WorkerActs, OnMessage, MarkRunning, InsertStep, Call, Ack, Nack, WorkFails, TimeOut, Take, Handles
    <3>2. work'[w].pc = to /\ work'[w].doc = work[w].doc
      BY <1>0, <3>1 DEF WorkRow
    <3> QED BY <1>3, <3>1, <3>2 DEF Handles, Carried
  <2> QED BY <2>1, <2>2, <2>3, <2>4, <2>5
<1>4. CASE ~Handles(w, d)
  <2>1. CASE Take(w, d)
    BY <1>0, <2>1 DEF Take, Handles, Carried
  <2>2. CASE MarkRunning(w) /\ work[w].doc = d
    BY <1>4, <2>2 DEF MarkRunning, Handles
  <2>3. CASE ~Take(w, d) /\ ~(MarkRunning(w) /\ work[w].doc = d)
    <3>1. Open(d)
      <4>1. jobs' = jobs \/ MarkRunning(w) \/ MarkDone(w) \/ MarkFailed(w)
        BY DEF WorkerActs, OnMessage, InsertStep, Call, Ack, Nack, WorkFails, TimeOut, LoseChannel, Crash, Take, stores
      <4>2. CASE jobs' = jobs
        BY <4>2 DEF Open
      <4>3. CASE (MarkRunning(w) \/ MarkDone(w) \/ MarkFailed(w)) /\ jobs' # jobs
        <5>1. work[w].doc # d
          BY <1>4, <2>3, <4>3 DEF MarkDone, MarkFailed, MarkRunning, Handles
        <5> QED BY <1>0, <4>3, <5>1 DEF MarkRunning, MarkDone, MarkFailed, SetJob, Open
      <4> QED BY <4>1, <4>2, <4>3
    <3>2. d \in queue => d \in queue'
      BY <2>3 DEF WorkerActs, OnMessage, MarkRunning, InsertStep, Call, MarkDone, MarkFailed, Ack, Nack,
                  WorkFails, TimeOut, LoseChannel, Crash, Take
    <3> QED BY <1>0, <1>1, <1>2, <1>4, <3>1, <3>2 DEF Carried, Publishes
  <2> QED BY <2>1, <2>2, <2>3
<1> QED BY <1>3, <1>4

LEMMA CarriedStep == TypedInv /\ OpenIsCarried /\ [Next]_vars => OpenIsCarried'
<1> SUFFICES ASSUME Typed, CallersWait, OpenIsCarried, [Next]_vars, NEW d \in Docs, Open(d)'
             PROVE  Carried(d)'
  BY DEF TypedInv, OpenIsCarried, Carried
<1>0. Open(d) => Carried(d)
  BY DEF OpenIsCarried, Carried
<1>1. ASSUME NEW t \in Threads, Request(t) PROVE Carried(d)'
  <2>1. UNCHANGED <<jobs, queue, unpublished, dropped, up>>
    BY <1>1 DEF Request, Fetch, Write, RequestFails, NotThread, stores, history
  <2>2. ASSUME NEW w \in Workers, Handles(w, d) PROVE Handles(w, d)'
    <3>1. work' = work \/ \E pc \in {"indexed", "failed"} : Answer(t, pc)
      BY <1>1 DEF Request, Fetch, Write, RequestFails
    <3>2. work = [v \in Workers |-> work[v]] /\ WorkRow(work[w])
      BY DEF Typed, WorkTyped
    <3> QED BY <2>2, <3>1, <3>2 DEF Answer, Handles, WorkRow
  <2> QED BY <1>0, <2>1, <2>2 DEF Open, Carried, Publishes
<1>2. ASSUME NEW x \in Deleters, DeleteDoc(x) PROVE Carried(d)'
  <2>1. UNCHANGED <<queue, unpublished, dropped, up, work>>
    BY <1>2 DEF DeleteDoc, AskDelete, Clean, DeleteJobs, RemoveObject, ForgetUpload, DeleteVersions,
                DeleteRow, DeleteStops, NotDel
  <2>2. jobs' = jobs \/ jobs' = [jobs EXCEPT ![del[x].doc] = None]
    BY <1>2 DEF DeleteDoc, AskDelete, Clean, DeleteJobs, RemoveObject, ForgetUpload, DeleteVersions,
                DeleteRow, DeleteStops
  <2>3. Open(d)
    BY <2>2 DEF Typed, StoresTyped, Open, None
  <2> QED BY <1>0, <2>1, <2>3 DEF Carried, Publishes, Handles
<1>3. ASSUME UNCHANGED <<jobs, queue, unpublished, dropped, up, work>> PROVE Carried(d)'
  BY <1>0, <1>3 DEF Open, Carried, Publishes, Handles
<1>4. ASSUME NEW l \in Listers, ListDocs(l) PROVE UNCHANGED <<jobs, queue, unpublished, dropped, up, work>>
  BY <1>4 DEF ListDocs, ReadQdrant, ReadJobs, ReadDocs, Listed, NotList, stores, history
<1>5. UNCHANGED vars => UNCHANGED <<jobs, queue, unpublished, dropped, up, work>>
  BY DEF vars
<1> QED BY <1>1, <1>2, <1>3, <1>4, <1>5, UploadCarries, WorkerCarries DEF Next, WorkerActs

(* Whatever workers, connections and statements fail: an open job is about *)
(* to be published, queued or being handled, unless its publication failed *)
(* or its handler could record nothing more.                               *)
THEOREM OpenStaysCarried == Spec => []OpenIsCarried
<1>1. Init => OpenIsCarried
  BY DEF Init, OpenIsCarried, Open, None
<1> QED BY <1>1, CarriedStep, TypedInvariant, PTL DEF Spec

-----------------------------------------------------------------------------
(* The services implement Library.  Its guards are about a document, the   *)
(* steps of the services about a row of their own: what ties them together *)
(* is that a document is in one actor's hands at a time until its message  *)
(* is published, so that the job's status says how far it got.             *)

Requested(t, d) == thread[t].pc # "idle" /\ thread[t].doc = d
Busy(d) == d \in queue \/ (\E w \in Workers : Works(w, d)) \/ (\E t \in Threads : Requested(t, d))

HeldAlone ==
  \A d \in Docs :
    /\ \A u, v \in Uploaders : Holds(u, d) /\ Holds(v, d) => u = v
    /\ \A u \in Uploaders : Holds(u, d) => ~Busy(d)

(* Only an upload brings a document into circulation. *)
LEMMA BusyStays ==
  ASSUME Typed, CallersWait, [Next]_vars, ~\E u \in Uploaders : Upload(u), NEW d \in Docs, Busy(d)'
  PROVE  Busy(d)
<1>0. /\ work = [w \in Workers |-> work[w]] /\ \A w \in Workers : WorkRow(work[w])
      /\ thread = [t \in Threads |-> thread[t]] /\ \A t \in Threads : ThreadRow(thread[t])
  BY DEF Typed, WorkTyped, ThreadTyped
<1>1. ASSUME NEW w \in Workers, WorkerActs(w) PROVE Busy(d)
  <2>1. \A v \in Workers : v # w => work'[v] = work[v]
    BY <1>0, <1>1 DEF WorkerActs, OnMessage, MarkRunning, InsertStep, Call, MarkDone, MarkFailed, Ack, Nack,
                      WorkFails, TimeOut, LoseChannel, Crash, Loss, Take, WorkStep
  <2>2. Works(w, d)' => Works(w, d) \/ d \in queue
    BY <1>0, <1>1 DEF WorkerActs, OnMessage, MarkRunning, InsertStep, Call, MarkDone, MarkFailed, Ack, Nack,
                      WorkFails, TimeOut, LoseChannel, Crash, Loss, Take, WorkStep, Works, Waiting, WorkRow
  <2>3. d \in queue' => Works(w, d) \/ d \in queue
    BY <1>1 DEF WorkerActs, OnMessage, MarkRunning, InsertStep, Call, MarkDone, MarkFailed, Ack, Nack,
                WorkFails, TimeOut, LoseChannel, Crash, Loss, Take, Overtakes, Works
  <2>4. ASSUME NEW t \in Threads, Requested(t, d)' PROVE Requested(t, d) \/ Works(w, d)
    <3>1. CASE TimeOut(w) \/ Crash(w)
      BY <1>0, <2>4, <3>1 DEF TimeOut, Crash, Requested, ThreadRow
    <3>2. CASE \E s \in Threads : Call(w, s)
      BY <1>0, <2>4, <3>2 DEF Call, WorkStep, Requested, Works
    <3>3. CASE UNCHANGED thread
      BY <2>4, <3>3 DEF Requested
    <3> QED BY <1>1, <3>1, <3>2, <3>3 DEF WorkerActs, OnMessage, MarkRunning, InsertStep, MarkDone, MarkFailed,
               Ack, Nack, WorkFails, LoseChannel, Take, Overtakes
  <2> QED BY <2>1, <2>2, <2>3, <2>4 DEF Busy, Works
<1>2. ASSUME NEW t \in Threads, Request(t) PROVE Busy(d)
  <2>1. queue' = queue
    BY <1>2 DEF Request, Fetch, Write, RequestFails, NotThread
  <2>2. \A s \in Threads : Requested(s, d)' => Requested(s, d)
    BY <1>0, <1>2 DEF Request, Fetch, Write, RequestFails, Answer, Requested, Free, ThreadRow, Places
  <2>3. ASSUME NEW w \in Workers, Works(w, d)' PROVE Works(w, d)
    <3>1. work' = work \/ \E pc : Answer(t, pc)
      BY <1>2 DEF Request, Fetch, Write, RequestFails
    <3>2. CASE work'[w] = work[w]
      BY <2>3, <3>2 DEF Works
    <3>3. CASE work'[w] # work[w]
      <4>1. PICK pc : work' = [work EXCEPT ![w] = [work[w] EXCEPT !.pc = pc]] /\ thread[t].caller = w
        BY <1>0, <3>1, <3>3 DEF Answer
      <4>2. work'[w].doc = work[w].doc /\ work[w].pc = "calling"
        BY <1>0, <4>1 DEF CallersWait, WorkRow
      <4> QED BY <2>3, <4>2 DEF Works
    <3> QED BY <3>2, <3>3
  <2> QED BY <2>1, <2>2, <2>3 DEF Busy
<1>3. ASSUME UNCHANGED <<queue, work, thread>> PROVE Busy(d)
  BY <1>3 DEF Busy, Works, Requested
<1>4. ASSUME NEW x \in Deleters, DeleteDoc(x) PROVE UNCHANGED <<queue, work, thread>>
  BY <1>4 DEF DeleteDoc, AskDelete, Clean, DeleteJobs, RemoveObject, ForgetUpload, DeleteVersions,
              DeleteRow, DeleteStops, NotDel
<1>5. ASSUME NEW l \in Listers, ListDocs(l) PROVE UNCHANGED <<queue, work, thread>>
  BY <1>5 DEF ListDocs, ReadQdrant, ReadJobs, ReadDocs, Listed, NotList
<1>6. UNCHANGED vars => UNCHANGED <<queue, work, thread>>
  BY DEF vars
<1> QED BY <1>1, <1>2, <1>3, <1>4, <1>5, <1>6 DEF Next, WorkerActs

LEMMA UpStays ==
  ASSUME [Next]_vars, ~\E u \in Uploaders : Upload(u) PROVE UNCHANGED <<up, file>>
<1>1. ASSUME NEW w \in Workers, WorkerActs(w) PROVE UNCHANGED <<up, file>>
  BY <1>1 DEF WorkerActs, OnMessage, MarkRunning, InsertStep, Call, MarkDone, MarkFailed, Ack, Nack,
              WorkFails, TimeOut, LoseChannel, Crash, Take, Overtakes, Loss, NotWork, stores
<1>2. ASSUME NEW t \in Threads, Request(t) PROVE UNCHANGED <<up, file>>
  BY <1>2 DEF Request, Fetch, Write, RequestFails, NotThread, stores
<1>3. ASSUME NEW x \in Deleters, DeleteDoc(x) PROVE UNCHANGED <<up, file>>
  BY <1>3 DEF DeleteDoc, AskDelete, Clean, DeleteJobs, RemoveObject, ForgetUpload, DeleteVersions,
              DeleteRow, DeleteStops, NotDel
<1>4. ASSUME NEW l \in Listers, ListDocs(l) PROVE UNCHANGED <<up, file>>
  BY <1>4 DEF ListDocs, ReadQdrant, ReadJobs, ReadDocs, Listed, NotList, stores
<1>5. UNCHANGED vars => UNCHANGED <<up, file>>
  BY DEF vars
<1> QED BY <1>1, <1>2, <1>3, <1>4, <1>5 DEF Next, WorkerActs

LEMMA UploadBusy ==
  ASSUME Typed, HeldAlone, NEW u \in Uploaders, Upload(u), NEW d \in Docs
  PROVE  /\ Busy(d)' => Busy(d) \/ (Publish(u) /\ up[u].doc = d)
         /\ Busy(d) \/ (Publish(u) /\ up[u].doc = d) => Busy(d)'
<1>1. UNCHANGED <<work, thread>> /\ (queue' = queue \/ (Publish(u) /\ queue' = queue \union {up[u].doc}))
      /\ (Publish(u) => queue' = queue \union {up[u].doc})
  BY DEF Upload, LookUp, InsertDoc, PutObject, RecordUpload, InsertVersion, InsertJob, Publish,
         UploadStops, NotUp
<1> QED BY <1>1 DEF Busy, Works, Requested

LEMMA HeldAloneStep ==
  ASSUME Typed, CallersWait, HeldAlone, [Next]_vars PROVE HeldAlone'
<1> SUFFICES ASSUME NEW d \in Docs
             PROVE  /\ \A u, v \in Uploaders : Holds(u, d)' /\ Holds(v, d)' => u = v
                    /\ \A u \in Uploaders : Holds(u, d)' => ~Busy(d)'
  BY DEF HeldAlone
<1>0. /\ \A u, v \in Uploaders : Holds(u, d) /\ Holds(v, d) => u = v
      /\ \A u \in Uploaders : Holds(u, d) => ~Busy(d)
  BY DEF HeldAlone
<1>1. ASSUME NEW u \in Uploaders, Upload(u)
      PROVE  /\ \A v, w \in Uploaders : Holds(v, d)' /\ Holds(w, d)' => v = w
             /\ \A v \in Uploaders : Holds(v, d)' => ~Busy(d)'
  <2>1. \A v \in Uploaders : v # u => (Holds(v, d)' <=> Holds(v, d))
    BY <1>1, UploadHolds
  <2>2. CASE d \notin used
    <3>1. ~Busy(d) /\ \A v \in Uploaders : ~Holds(v, d)
      BY <2>2 DEF Typed, RestTyped, WorkTyped, ThreadTyped, UpTyped, WorkRow, ThreadRow, UpRow,
                  Busy, Works, Requested, Holds
    <3>2. ~(Publish(u) /\ up[u].doc = d)
      BY <3>1 DEF Publish, Holds
    <3> QED BY <1>1, <2>1, <3>1, <3>2, UploadBusy
  <2>3. CASE d \in used
    <3>1. Holds(u, d)' => Holds(u, d)
      BY <1>1, <2>3, UploadHolds
    <3>2. CASE Publish(u) /\ up[u].doc = d
      <4>1. Holds(u, d) /\ ~Holds(u, d)'
        BY <3>2 DEF Publish, Holds, UpIdle, Typed, UpTyped
      <4> QED BY <1>0, <2>1, <4>1
    <3>3. CASE ~(Publish(u) /\ up[u].doc = d)
      BY <1>0, <1>1, <2>1, <3>1, <3>3, UploadBusy
    <3> QED BY <3>2, <3>3
  <2> QED BY <2>2, <2>3
<1>2. CASE ~\E u \in Uploaders : Upload(u)
  BY <1>0, <1>2, UpStays, BusyStays DEF Holds
<1> QED BY <1>1, <1>2

(* How far the job of a document in circulation got. *)

Ran(d) ==
  \/ \E w \in Workers : work[w].pc \in {"marked", "started", "calling", "indexed"} /\ work[w].doc = d
  \/ \E t \in Threads : Requested(t, d)

StageInv ==
  /\ \A u \in Uploaders : up[u].pc \in {"doc", "version"} => jobs[up[u].doc] = None
  /\ \A d \in Docs \ doomed : Busy(d) \/ (\E u \in Uploaders : Publishes(u, d)) => jobs[d] # None
  /\ \A d \in Docs : Ran(d) => jobs[d] # "pending"

(* A job is marked before it is run. *)
LEMMA RanSteps ==
  ASSUME Typed, CallersWait, [Next]_vars, NEW d \in Docs, Ran(d)', ~Ran(d)
  PROVE  \E w \in Workers : MarkRunning(w) /\ work[w].doc = d
<1>0. /\ work = [w \in Workers |-> work[w]] /\ \A w \in Workers : WorkRow(work[w])
      /\ thread = [t \in Threads |-> thread[t]] /\ \A t \in Threads : ThreadRow(thread[t])
  BY DEF Typed, WorkTyped, ThreadTyped
<1> DEFINE Runs(w) == work[w].pc \in {"marked", "started", "calling", "indexed"} /\ work[w].doc = d
<1>1. ASSUME NEW w \in Workers, WorkerActs(w), ~(MarkRunning(w) /\ work[w].doc = d) PROVE FALSE
  <2>1. \A v \in Workers : v # w => work'[v] = work[v]
    BY <1>0, <1>1 DEF WorkerActs, OnMessage, MarkRunning, InsertStep, Call, MarkDone, MarkFailed, Ack, Nack,
                      WorkFails, TimeOut, LoseChannel, Crash, Loss, Take, WorkStep
  <2>2. Runs(w)' => Runs(w)
    BY <1>0, <1>1 DEF WorkerActs, OnMessage, MarkRunning, InsertStep, Call, MarkDone, MarkFailed, Ack, Nack,
                      WorkFails, TimeOut, LoseChannel, Crash, Loss, Take, WorkStep, Waiting, WorkRow
  <2>3. ASSUME NEW t \in Threads, Requested(t, d)' PROVE Requested(t, d) \/ Runs(w)
    <3>1. CASE TimeOut(w) \/ Crash(w)
      BY <1>0, <2>3, <3>1 DEF TimeOut, Crash, Requested, ThreadRow
    <3>2. CASE \E s \in Threads : Call(w, s)
      BY <1>0, <2>3, <3>2 DEF Call, WorkStep, Requested
    <3>3. CASE UNCHANGED thread
      BY <2>3, <3>3 DEF Requested
    <3> QED BY <1>1, <3>1, <3>2, <3>3 DEF WorkerActs, OnMessage, MarkRunning, InsertStep, MarkDone, MarkFailed,
               Ack, Nack, WorkFails, LoseChannel, Take, Overtakes
  <2> QED BY <2>1, <2>2, <2>3 DEF Ran
<1>2. ASSUME NEW t \in Threads, Request(t) PROVE FALSE
  <2>1. \A s \in Threads : Requested(s, d)' => Requested(s, d)
    BY <1>0, <1>2 DEF Request, Fetch, Write, RequestFails, Answer, Requested, Free, ThreadRow, Places
  <2>2. ASSUME NEW w \in Workers, Runs(w)' PROVE Runs(w)
    <3>1. work' = work \/ \E pc : Answer(t, pc)
      BY <1>2 DEF Request, Fetch, Write, RequestFails
    <3>2. CASE work'[w] = work[w]
      BY <2>2, <3>2
    <3>3. CASE work'[w] # work[w]
      <4>1. PICK pc : work' = [work EXCEPT ![w] = [work[w] EXCEPT !.pc = pc]] /\ thread[t].caller = w
        BY <1>0, <3>1, <3>3 DEF Answer
      <4>2. work'[w].doc = work[w].doc /\ work[w].pc = "calling"
        BY <1>0, <4>1 DEF CallersWait, WorkRow
      <4> QED BY <2>2, <4>2
    <3> QED BY <3>2, <3>3
  <2> QED BY <2>1, <2>2 DEF Ran
<1>3. ASSUME UNCHANGED <<work, thread>> PROVE FALSE
  BY <1>3 DEF Ran, Requested
<1>4. ASSUME NEW x \in Deleters, DeleteDoc(x) PROVE UNCHANGED <<work, thread>>
  BY <1>4 DEF DeleteDoc, AskDelete, Clean, DeleteJobs, RemoveObject, ForgetUpload, DeleteVersions,
              DeleteRow, DeleteStops, NotDel
<1>5. ASSUME NEW l \in Listers, ListDocs(l) PROVE UNCHANGED <<work, thread>>
  BY <1>5 DEF ListDocs, ReadQdrant, ReadJobs, ReadDocs, Listed, NotList
<1>6. ASSUME NEW u \in Uploaders, Upload(u) PROVE UNCHANGED <<work, thread>>
  BY <1>6 DEF Upload, LookUp, InsertDoc, PutObject, RecordUpload, InsertVersion, InsertJob, Publish,
              UploadStops, NotUp
<1>7. UNCHANGED vars => UNCHANGED <<work, thread>>
  BY DEF vars
<1> HIDE DEF Runs
<1> QED BY <1>1, <1>2, <1>3, <1>4, <1>5, <1>6, <1>7 DEF Next, WorkerActs

LEMMA RanIsBusy == \A d \in Docs : Ran(d) => Busy(d)
BY DEF Ran, Busy, Works

LEMMA StageStep ==
  ASSUME Typed, CallersWait, DeletersDoom, UnusedHaveNoJob, HeldAlone, StageInv, [Next]_vars
  PROVE  StageInv'
<1>0. /\ jobs \in [Docs -> Statuses] /\ docs \subseteq used /\ used \subseteq Docs
      /\ up = [u \in Uploaders |-> up[u]] /\ \A u \in Uploaders : UpRow(up[u])
      /\ \A w \in Workers : WorkRow(work[w])
      /\ \A x \in Deleters : del[x].pc # "idle" => del[x].doc \in doomed
      /\ doomed \subseteq doomed' /\ None # "pending" /\ "idle" \notin {"taken", "indexed", "failed"}
  BY DoomStep DEF Typed, StoresTyped, UpTyped, WorkTyped, DeletersDoom, None
(* what becomes of a status *)
<1> DEFINE Submitted(d) == \E u \in Uploaders : InsertJob(u) /\ up[u].doc = d
           Moves(d) == /\ jobs[d] # None /\ jobs'[d] = None => d \in doomed
                       /\ jobs'[d] = "pending" /\ jobs[d] # "pending" => Submitted(d)
                       /\ jobs[d] = None /\ jobs'[d] # None => Submitted(d)
<1>1. ASSUME NEW d \in Docs PROVE Moves(d)
  <2>1. ASSUME NEW u \in Uploaders, InsertJob(u) PROVE Moves(d)
    BY <1>0, <2>1 DEF InsertJob, None
  <2>2. ASSUME NEW w \in Workers, MarkRunning(w) \/ MarkDone(w) \/ MarkFailed(w) PROVE Moves(d)
    <3>1. jobs' = jobs \/ \E s \in {"running", "done", "failed"} : SetJob(work[w].doc, s)
      BY <2>2 DEF MarkRunning, MarkDone, MarkFailed
    <3> QED BY <1>0, <3>1 DEF SetJob, None
  <2>3. ASSUME NEW x \in Deleters, DeleteJobs(x) PROVE Moves(d)
    BY <1>0, <2>3 DEF DeleteJobs, DelStep, None
  <2>4. jobs' = jobs => Moves(d)
    OBVIOUS
  <2> QED BY <2>1, <2>2, <2>3, <2>4, JobSteps
<1>2. ASSUME NEW d \in Docs, NEW u \in Uploaders, InsertJob(u), up[u].doc = d
      PROVE  Upload(u) /\ Holds(u, d) /\ ~Busy(d) /\ ~Busy(d)'
  <2>1. Upload(u) /\ Holds(u, d) /\ ~Publish(u)
    BY <1>2 DEF Upload, InsertJob, UpStep, Holds, Publish
  <2> QED BY <2>1, UploadBusy DEF HeldAlone
<1>3. ASSUME NEW u \in Uploaders, up'[u].pc \in {"doc", "version"} PROVE jobs'[up'[u].doc] = None
  <2>1. (\E d \in Docs : InsertDoc(u, d)) \/ (up[u].pc \in {"doc", "version"} /\ up'[u].doc = up[u].doc)
    <3>1. ASSUME Upload(u) PROVE <2>1
      BY <1>0, <1>3, <3>1 DEF Upload, LookUp, PutObject, RecordUpload, InsertVersion, InsertJob, Publish,
                              UploadStops, UpStep, UpIdle, UpRow
    <3>2. ASSUME NEW v \in Uploaders, Upload(v), v # u PROVE up'[u] = up[u]
      BY <1>0, <3>2 DEF Upload, LookUp, InsertDoc, PutObject, RecordUpload, InsertVersion, InsertJob, Publish,
                        UploadStops, UpStep
    <3> QED BY <1>3, <3>1, <3>2, UpStays
  <2>2. ASSUME NEW d \in Docs, InsertDoc(u, d) PROVE jobs'[up'[u].doc] = None
    BY <1>0, <2>2 DEF InsertDoc, UnusedHaveNoJob, UpRow
  <2>3. ASSUME up[u].pc \in {"doc", "version"}, up'[u].doc = up[u].doc PROVE jobs'[up'[u].doc] = None
    <3> DEFINE d == up[u].doc
    <3>1. d \in Docs /\ jobs[d] = None /\ Holds(u, d)
      BY <1>0, <2>3 DEF StageInv, UpRow, Holds
    <3>2. ASSUME NEW v \in Uploaders, InsertJob(v), up[v].doc = d PROVE FALSE
      <4>1. v = u
        BY <1>2, <3>1, <3>2 DEF HeldAlone
      <4>2. up'[u].pc = "job"
        BY <1>0, <3>2, <4>1 DEF InsertJob, UpStep, UpRow
      <4> QED BY <1>3, <4>2
    <3> QED BY <1>1, <2>3, <3>1, <3>2
  <2> QED BY <2>1, <2>2, <2>3
<1>4. ASSUME NEW d \in Docs, d \notin doomed', Busy(d)' \/ \E u \in Uploaders : Publishes(u, d)'
      PROVE  jobs'[d] # None
  <2>1. CASE \E u \in Uploaders : InsertJob(u) /\ up[u].doc = d
    BY <1>0, <2>1 DEF InsertJob, None
  <2>2. CASE ~\E u \in Uploaders : InsertJob(u) /\ up[u].doc = d
    <3>1. Busy(d) \/ \E u \in Uploaders : Publishes(u, d)
      <4>1. ASSUME NEW u \in Uploaders, Upload(u) PROVE <3>1
        <5>1. Busy(d)' => Busy(d) \/ Publishes(u, d)
          BY <4>1, UploadBusy DEF Publish, Publishes
        <5>2. ASSUME NEW v \in Uploaders, Publishes(v, d)' PROVE Publishes(v, d)
          <6>1. CASE v = u
            <7>1. InsertJob(u)
              <8>0. up'[u].pc = "job"
                BY <5>2, <6>1 DEF Publishes
              <8>1. ASSUME NEW h \in Hashes, LookUp(u, h) PROVE FALSE
                BY <1>0, <8>0, <8>1 DEF LookUp
              <8>2. ASSUME NEW c \in Docs, InsertDoc(u, c) PROVE FALSE
                BY <1>0, <8>0, <8>2 DEF InsertDoc, UpRow
              <8>3. CASE PutObject(u) \/ RecordUpload(u) \/ InsertVersion(u)
                BY <1>0, <8>0, <8>3 DEF PutObject, RecordUpload, InsertVersion, UpStep, UpRow
              <8>4. CASE Publish(u) \/ UploadStops(u)
                BY <1>0, <8>0, <8>4 DEF Publish, UploadStops, UpIdle
              <8> QED BY <4>1, <8>1, <8>2, <8>3, <8>4 DEF Upload
            <7>2. up'[u].doc = up[u].doc
              BY <1>0, <7>1 DEF InsertJob, UpStep, UpRow
            <7> QED BY <2>2, <5>2, <6>1, <7>1, <7>2 DEF Publishes
          <6>2. CASE v # u
            <7>1. up'[v] = up[v]
              BY <1>0, <4>1, <6>2 DEF Upload, LookUp, InsertDoc, PutObject, RecordUpload, InsertVersion,
                 InsertJob, Publish, UploadStops, UpStep
            <7> QED BY <5>2, <7>1 DEF Publishes
          <6> QED BY <6>1, <6>2
        <5> QED BY <1>4, <5>1, <5>2
      <4>2. CASE ~\E u \in Uploaders : Upload(u)
        BY <1>4, <4>2, UpStays, BusyStays DEF Publishes
      <4> QED BY <4>1, <4>2
    <3> QED BY <1>0, <1>1, <1>4, <3>1 DEF StageInv
  <2> QED BY <2>1, <2>2
<1>5. ASSUME NEW d \in Docs, Ran(d)' PROVE jobs'[d] # "pending"
  <2>1. CASE ~Ran(d)
    <3>1. PICK w \in Workers : MarkRunning(w) /\ work[w].doc = d
      BY <1>5, <2>1, RanSteps
    <3> QED BY <1>0, <3>1 DEF MarkRunning, SetJob, None
  <2>2. CASE Ran(d)
    <3>1. jobs[d] # "pending" /\ Busy(d)
      BY <2>2, RanIsBusy DEF StageInv
    <3> QED BY <1>1, <1>2, <3>1
  <2> QED BY <2>1, <2>2
<1> QED BY <1>3, <1>4, <1>5 DEF StageInv

(* A request writes only what it found text in. *)
ReadableWritten == \A t \in Threads : thread[t].pc \in Places => file[thread[t].doc] \in Readable

UnusedHaveNoFile == \A d \in Docs \ used : file[d] = None

LEMMA FileSteps ==
  ASSUME [Next]_vars
  PROVE  UNCHANGED <<file, used>> \/ \E u \in Uploaders, d \in Docs : InsertDoc(u, d)
<1>1. ASSUME NEW u \in Uploaders, Upload(u) PROVE UNCHANGED <<file, used>> \/ \E d \in Docs : InsertDoc(u, d)
  BY <1>1 DEF Upload, LookUp, PutObject, RecordUpload, InsertVersion, InsertJob, Publish, UploadStops, stores
<1>2. ASSUME NEW w \in Workers, WorkerActs(w) PROVE UNCHANGED <<file, used>>
  BY <1>2 DEF WorkerActs, OnMessage, MarkRunning, InsertStep, Call, MarkDone, MarkFailed, Ack, Nack,
              WorkFails, TimeOut, LoseChannel, Crash, Take, Overtakes, Loss, NotWork, stores
<1>3. ASSUME NEW t \in Threads, Request(t) PROVE UNCHANGED <<file, used>>
  BY <1>3 DEF Request, Fetch, Write, RequestFails, NotThread, stores
<1>4. ASSUME NEW x \in Deleters, DeleteDoc(x) PROVE UNCHANGED <<file, used>>
  BY <1>4 DEF DeleteDoc, AskDelete, Clean, DeleteJobs, RemoveObject, ForgetUpload, DeleteVersions,
              DeleteRow, DeleteStops, NotDel
<1>5. ASSUME NEW l \in Listers, ListDocs(l) PROVE UNCHANGED <<file, used>>
  BY <1>5 DEF ListDocs, ReadQdrant, ReadJobs, ReadDocs, Listed, NotList, stores
<1>6. UNCHANGED vars => UNCHANGED <<file, used>>
  BY DEF vars
<1> QED BY <1>1, <1>2, <1>3, <1>4, <1>5, <1>6 DEF Next, WorkerActs

LEMMA FileStep ==
  ASSUME Typed, Typed', ReadableWritten, UnusedHaveNoFile, [Next]_vars
  PROVE  ReadableWritten' /\ UnusedHaveNoFile'
<1>0. /\ file \in [Docs -> Hashes \union {None}] /\ used \subseteq Docs
      /\ thread = [t \in Threads |-> thread[t]] /\ \A t \in Threads : ThreadRow(thread[t])
  BY DEF Typed, StoresTyped, ThreadTyped
<1>1. UnusedHaveNoFile' /\ \A d \in used : file'[d] = file[d]
  BY <1>0, FileSteps DEF InsertDoc, UnusedHaveNoFile
<1>2. ASSUME NEW t \in Threads, thread'[t].pc \in Places
      PROVE  thread[t].doc \in used /\ thread'[t].doc = thread[t].doc /\ file[thread[t].doc] \in Readable
  <2>1. CASE Request(t)
    <3>1. ASSUME NEW pc, Answer(t, pc) PROVE FALSE
      BY <1>0, <1>2, <3>1 DEF Answer, Free, Places
    <3>2. CASE Fetch(t)
      BY <1>0, <1>2, <3>1, <3>2 DEF Fetch, ThreadRow
    <3>3. CASE Write(t)
      <4>1. thread[t].pc \in Places /\ thread' = [thread EXCEPT ![t] = [thread[t] EXCEPT !.pc = After(thread[t].pc)]]
        BY <3>1, <3>3 DEF Write
      <4> QED BY <1>0, <4>1 DEF ThreadRow, ReadableWritten, Places
    <3>4. CASE RequestFails(t)
      BY <3>1, <3>4 DEF RequestFails
    <3> QED BY <2>1, <3>2, <3>3, <3>4 DEF Request
  <2>2. CASE thread'[t].pc = thread[t].pc /\ thread'[t].doc = thread[t].doc
    BY <1>0, <1>2, <2>2 DEF ReadableWritten, ThreadRow, Places
  <2>3. ASSUME NEW w \in Workers, WorkerActs(w) PROVE thread'[t].pc = thread[t].pc /\ thread'[t].doc = thread[t].doc
    <3>1. CASE TimeOut(w) \/ Crash(w)
      BY <1>0, <3>1 DEF TimeOut, Crash, ThreadRow
    <3>2. ASSUME NEW s \in Threads, Call(w, s) PROVE thread'[t] = thread[t]
      BY <1>0, <1>2, <3>2 DEF Call, Places
    <3>3. UNCHANGED thread \/ TimeOut(w) \/ Crash(w) \/ \E s \in Threads : Call(w, s)
      BY <2>3 DEF WorkerActs, OnMessage, MarkRunning, InsertStep, MarkDone, MarkFailed, Ack, Nack, WorkFails,
                  LoseChannel, Take, Overtakes
    <3> QED BY <3>1, <3>2, <3>3
  <2>4. ASSUME NEW s \in Threads, Request(s), s # t PROVE thread'[t] = thread[t]
    BY <1>0, <2>4 DEF Request, Fetch, Write, RequestFails, Answer
  <2>5. ASSUME NEW u \in Uploaders, Upload(u) PROVE thread' = thread
    BY <2>5 DEF Upload, LookUp, InsertDoc, PutObject, RecordUpload, InsertVersion, InsertJob, Publish,
                UploadStops, NotUp
  <2>6. ASSUME NEW x \in Deleters, DeleteDoc(x) PROVE thread' = thread
    BY <2>6 DEF DeleteDoc, AskDelete, Clean, DeleteJobs, RemoveObject, ForgetUpload, DeleteVersions,
                DeleteRow, DeleteStops, NotDel
  <2>7. ASSUME NEW l \in Listers, ListDocs(l) PROVE thread' = thread
    BY <2>7 DEF ListDocs, ReadQdrant, ReadJobs, ReadDocs, Listed, NotList
  <2>8. UNCHANGED vars => thread' = thread
    BY DEF vars
  <2> QED BY <2>1, <2>2, <2>3, <2>4, <2>5, <2>6, <2>7, <2>8 DEF Next, WorkerActs
<1> QED BY <1>1, <1>2 DEF ReadableWritten

LibraryInv == HeldAlone /\ StageInv /\ ReadableWritten /\ UnusedHaveNoFile

LEMMA LibraryInvariant == Spec => []LibraryInv
<1>1. Init => LibraryInv
  BY DEF Init, LibraryInv, HeldAlone, StageInv, ReadableWritten, UnusedHaveNoFile, Holds, Busy, Works, Requested,
         Publishes, Ran, UpIdle, Waiting, Free, Places, None
<1>2. TypedInv /\ TypedInv' /\ SearchInv /\ LibraryInv /\ [Next]_vars => LibraryInv'
  BY HeldAloneStep, StageStep, FileStep DEF TypedInv, SearchInv, LibraryInv
<1> QED BY <1>1, <1>2, TypedInvariant, SearchInvariant, PTL DEF Spec

(* What the index shows of a set of points. *)
Shown(E) == {<<e.place, e.doc>> : e \in E}

LEMMA ShownAdds ==
  \A E, e : Shown(E \union {e}) = Shown(E) \union {<<e.place, e.doc>>}
BY DEF Shown

LEMMA ShownDrops ==
  \A E, d, place :
    Shown({e \in E : ~(e.doc = d /\ e.place = place)}) = Shown(E) \ {<<place, d>>}
BY DEF Shown

LEMMA ShownHas ==
  ASSUME NEW d, NEW cs, \A c \in cs : Has(d, c) PROVE cs \X {d} \subseteq Shown(index)
BY DEF Shown, Has

LEMMA LibraryStep ==
  TypedInv /\ SearchInv /\ LibraryInv /\ [Next]_vars => [Shelf!Next]_Shelf!vars
<1> SUFFICES ASSUME Typed, CallersWait, SearchInv, LibraryInv, [Next]_vars PROVE [Shelf!Next]_Shelf!vars
  BY DEF TypedInv
<1>0. /\ jobs \in [Docs -> Statuses] /\ docs \subseteq used /\ used \subseteq Docs
      /\ None = "none" /\ None \notin Docs
  BY IngestionAssumption DEF Typed, StoresTyped, None
<1> DEFINE Goal == [Shelf!Next]_Shelf!vars
<1>1. UNCHANGED <<file, docs, jobs, index, doomed>> => Goal
  BY DEF Shelf!vars
<1>2. ASSUME NEW d \in Docs,
             \/ Shelf!Add(d) \/ Shelf!Submit(d) \/ Shelf!Run(d) \/ Shelf!Done(d) \/ Shelf!Fail(d) \/ Shelf!Ask(d)
             \/ Shelf!DropJob(d) \/ Shelf!Remove(d)
      PROVE  Goal
  BY <1>2 DEF Shelf!Next
<1>3. ASSUME NEW d \in Docs, NEW c \in Shelf!Collections, Shelf!Index(d, c) \/ Shelf!Forget(d, c) PROVE Goal
  BY <1>3 DEF Shelf!Next
<1> HIDE DEF Goal
<1>4. ASSUME NEW u \in Uploaders, Upload(u) PROVE Goal
  <2>1. UpRow(up[u]) /\ UNCHANGED <<index, doomed>>
    BY <1>4 DEF Typed, UpTyped, Upload, LookUp, InsertDoc, PutObject, RecordUpload, InsertVersion, InsertJob,
                Publish, UploadStops, NotUp, history
  <2>2. ASSUME NEW d \in Docs, InsertDoc(u, d) PROVE Goal
    <3>1. file[d] = "none" /\ up[u].hash \in Hashes
      BY <1>0, <2>1, <2>2 DEF InsertDoc, LibraryInv, UnusedHaveNoFile, UpRow
    <3>2. file' = [file EXCEPT ![d] = up[u].hash] /\ docs' = docs \union {d} /\ jobs' = jobs
      BY <2>2 DEF InsertDoc
    <3>3. Shelf!Add(d)
      BY <2>1, <3>1, <3>2 DEF Shelf!Add
    <3> QED BY <1>2, <3>3
  <2>3. CASE InsertJob(u)
    <3>1. up[u].doc \in Docs /\ up[u].doc \in docs /\ jobs[up[u].doc] = "none" /\ UNCHANGED <<file, docs>>
          /\ jobs' = [jobs EXCEPT ![up[u].doc] = "pending"]
      BY <1>0, <2>3 DEF InsertJob, UpStep, LibraryInv, StageInv
    <3>2. Shelf!Submit(up[u].doc)
      BY <2>1, <3>1 DEF Shelf!Submit, Shelf!Becomes
    <3> QED BY <1>2, <3>1, <3>2
  <2>4. CASE ~InsertJob(u) /\ ~\E d \in Docs : InsertDoc(u, d)
    <3>1. UNCHANGED <<file, docs, jobs>>
      BY <1>4, <2>4 DEF Upload, LookUp, PutObject, RecordUpload, InsertVersion, Publish, UploadStops, stores
    <3> QED BY <1>1, <2>1, <3>1
  <2> QED BY <2>2, <2>3, <2>4
<1>5. ASSUME NEW w \in Workers, WorkerActs(w) PROVE Goal
  <2>0. WorkRow(work[w])
    BY DEF Typed, WorkTyped
  <2>1. UNCHANGED <<file, docs, index, doomed>>
    BY <1>5 DEF WorkerActs, OnMessage, MarkRunning, InsertStep, Call, MarkDone, MarkFailed, Ack, Nack,
                WorkFails, TimeOut, LoseChannel, Crash, Take, Overtakes, Loss, NotWork, stores, history
  <2>2. ASSUME NEW s, SetJob(work[w].doc, s), jobs' # jobs, work[w].pc # "idle"
        PROVE  /\ work[w].doc \in Docs /\ jobs[work[w].doc] # "none"
               /\ jobs' = [jobs EXCEPT ![work[w].doc] = s]
    BY <1>0, <2>0, <2>2 DEF SetJob, WorkRow
  <2>3. CASE MarkRunning(w) /\ jobs' # jobs
    <3>1. SetJob(work[w].doc, "running") /\ work[w].pc # "idle"
      BY <2>3 DEF MarkRunning, WorkStep
    <3>2. Shelf!Run(work[w].doc)
      BY <2>1, <2>2, <2>3, <3>1 DEF Shelf!Run, Shelf!Becomes
    <3> QED BY <1>2, <2>2, <2>3, <3>1, <3>2
  <2>4. CASE MarkFailed(w) /\ jobs' # jobs
    <3>1. SetJob(work[w].doc, "failed") /\ work[w].pc # "idle"
      BY <2>4 DEF MarkFailed, WorkStep
    <3>2. Shelf!Fail(work[w].doc)
      BY <2>1, <2>2, <2>4, <3>1 DEF Shelf!Fail, Shelf!Becomes
    <3> QED BY <1>2, <2>2, <2>4, <3>1, <3>2
  <2>5. CASE MarkDone(w) /\ jobs' # jobs
    <3> DEFINE d == work[w].doc
    <3>1. SetJob(d, "done") /\ work[w].pc = "indexed"
      BY <2>5 DEF MarkDone, WorkStep
    <3>2. d \in Docs /\ jobs[d] # "none" /\ jobs' = [jobs EXCEPT ![d] = "done"]
      BY <2>2, <2>5, <3>1
    <3>3. jobs[d] \in {"running", "done", "failed"}
      <4>1. jobs[d] # "pending"
        BY <3>1, <3>2 DEF LibraryInv, StageInv, Ran
      <4> QED BY <1>0, <3>2, <4>1 DEF Statuses
    <3>4. d \in doomed \/ Shelf!Searchable(d)
      <4> SUFFICES ASSUME d \notin doomed, file[d] \in Readable PROVE {"chunks", "other"} \X {d} \subseteq Shown(index)
        BY DEF Shelf!Searchable, Shelf!Has, Shown
      <4>1. Has(d, "chunks") /\ Has(d, "other")
        BY <3>1 DEF SearchInv, CallersKnow, Searchable
      <4>2. \A c \in {"chunks", "other"} : Has(d, c)
        BY <4>1
      <4> QED BY <4>2, ShownHas
    <3>5. Shelf!Done(d)
      BY <2>1, <3>2, <3>3, <3>4 DEF Shelf!Done, Shelf!Becomes
    <3> QED BY <1>2, <3>2, <3>5
  <2>6. jobs' = jobs \/ MarkRunning(w) \/ MarkDone(w) \/ MarkFailed(w)
    BY <1>5 DEF WorkerActs, OnMessage, InsertStep, Call, Ack, Nack, WorkFails, TimeOut, LoseChannel, Crash, Take,
                Overtakes, Loss, stores
  <2> QED BY <1>1, <2>1, <2>3, <2>4, <2>5, <2>6
<1>6. ASSUME NEW t \in Threads, Request(t) PROVE Goal
  <2>1. UNCHANGED <<file, docs, jobs, doomed>>
    BY <1>6 DEF Request, Fetch, Write, RequestFails, NotThread, stores, history
  <2>2. CASE Write(t) /\ index' # index
    <3> DEFINE d == thread[t].doc
               c == thread[t].pc
               e == [place |-> c, doc |-> d]
    <3>1. c \in Places /\ index' = index \union {e}
      BY <2>2 DEF Write
    <3>2. d \in Docs /\ Requested(t, d) /\ file[d] \in Readable
      BY <1>0, <3>1 DEF Typed, ThreadTyped, ThreadRow, Places, Requested, LibraryInv, ReadableWritten
    <3>3. Shown(index') = Shown(index) \union {<<c, d>>}
      BY <3>1, ShownAdds
    <3>4. d \in doomed \/ (jobs[d] \in {"running", "done", "failed"} /\ Shelf!Has(d, Shelf!Earlier(c)))
      <4> SUFFICES ASSUME d \notin doomed
                   PROVE  jobs[d] \in {"running", "done", "failed"} /\ Shelf!Has(d, Shelf!Earlier(c))
        OBVIOUS
      <4>1. jobs[d] # None /\ jobs[d] # "pending"
        BY <3>2 DEF LibraryInv, StageInv, Busy, Ran
      <4>2. \A b \in Shelf!Earlier(c) : Has(d, b)
        BY <3>1 DEF Shelf!Earlier, SearchInv, RequestsWrote, Places
      <4>3. Shelf!Earlier(c) \X {d} \subseteq Shown(index)
        BY <4>2, ShownHas
      <4> QED BY <1>0, <3>2, <4>1, <4>3 DEF Statuses, Shelf!Has, Shown
    <3>5. PICK b \in Docs, place \in Shelf!Collections : b = d /\ place = c
      BY <3>1, <3>2 DEF Places, Shelf!Collections
    <3>6. Shelf!Index(b, place)
      BY <2>1, <3>2, <3>3, <3>4, <3>5 DEF Shelf!Index, Shown
    <3> QED BY <1>3, <3>6
  <2>3. index' = index \/ Write(t)
    BY <1>6 DEF Request, Fetch, RequestFails
  <2> QED BY <1>1, <2>1, <2>2, <2>3
<1>7. ASSUME NEW x \in Deleters, DeleteDoc(x) PROVE Goal
  <2> DEFINE d == del[x].doc
  <2>0. DelRow(del[x]) /\ (del[x].pc # "idle" => d \in Docs /\ d \in doomed) /\ file' = file
    BY <1>0, <1>7 DEF Typed, DelTyped, DelRow, SearchInv, DeletersDoom, DeleteDoc, AskDelete, Clean, DeleteJobs,
       RemoveObject, ForgetUpload, DeleteVersions, DeleteRow, DeleteStops, NotDel
  <2>1. ASSUME NEW c \in Docs, AskDelete(x, c) PROVE Goal
    <3>1. Shelf!Ask(c)
      BY <2>0, <2>1 DEF AskDelete, Shelf!Ask
    <3> QED BY <1>2, <3>1
  <2>2. CASE Clean(x)
    <3>1. del[x].pc \in Places /\ del[x].pc # "idle" /\ UNCHANGED <<docs, jobs, doomed>>
      BY <2>2 DEF Clean, Places
    <3>2. CASE index' = {e \in index : ~(e.doc = d /\ e.place = del[x].pc)}
      <4>1. Shown(index') = Shown(index) \ {<<del[x].pc, d>>}
        BY <3>2, ShownDrops
      <4>2. PICK b \in Docs, place \in Shelf!Collections : b = d /\ place = del[x].pc
        BY <2>0, <3>1 DEF Places, Shelf!Collections
      <4>3. Shelf!Forget(b, place)
        BY <2>0, <3>1, <4>1, <4>2 DEF Shelf!Forget, Shown
      <4> QED BY <1>3, <4>3
    <3>3. CASE index' = index
      BY <1>1, <2>0, <3>1, <3>3
    <3> QED BY <2>2, <3>2, <3>3 DEF Clean
  <2>3. CASE DeleteJobs(x)
    <3>1. del[x].pc # "idle" /\ UNCHANGED <<docs, index, doomed>>
          /\ (jobs' = jobs \/ jobs' = [jobs EXCEPT ![d] = "none"])
      BY <1>0, <2>3 DEF DeleteJobs, DelStep
    <3>2. jobs' = [jobs EXCEPT ![d] = "none"] => Shelf!DropJob(d)
      BY <2>0, <3>1 DEF Shelf!DropJob, Shelf!Becomes
    <3> QED BY <1>1, <1>2, <2>0, <3>1, <3>2
  <2>4. CASE DeleteRow(x)
    <3>1. del[x].pc # "idle" /\ UNCHANGED <<jobs, index, doomed>>
          /\ (docs' = docs \/ (jobs[d] = "none" /\ docs' = docs \ {d}))
      BY <1>0, <2>4 DEF DeleteRow
    <3>2. jobs[d] = "none" /\ docs' = docs \ {d} => Shelf!Remove(d)
      BY <2>0, <3>1 DEF Shelf!Remove
    <3> QED BY <1>1, <1>2, <2>0, <3>1, <3>2
  <2>5. CASE RemoveObject(x) \/ ForgetUpload(x) \/ DeleteVersions(x) \/ DeleteStops(x)
    <3>1. UNCHANGED <<docs, jobs, index, doomed>>
      BY <2>5 DEF RemoveObject, ForgetUpload, DeleteVersions, DeleteStops
    <3> QED BY <1>1, <2>0, <3>1
  <2> QED BY <1>7, <2>1, <2>2, <2>3, <2>4, <2>5 DEF DeleteDoc
<1>8. ASSUME NEW l \in Listers, ListDocs(l) PROVE Goal
  BY <1>1, <1>8 DEF ListDocs, ReadQdrant, ReadJobs, ReadDocs, Listed, NotList, stores, history
<1>9. UNCHANGED vars => Goal
  BY <1>1 DEF vars
<1>10. Goal
  BY <1>4, <1>5, <1>6, <1>7, <1>8, <1>9 DEF Next, WorkerActs
<1> QED BY <1>10 DEF Goal

(* Uploads, workers, requests of mcp-write and deletions, with every loss, *)
(* time-out and failed statement, keep what Library promises of a document. *)
THEOREM ImplementsLibrary == Spec => KeepsLibrary
<1>1. Init => Shelf!Init
  BY DEF Init, Shelf!Init, None
<1> QED BY <1>1, LibraryStep, TypedInvariant, SearchInvariant, LibraryInvariant, PTL
        DEF Spec, KeepsLibrary, Shelf!Spec
(* Nothing of a document is taken away, nor the document itself, before    *)
(* its deletion was asked for.                                             *)
Safe(d) == /\ d \in docs => d \in docs'
           /\ jobs[d] # None => jobs'[d] # None
           /\ \A p \in Shelf!Collections : Shelf!Has(d, {p}) => Shelf!Has(d, {p})'
NothingVanishes == [][\A d \in Docs \ doomed' : Safe(d)]_vars

(* An upload, a redelivery, a late request or a crash never undoes what    *)
(* was there: the points, the job and the row of a document whose deletion *)
(* nobody asked for stay.                                                  *)
THEOREM NothingIsLost == Spec => NothingVanishes
<1>1. TypedInv /\ [Shelf!Next]_(Shelf!vars) => \A d \in Docs \ doomed' : Safe(d)
  <2> SUFFICES ASSUME TypedInv, [Shelf!Next]_(Shelf!vars), NEW d \in Docs \ doomed' PROVE Safe(d)
    OBVIOUS
  <2>0. jobs \in [Docs -> Statuses] /\ None = "none"
    BY DEF TypedInv, Typed, StoresTyped, None
  <2>1. /\ docs' = docs \/ \E b \in Docs : docs' = docs \union {b} \/ (b \in doomed /\ docs' = docs \ {b})
        /\ doomed \subseteq doomed'
    BY DEF Shelf!Next, Shelf!vars, Shelf!Add, Shelf!Submit, Shelf!Run, Shelf!Done, Shelf!Fail, Shelf!Ask,
           Shelf!DropJob, Shelf!Remove, Shelf!Index, Shelf!Forget, Shelf!Becomes
  <2>2. jobs' = jobs \/ \E b \in Docs, s \in Statuses :
                          jobs' = [jobs EXCEPT ![b] = s] /\ (s = None => b \in doomed)
    BY <2>0 DEF Shelf!Next, Shelf!vars, Shelf!Add, Shelf!Submit, Shelf!Run, Shelf!Done, Shelf!Fail, Shelf!Ask,
           Shelf!DropJob, Shelf!Remove, Shelf!Index, Shelf!Forget, Shelf!Becomes, Statuses
  <2>3. \/ Shown(index) \subseteq Shown(index)'
        \/ \E b \in doomed : \E p : Shown(index)' = Shown(index) \ {<<p, b>>}
    BY DEF Shelf!Next, Shelf!vars, Shelf!Add, Shelf!Submit, Shelf!Run, Shelf!Done, Shelf!Fail, Shelf!Ask,
           Shelf!DropJob, Shelf!Remove, Shelf!Index, Shelf!Forget, Shelf!Becomes, Shown
  <2>4. d \in docs => d \in docs'
    BY <2>1
  <2>5. jobs[d] # None => jobs'[d] # None
    BY <2>0, <2>1, <2>2
  <2>6. ASSUME NEW p, <<p, d>> \in Shown(index) PROVE <<p, d>> \in Shown(index)'
    <3> DEFINE now == Shown(index)  next == Shown(index)'
    <3>1. now \subseteq next \/ \E b \in doomed : \E q : next = now \ {<<q, b>>}
      BY <2>3
    <3>2. d \notin doomed /\ <<p, d>> \in now
      BY <2>1, <2>6
    <3> HIDE DEF now, next
    <3>3. <<p, d>> \in next
      BY <3>1, <3>2
    <3> QED BY <3>3 DEF next
  <2>7. \A p \in Shelf!Collections : Shelf!Has(d, {p}) => Shelf!Has(d, {p})'
    BY <2>6 DEF Shelf!Has, Shown
  <2> QED BY <2>4, <2>5, <2>7 DEF Safe
<1>2. TypedInv /\ [Shelf!Next]_(Shelf!vars) => [\A d \in Docs \ doomed' : Safe(d)]_vars
  BY <1>1
<1> QED BY <1>2, TypedInvariant, ImplementsLibrary, PTL DEF KeepsLibrary, Shelf!Spec, NothingVanishes
=============================================================================
