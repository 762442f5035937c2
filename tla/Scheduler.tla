------------------------------ MODULE Scheduler ------------------------------
(***************************************************************************)
(* The reminder scheduler (notification/scheduler): the HTTP handler that  *)
(* turns a note into rows of chat.scheduler_notifications, the dispatcher  *)
(* that scans the table and arms one timer goroutine per row, the claim    *)
(* and delivery of a row, and the two admin endpoints that touch the same  *)
(* rows.  Every SQL statement, and the transaction that claims a row, is   *)
(* one step; everything between two statements can interleave.             *)
(***************************************************************************)
EXTENDS Integers, FiniteSets

CONSTANTS
  Users,        \* telegram_id
  Items,        \* note_item_id
  Angels,       \* angel_chunk_id
  RowIds,       \* uuids the table can hand out, each one once
  Instances,    \* scheduler processes
  Handlers,     \* an instance's concurrent calls of POST /schedule/from-note
  Requests,     \* the notes that may be posted: [user, groups, sync]
  Day,          \* ticks in a day; a group's slot is its time of day
  Horizon,      \* the scan's look-ahead (10 minutes)
  KeepSent,     \* how long a sent row is kept (1 hour)
  Limit,        \* rows one scan returns (2048)
  DbFaults,     \* may a statement of the dispatcher fail?
  MaxTime,      \* bound of the clock
  MaxRequests,  \* bound of the posted notes
  MaxCrashes    \* bound of the crashes and stops

Group == [item : Items, angel : Angels, slot : 0..(Day - 1), daily : BOOLEAN]

ASSUME SetsAssumption == Users # {} /\ Items # {} /\ Angels # {}
ASSUME RequestsAssumption ==
  Requests \subseteq [user : Users, groups : SUBSET Group, sync : BOOLEAN]
ASSUME NumbersAssumption ==
  /\ Day \in Nat \ {0}
  /\ {Horizon, KeepSent, Limit, MaxTime, MaxRequests, MaxCrashes} \subseteq Nat
  /\ DbFaults \in BOOLEAN

VARIABLES
  rows,       \* chat.scheduler_notifications, by row id
  now,        \* the database's and the processes' clock
  proc,       \* per instance: running, or stopping after SIGTERM
  scan,       \* per instance: rows of the last SELECT not yet looped over
  job,        \* per instance and row id: the timer goroutine ("scheduled")
  call,       \* per instance and handler: a ProcessFromNote in progress
  requests,   \* notes posted so far (bound)
  crashes,    \* crashes and stops so far (bound)
  arms,       \* history: how often a row was made pending
  taken,      \* history: the armings some goroutine claimed
  delivered,  \* history: the deliveries that showed the user something
  stranded,   \* history: rows whose claimant died, did not know, or could not record
  raced       \* history: rows saved again while a scan or goroutine held them

dbVars   == <<rows, arms>>
history  == <<taken, delivered, stranded, raced>>
bounds   == <<requests, crashes>>
vars     == <<rows, now, proc, scan, job, call, requests, crashes,
              arms, taken, delivered, stranded, raced>>

-----------------------------------------------------------------------------
(* The table *)

Statuses == {"absent", "pending", "sending", "sent", "failed", "cancelled"}
Row      == [user : Users, item : Items, angel : Angels, at : Nat,
             daily : BOOLEAN, text : Nat, sentAt : Nat, status : Statuses]

Blank == [user |-> CHOOSE u \in Users : TRUE, item |-> CHOOSE n \in Items : TRUE,
          angel |-> CHOOSE a \in Angels : TRUE, at |-> 0, daily |-> FALSE,
          text |-> 0, sentAt |-> 0, status |-> "absent"]

Exists(id) == rows[id].status # "absent"

\* idx_scheduler_notifications_dedup: UNIQUE (telegram_id, angel_chunk_id, send_at)
DedupFree(id, user, angel, at) ==
  \A other \in RowIds \ {id} :
    Exists(other) => <<rows[other].user, rows[other].angel, rows[other].at>>
                       # <<user, angel, at>>

\* nextTodayOrTomorrowMSK: the slot today if still ahead of from, else tomorrow
NextAt(slot, from) ==
  LET today == (from \div Day) * Day + slot
  IN  IF today > from THEN today ELSE today + Day

-----------------------------------------------------------------------------
(* The timer goroutines *)

Phases   == {"idle", "armed", "claimed", "sent", "err", "once", "daily"}
InFlight == {"claimed", "sent", "err", "once", "daily"}
Job      == [pc : Phases, text : Nat, at : Nat, arm : Nat]
NoJob    == [pc |-> "idle", text |-> 0, at |-> 0, arm |-> 0]

\* arm: history: for a snapshot and its timer, the row's arming when scanned;
\* after the claim, the arming that is sent
Snapshot == [id : RowIds, text : Nat, at : Nat, arm : Nat]
NoCall   == [pc |-> "idle", user |-> CHOOSE u \in Users : TRUE, todo |-> {},
             kept |-> {}, sync |-> FALSE, from |-> 0]
Call     == [pc : {"idle", "saving"}, user : Users, todo : SUBSET Group,
             kept : SUBSET Items, sync : BOOLEAN, from : Nat]

SetJob(i, id, j) == job' = [job EXCEPT ![i][id] = j]
Live(id) == \E i \in Instances :
              job[i][id].pc # "idle" \/ \E s \in scan[i] : s.id = id

Init ==
  /\ rows = [id \in RowIds |-> Blank]
  /\ now = 0
  /\ proc = [i \in Instances |-> "running"]
  /\ scan = [i \in Instances |-> {}]
  /\ job = [i \in Instances |-> [id \in RowIds |-> NoJob]]
  /\ call = [i \in Instances |-> [h \in Handlers |-> NoCall]]
  /\ requests = 0 /\ crashes = 0
  /\ arms = [id \in RowIds |-> 0]
  /\ taken = {} /\ delivered = {} /\ stranded = {} /\ raced = {}

-----------------------------------------------------------------------------
(* RunDispatcher: plan() purges, scans, then arms row by row.  The scheduled *)
(* map is the set of ids whose job is not idle.                              *)

Purgeable(r) == r.status = "sent" /\ r.sentAt + KeepSent <= now
Eligible     == {id \in RowIds : rows[id].status = "pending" /\ rows[id].at <= now + Horizon}

\* ORDER BY send_at LIMIT: ties in any order
Scans ==
  {S \in SUBSET Eligible :
     /\ Cardinality(S) <= Limit
     /\ S = Eligible \/ Cardinality(S) = Limit
     /\ \A id \in S, other \in Eligible \ S : rows[id].at <= rows[other].at}

Plan(i) ==
  /\ proc[i] = "running" /\ scan[i] = {}
  /\ rows' = [id \in RowIds |-> IF Purgeable(rows[id]) THEN Blank ELSE rows[id]]
  /\ \E S \in Scans :
       scan' = [scan EXCEPT ![i] =
                  {[id |-> id, text |-> rows[id].text, at |-> rows[id].at, arm |-> arms[id]] : id \in S}]
  /\ UNCHANGED <<now, proc, job, call, arms, bounds, history>>

Arm(i, s) ==
  /\ s \in scan[i] /\ \A other \in scan[i] : s.at <= other.at
  /\ scan' = [scan EXCEPT ![i] = @ \ {s}]
  /\ IF job[i][s.id].pc = "idle"
       THEN SetJob(i, s.id, [pc |-> "armed", text |-> s.text, at |-> s.at, arm |-> s.arm])
       ELSE UNCHANGED job
  /\ UNCHANGED <<now, proc, call, dbVars, bounds, history>>

-----------------------------------------------------------------------------
(* dispatchOne, from the timer on *)

Fired(i, id) == job[i][id].pc = "armed" /\ job[i][id].at <= now

\* faulty: the status is not looked at again after the timer
ClaimUnchecked(i, id) ==
  /\ Fired(i, id) /\ Exists(id)
  /\ rows' = [rows EXCEPT ![id].status = "sending"]
  /\ SetJob(i, id, [job[i][id] EXCEPT !.pc = "claimed", !.arm = arms[id]])
  /\ taken' = taken \union {<<id, arms[id]>>}
  /\ UNCHANGED <<now, proc, scan, call, arms, bounds, delivered, stranded, raced>>

\* faulty: the row is claimed as soon as it is armed
ClaimAtOnce(i, id) ==
  /\ job[i][id].pc = "armed" /\ rows[id].status = "pending"
  /\ rows' = [rows EXCEPT ![id].status = "sending"]
  /\ SetJob(i, id, [job[i][id] EXCEPT !.pc = "claimed", !.arm = arms[id]])
  /\ taken' = taken \union {<<id, arms[id]>>}
  /\ UNCHANGED <<now, proc, scan, call, arms, bounds, delivered, stranded, raced>>

\* SELECT status FOR UPDATE, UPDATE 'sending', COMMIT
Claim(i, id) ==
  /\ Fired(i, id) /\ rows[id].status = "pending"
  /\ rows' = [rows EXCEPT ![id].status = "sending"]
  /\ SetJob(i, id, [job[i][id] EXCEPT !.pc = "claimed", !.arm = arms[id]])
  /\ taken' = taken \union {<<id, arms[id]>>}
  /\ UNCHANGED <<now, proc, scan, call, arms, bounds, delivered, stranded, raced>>

\* the COMMIT was applied and its answer lost: the goroutine returns, nobody
\* has the row
ClaimLost(i, id) ==
  /\ Fired(i, id) /\ rows[id].status = "pending" /\ DbFaults
  /\ rows' = [rows EXCEPT ![id].status = "sending"]
  /\ SetJob(i, id, NoJob)
  /\ stranded' = stranded \union {id}
  /\ UNCHANGED <<now, proc, scan, call, arms, bounds, taken, delivered, raced>>

\* faulty: the early return forgets to leave the scheduled map
MissKeepsEntry(i, id) ==
  /\ Fired(i, id) /\ (rows[id].status # "pending" \/ DbFaults)
  /\ SetJob(i, id, [NoJob EXCEPT !.pc = "lost"])
  /\ UNCHANGED <<now, proc, scan, call, dbVars, bounds, history>>

\* the row is gone or no longer pending; or it is locked, or the database fails
Miss(i, id) ==
  /\ Fired(i, id) /\ (rows[id].status # "pending" \/ DbFaults)
  /\ SetJob(i, id, NoJob)
  /\ UNCHANGED <<now, proc, scan, call, dbVars, bounds, history>>

Was(id, arm) == \E d \in delivered : d.id = id /\ d.arm = arm

\* bot.Deliver, one request to mcp-proxy: the user is shown the text, and for a
\* photo without an answer in a second message too, or not; the reply says so or not
Deliver(i, id, sent, reply) ==
  /\ job[i][id].pc = "claimed"
  /\ reply = "sent" => sent
  /\ delivered' = IF sent
                    THEN delivered \union {[id |-> id, arm |-> job[i][id].arm, text |-> job[i][id].text,
                                            again |-> Was(id, job[i][id].arm)]}
                    ELSE delivered
  /\ SetJob(i, id, [job[i][id] EXCEPT !.pc = reply])
  /\ UNCHANGED <<now, proc, scan, call, dbVars, bounds, taken, stranded, raced>>

\* coalesce(notify_daily, false); a missing row or an error leaves it false
ReadDaily(i, id) ==
  /\ job[i][id].pc = "sent"
  /\ \E daily \in {Exists(id) /\ rows[id].daily} \union (IF DbFaults THEN {FALSE} ELSE {}) :
       SetJob(i, id, [job[i][id] EXCEPT !.pc = IF daily THEN "daily" ELSE "once"])
  /\ proc[i] = "running"
  /\ UNCHANGED <<now, proc, scan, call, dbVars, bounds, history>>

\* the three finishing UPDATEs: by id, whatever the status is by now
Record(i, id, pc, new) ==
  /\ job[i][id].pc = pc /\ proc[i] = "running"
  /\ rows' = IF Exists(id) THEN [rows EXCEPT ![id] = new] ELSE rows
  /\ SetJob(i, id, NoJob)
  /\ UNCHANGED <<now, proc, scan, call, bounds, history>>

\* faulty: the failure is logged and the row left alone
FailureNotRecorded(i, id) == Record(i, id, "err", rows[id]) /\ UNCHANGED arms

\* faulty: no return after a failed delivery
FailureRecordedAsSent(i, id) ==
  Record(i, id, "err", [rows[id] EXCEPT !.status = "sent", !.sentAt = now]) /\ UNCHANGED arms

RecordFailure(i, id) ==
  Record(i, id, "err", [rows[id] EXCEPT !.status = "failed"]) /\ UNCHANGED arms

RecordSent(i, id) ==
  Record(i, id, "once", [rows[id] EXCEPT !.status = "sent", !.sentAt = now]) /\ UNCHANGED arms

Rollover(i, id) ==
  /\ Exists(id) => DedupFree(id, rows[id].user, rows[id].angel, rows[id].at + Day)
  /\ Record(i, id, "daily", [rows[id] EXCEPT !.status = "pending", !.at = @ + Day, !.sentAt = now])
  /\ arms' = IF Exists(id) THEN [arms EXCEPT ![id] = @ + 1] ELSE arms

\* the UPDATE fails: the context is cancelled after SIGTERM, the next day's
\* send_at collides in the dedup index, or the database fails
GiveUp(i, id) ==
  /\ \/ job[i][id].pc \in {"sent", "err", "once", "daily"} /\ proc[i] = "stopping"
     \/ job[i][id].pc \in {"err", "once", "daily"} /\ DbFaults
     \/ /\ job[i][id].pc = "daily" /\ Exists(id)
        /\ ~DedupFree(id, rows[id].user, rows[id].angel, rows[id].at + Day)
  /\ SetJob(i, id, NoJob)
  /\ stranded' = stranded \union {id}
  /\ UNCHANGED <<now, proc, scan, call, dbVars, bounds, taken, delivered, raced>>

-----------------------------------------------------------------------------
(* The process *)

\* SIGTERM cancels the dispatcher's context: the scan, the waiting timers and
\* the claims end, those applied without an answer too; deliveries go on
Stop(i) ==
  /\ proc[i] = "running" /\ crashes < MaxCrashes
  /\ crashes' = crashes + 1
  /\ proc' = [proc EXCEPT ![i] = "stopping"]
  /\ scan' = [scan EXCEPT ![i] = {}]
  /\ job' = [job EXCEPT ![i] = [id \in RowIds |-> IF @[id].pc = "armed" THEN NoJob ELSE @[id]]]
  /\ \E cut \in SUBSET {id \in RowIds : Fired(i, id) /\ rows[id].status = "pending"} :
       /\ rows' = [id \in RowIds |-> IF id \in cut THEN [rows[id] EXCEPT !.status = "sending"] ELSE rows[id]]
       /\ stranded' = stranded \union cut
  /\ UNCHANGED <<now, call, arms, requests, taken, delivered, raced>>

\* the process dies, at any moment, and the container restarts it
Restart(i) ==
  /\ \/ proc[i] = "stopping" /\ crashes' = crashes
     \/ proc[i] = "running" /\ crashes < MaxCrashes /\ crashes' = crashes + 1
  /\ proc' = [proc EXCEPT ![i] = "running"]
  /\ scan' = [scan EXCEPT ![i] = {}]
  /\ job' = [job EXCEPT ![i] = [id \in RowIds |-> NoJob]]
  /\ call' = [call EXCEPT ![i] = [h \in Handlers |-> NoCall]]
  /\ stranded' = stranded \union {id \in RowIds : job[i][id].pc \in InFlight}
  /\ UNCHANGED <<now, dbVars, requests, taken, delivered, raced>>

Tick == now < MaxTime /\ now' = now + 1
        /\ UNCHANGED <<proc, scan, job, call, dbVars, bounds, history>>

-----------------------------------------------------------------------------
(* ProcessFromNote *)

\* no group and no sync: rejected.  No group but sync: all rows of the user go
Post(i, h, r) ==
  /\ call[i][h].pc = "idle" /\ requests < MaxRequests
  /\ r.groups # {} \/ r.sync
  /\ requests' = requests + 1
  /\ IF r.groups = {}
       THEN /\ \/ rows' = [id \in RowIds |-> IF rows[id].user = r.user THEN Blank ELSE rows[id]]
               \/ DbFaults /\ UNCHANGED rows
            /\ UNCHANGED call
       ELSE /\ call' = [call EXCEPT ![i][h] =
                 [pc |-> "saving", user |-> r.user, todo |-> r.groups, kept |-> {},
                  sync |-> r.sync, from |-> now]]
            /\ UNCHANGED rows
  /\ UNCHANGED <<now, proc, scan, job, crashes, arms, history>>

\* the angel, its context or the composed text is missing: the loop goes on
\* before the note item is remembered
ComposeFails(i, h, g) ==
  /\ g \in call[i][h].todo
  /\ call' = [call EXCEPT ![i][h].todo = @ \ {g}]
  /\ UNCHANGED <<now, proc, scan, job, dbVars, bounds, history>>

\* faulty: INSERT without ON CONFLICT
AlwaysFresh(user, item) == {id \in RowIds : arms[id] = 0}

\* the row of (telegram_id, note_item_id), or a fresh one
Target(user, item) ==
  LET old == {id \in RowIds : Exists(id) /\ rows[id].user = user /\ rows[id].item = item}
  IN  IF old # {} THEN old ELSE {id \in RowIds : arms[id] = 0}

Saved(i, h, g) ==
  call' = [call EXCEPT ![i][h].todo = @ \ {g}, ![i][h].kept = @ \union {g.item}]

\* INSERT .. ON CONFLICT DO UPDATE: pending again whatever the status was
Save(i, h, g, id) ==
  LET c  == call[i][h]
      at == NextAt(g.slot, c.from)
  IN /\ g \in c.todo /\ id \in Target(c.user, g.item)
     /\ DedupFree(id, c.user, g.angel, at)
     /\ Saved(i, h, g)
     /\ rows' = [rows EXCEPT ![id] =
          [user |-> c.user, item |-> g.item, angel |-> g.angel, at |-> at, daily |-> g.daily,
           text |-> arms[id] + 1, sentAt |-> 0, status |-> "pending"]]
     /\ arms' = [arms EXCEPT ![id] = @ + 1]
     /\ stranded' = stranded \ {id}
     /\ raced' = IF Live(id) THEN raced \union {id} ELSE raced \ {id}
     /\ UNCHANGED <<now, proc, scan, job, bounds, taken, delivered>>

\* the dedup index, or the database, refuses the statement
SaveRefused(i, h, g) ==
  /\ g \in call[i][h].todo
  /\ \/ DbFaults
     \/ \E id \in Target(call[i][h].user, g.item) :
          ~DedupFree(id, call[i][h].user, g.angel, NextAt(g.slot, call[i][h].from))
  /\ Saved(i, h, g)
  /\ UNCHANGED <<now, proc, scan, job, dbVars, bounds, history>>

\* after the loop: sync deletes the user's rows that are not in noteIDs; that
\* it fails is not noticed
Finish(i, h) ==
  LET c == call[i][h]
  IN /\ c.pc = "saving" /\ c.todo = {}
     /\ \/ c.sync /\ rows' = [id \in RowIds |->
                                IF rows[id].user = c.user /\ rows[id].item \notin c.kept
                                  THEN Blank ELSE rows[id]]
        \/ (c.sync => DbFaults) /\ UNCHANGED rows
     /\ call' = [call EXCEPT ![i][h] = NoCall]
     /\ UNCHANGED <<now, proc, scan, job, arms, bounds, history>>

\* the client goes away: its context cancels every statement still to come
Disconnect(i, h) ==
  /\ call[i][h].pc = "saving"
  /\ call' = [call EXCEPT ![i][h] = NoCall]
  /\ UNCHANGED <<now, proc, scan, job, dbVars, bounds, history>>

-----------------------------------------------------------------------------
(* admin-backend *)

\* faulty: a status the CHECK constraint does not know
CancelMisspelt(id) ==
  /\ rows[id].status \in {"pending", "sending"}
  /\ rows' = [rows EXCEPT ![id].status = "canceled"]
  /\ UNCHANGED <<now, proc, scan, job, call, arms, bounds, history>>

Cancel(id) ==
  /\ rows[id].status \in {"pending", "sending"}
  /\ rows' = [rows EXCEPT ![id].status = "cancelled"]
  /\ UNCHANGED <<now, proc, scan, job, call, arms, bounds, history>>

Delete(id) ==
  /\ Exists(id)
  /\ rows' = [rows EXCEPT ![id] = Blank]
  /\ UNCHANGED <<now, proc, scan, job, call, arms, bounds, history>>

-----------------------------------------------------------------------------
Dispatch(i, id) ==
  \/ Claim(i, id) \/ ClaimLost(i, id) \/ Miss(i, id)
  \/ \E sent \in BOOLEAN, reply \in {"sent", "err"} : Deliver(i, id, sent, reply)
  \/ ReadDaily(i, id)
  \/ RecordFailure(i, id) \/ RecordSent(i, id) \/ Rollover(i, id)
  \/ GiveUp(i, id)

Handle(i, h) ==
  \/ \E r \in Requests : Post(i, h, r)
  \/ \E g \in call[i][h].todo : ComposeFails(i, h, g) \/ SaveRefused(i, h, g)
  \/ \E g \in call[i][h].todo, id \in RowIds : Save(i, h, g, id)
  \/ Finish(i, h) \/ Disconnect(i, h)

Next ==
  \/ \E i \in Instances : Plan(i) \/ Stop(i) \/ Restart(i)
  \/ \E i \in Instances : \E s \in scan[i] : Arm(i, s)
  \/ \E i \in Instances, id \in RowIds : Dispatch(i, id)
  \/ \E i \in Instances, h \in Handlers : Handle(i, h)
  \/ \E id \in RowIds : Cancel(id) \/ Delete(id)
  \/ Tick

Spec == Init /\ [][Next]_vars

\* The dispatcher's ticker keeps firing, its loop and its goroutines run, the
\* container is restarted.  Nobody is obliged to post, cancel, crash or wait.
Fairness ==
  /\ \A i \in Instances :
       /\ WF_vars(Plan(i))
       /\ WF_vars(\E s \in scan[i] : Arm(i, s))
       /\ WF_vars(proc[i] = "stopping" /\ Restart(i))
  /\ \A i \in Instances, id \in RowIds : WF_vars(Dispatch(i, id))

FairSpec == Spec /\ Fairness

-----------------------------------------------------------------------------
(* Properties *)

TypeOK ==
  /\ rows \in [RowIds -> Row]
  /\ now \in Nat
  /\ proc \in [Instances -> {"running", "stopping"}]
  /\ scan \in [Instances -> SUBSET Snapshot]
  /\ job \in [Instances -> [RowIds -> Job]]
  /\ call \in [Instances -> [Handlers -> Call]]
  /\ requests \in Nat /\ crashes \in Nat
  /\ arms \in [RowIds -> Nat]
  /\ taken \subseteq RowIds \X Nat
  /\ delivered \subseteq [id : RowIds, arm : Nat, text : Nat, again : BOOLEAN]
  /\ stranded \subseteq RowIds /\ raced \subseteq RowIds

(* A note saved once, and a daily reminder rolled over once, is delivered  *)
(* at most once: no goroutine of any process is about to send an arming    *)
(* that has been sent or another goroutine is about to send, however       *)
(* scans, crashes, saves and cancellations interleave (the claim of        *)
(* dispatchOne).                                                           *)
NoSecondDelivery ==
  \A i \in Instances, id \in RowIds :
    job[i][id].pc = "claimed" =>
      /\ ~Was(id, job[i][id].arm)
      /\ \A k \in Instances \ {i} :
           job[k][id].pc = "claimed" => job[k][id].arm # job[i][id].arm

(* Why: a pending row's latest arming is nobody's yet, and what is claimed *)
(* or was sent is among the armings taken before.                          *)
ArmingInv ==
  /\ \A m \in taken : m[2] <= arms[m[1]]
  /\ \A id \in RowIds : rows[id].status = "pending" => <<id, arms[id]>> \notin taken
  /\ \A d \in delivered : <<d.id, d.arm>> \in taken
  /\ \A i \in Instances, id \in RowIds :
       job[i][id].pc = "claimed" => <<id, job[i][id].arm>> \in taken
  /\ NoSecondDelivery

(* The scheduler implements the at-most-once outbox.                       *)
Sending == INSTANCE Outbox WITH Ids <- RowIds, armed <- arms,
                                out <- {<<d.id, d.arm, d.again>> : d \in delivered}
AtMostOnce == Sending!Spec

(* A note item has one row per user, and an angel reminds a user once at a *)
(* time, whatever saves, rollovers and deletions interleave.               *)
UniqueRows ==
  \A a, b \in RowIds :
    a # b /\ Exists(a) /\ Exists(b) /\ rows[a].user = rows[b].user =>
      /\ rows[a].item # rows[b].item
      /\ <<rows[a].angel, rows[a].at>> # <<rows[b].angel, rows[b].at>>

(* A row marked sent had the text it now holds delivered, unless it was    *)
(* saved again while a scan or a timer still held the old text.            *)
SentWasDelivered ==
  \A id \in RowIds \ raced :
    rows[id].status = "sent" => \E d \in delivered : d.id = id /\ d.text = rows[id].text

(* A row in sending is some goroutine's to finish, unless its claimant     *)
(* died, did not learn that its claim was committed, or could not record   *)
(* the result since the row was last saved: nothing else strands a row.    *)
SendingIsOwned ==
  \A id \in RowIds \ stranded :
    rows[id].status = "sending" => \E i \in Instances : job[i][id].pc \in InFlight

(* Once a row is cancelled and no goroutine has it in flight, it is not    *)
(* delivered, and only a new save makes it pending again.                  *)
CancelSticks ==
  [][\A id \in RowIds :
       rows[id].status = "cancelled" /\ (\A i \in Instances : job[i][id].pc \notin InFlight)
       => /\ rows'[id].status \in {"cancelled", "absent", "pending"}
          /\ rows'[id].status = "pending" => rows'[id].text > rows[id].text
          /\ {d \in delivered' : d.id = id} \subseteq delivered]_vars

(* A reminder is claimed for delivery only when its time has come, unless  *)
(* its row was saved or rolled over since the scan that armed the timer:   *)
(* the claim does not look at the time again.                              *)
NeverEarly ==
  [][\A i \in Instances, id \in RowIds :
       job[i][id].pc = "armed" /\ job'[i][id].pc = "claimed" =>
         rows[id].at <= now \/ job[i][id].arm < arms[id]]_vars

(* A pending row whose time has come is picked up, unless timers stand in  *)
(* its way that were armed for a later time than their rows have now: its  *)
(* own, or those of as many earlier rows as a scan returns.                *)
Due(id) == rows[id].status = "pending" /\ rows[id].at <= now
ArmedLater(id) == \E i \in Instances : job[i][id].pc = "armed" /\ job[i][id].at > now
InTheWay(id) ==
  {other \in RowIds : ArmedLater(other) /\ rows[other].status = "pending" /\ rows[other].at <= rows[id].at}
DueIsServed ==
  \A id \in RowIds : Due(id) ~> ~Due(id) \/ ArmedLater(id) \/ Cardinality(InTheWay(id)) >= Limit
=============================================================================
