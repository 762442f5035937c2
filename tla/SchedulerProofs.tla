--------------------------- MODULE SchedulerProofs ---------------------------
(***************************************************************************)
(* What holds of the scheduler for every set of rows, instances, handlers  *)
(* and requests and for every bound: its types, that no arming of a row is *)
(* sent twice, and that it implements the outbox.                          *)
(***************************************************************************)
EXTENDS Scheduler, TLAPS

-----------------------------------------------------------------------------
(* Types *)

LEMMA BlankType == Blank \in Row
BY SetsAssumption DEF Blank, Row, Statuses

LEMMA NoJobType == NoJob \in Job
BY DEF NoJob, Job, Phases

LEMMA NoCallType == NoCall \in Call
BY SetsAssumption DEF NoCall, Call

(* The next occurrence of a time of day is a time, and lies strictly ahead *)
(* of the moment it was computed at, by at most a day.                     *)
LEMMA NextAtAhead ==
  ASSUME NEW slot \in 0..(Day - 1), NEW from \in Nat
  PROVE  NextAt(slot, from) \in Nat /\ NextAt(slot, from) > from
         /\ NextAt(slot, from) <= from + Day
<1>1. Day \in Nat \ {0}
  BY NumbersAssumption
<1> DEFINE q == from \div Day
<1>2. q \in Nat /\ q * Day <= from /\ from < q * Day + Day
  BY <1>1
<1>3. q * Day \in Nat
  BY <1>1, <1>2
<1> HIDE DEF q
<1>4. NextAt(slot, from) = IF q * Day + slot > from THEN q * Day + slot ELSE q * Day + slot + Day
  BY DEF NextAt, q
<1> QED BY <1>1, <1>2, <1>3, <1>4

LEMMA SetJobType ==
  ASSUME TypeOK, NEW i \in Instances, NEW id \in RowIds, NEW j \in Job, SetJob(i, id, j)
  PROVE  job' \in [Instances -> [RowIds -> Job]]
BY DEF TypeOK, SetJob

(* A claim that was committed without its answer: the row is in sending and *)
(* marked as stranded, the others are as they were.                        *)
SendingRow(id) == [rows[id] EXCEPT !.status = "sending"]
Cut(id) ==
  \/ rows'[id] = rows[id]
  \/ rows[id].status = "pending" /\ id \in stranded' /\ rows'[id] = SendingRow(id)
Cuts ==
  /\ rows' \in [RowIds -> Row] /\ stranded' \subseteq RowIds /\ stranded \subseteq stranded'
  /\ \A id \in RowIds :
       /\ rows'[id].user = rows[id].user /\ rows'[id].item = rows[id].item
       /\ rows'[id].angel = rows[id].angel /\ rows'[id].at = rows[id].at
       /\ rows'[id].text = rows[id].text
       /\ \/ rows'[id].status = rows[id].status
          \/ rows[id].status = "pending" /\ rows'[id].status = "sending" /\ id \in stranded'

LEMMA CutsRows ==
  ASSUME TypeOK, rows' \in [RowIds -> Row], stranded \subseteq stranded', stranded' \subseteq RowIds,
         \A id \in RowIds : Cut(id)
  PROVE  Cuts
<1> SUFFICES ASSUME NEW id \in RowIds
             PROVE  /\ rows'[id].user = rows[id].user /\ rows'[id].item = rows[id].item
                    /\ rows'[id].angel = rows[id].angel /\ rows'[id].at = rows[id].at
                    /\ rows'[id].text = rows[id].text
                    /\ \/ rows'[id].status = rows[id].status
                       \/ rows[id].status = "pending" /\ rows'[id].status = "sending" /\ id \in stranded'
  BY DEF Cuts
<1>1. Cut(id) /\ rows[id] \in Row
  BY DEF TypeOK
<1>2. CASE rows'[id] = rows[id]
  BY <1>2
<1>3. CASE rows[id].status = "pending" /\ id \in stranded' /\ rows'[id] = SendingRow(id)
  BY <1>1, <1>3 DEF Row, SendingRow
<1> QED BY <1>1, <1>2, <1>3 DEF Cut

LEMMA StopCuts ==
  ASSUME TypeOK, NEW i \in Instances, Stop(i)
  PROVE  Cuts
<1>1. PICK cut : /\ cut \in SUBSET {id \in RowIds : Fired(i, id) /\ rows[id].status = "pending"}
                 /\ rows' = [id \in RowIds |->
                              IF id \in cut THEN [rows[id] EXCEPT !.status = "sending"] ELSE rows[id]]
                 /\ stranded' = stranded \union cut
  BY DEF Stop
<1>2. cut \subseteq RowIds /\ \A id \in cut : rows[id].status = "pending"
  BY <1>1
<1>3. \A id \in RowIds : rows[id] \in Row /\ [rows[id] EXCEPT !.status = "sending"] \in Row
  BY DEF TypeOK, Row, Statuses
<1>4. rows' \in [RowIds -> Row]
  <2>1. PICK f : f = [id \in RowIds |-> [rows[id] EXCEPT !.status = "sending"]]
    OBVIOUS
  <2>2. rows' = [id \in RowIds |-> IF id \in cut THEN f[id] ELSE rows[id]]
    BY <1>1, <2>1
  <2>3. \A id \in RowIds : f[id] \in Row
    BY <1>3, <2>1
  <2> QED BY <1>3, <2>2, <2>3
<1>5. ASSUME NEW id \in RowIds PROVE Cut(id)
  <2>1. rows'[id] = IF id \in cut THEN SendingRow(id) ELSE rows[id]
    BY <1>1, Zenon DEF SendingRow
  <2>2. id \in cut => rows[id].status = "pending" /\ id \in stranded'
    BY <1>1, <1>2
  <2> QED BY <2>1, <2>2 DEF Cut
<1>6. stranded' \subseteq RowIds /\ stranded \subseteq stranded'
  BY <1>1, <1>2 DEF TypeOK
<1> QED BY <1>4, <1>5, <1>6, CutsRows

LEMMA StopJobs ==
  ASSUME TypeOK, NEW i \in Instances, Stop(i) \/ Restart(i)
  PROVE  \A k \in Instances, id \in RowIds :
           \/ job'[k][id] = job[k][id]
           \/ job'[k][id] = NoJob /\ (Stop(i) => job[k][id].pc = "armed")
<1>1. CASE Stop(i)
  <2>1. PICK left : left = [id \in RowIds |-> IF job[i][id].pc = "armed" THEN NoJob ELSE job[i][id]]
    OBVIOUS
  <2>2. job' = [job EXCEPT ![i] = left]
    BY <1>1, <2>1 DEF Stop
  <2> QED BY <2>1, <2>2 DEF TypeOK
<1>2. CASE Restart(i) /\ ~Stop(i)
  BY <1>2 DEF Restart, TypeOK
<1> QED BY <1>1, <1>2

LEMMA ClaimLostCuts ==
  ASSUME TypeOK, NEW i \in Instances, NEW id \in RowIds, ClaimLost(i, id)
  PROVE  Cuts
<1>1. /\ rows[id].status = "pending" /\ stranded' = stranded \union {id}
      /\ rows' = [rows EXCEPT ![id].status = "sending"]
  BY DEF ClaimLost
<1>2. rows[id] \in Row /\ [rows[id] EXCEPT !.status = "sending"] \in Row
  BY DEF TypeOK, Row, Statuses
<1>3. rows' \in [RowIds -> Row]
  <2>1. PICK row : row = [rows[id] EXCEPT !.status = "sending"]
    OBVIOUS
  <2>2. row \in Row /\ rows' = [rows EXCEPT ![id] = row]
    BY <1>1, <1>2, <2>1
  <2> QED BY <2>2 DEF TypeOK
<1>4. ASSUME NEW k \in RowIds PROVE Cut(k)
  <2>1. rows' = [rows EXCEPT ![id] = SendingRow(id)]
    BY <1>1 DEF SendingRow
  <2>2. rows'[k] = IF k = id THEN SendingRow(k) ELSE rows[k]
    BY <2>1 DEF TypeOK
  <2> QED BY <1>1, <2>2 DEF Cut
<1>5. stranded' \subseteq RowIds /\ stranded \subseteq stranded'
  BY <1>1 DEF TypeOK
<1> QED BY <1>3, <1>4, <1>5, CutsRows

(* Every step keeps the types. *)
LEMMA TypeStep == TypeOK /\ [Next]_vars => TypeOK'
<1> SUFFICES ASSUME TypeOK, [Next]_vars PROVE TypeOK'
  OBVIOUS
<1> USE NumbersAssumption
<1>1. ASSUME NEW i \in Instances, Plan(i) PROVE TypeOK'
  <2>1. rows' \in [RowIds -> Row]
    BY <1>1, BlankType DEF Plan, TypeOK
  <2>2. PICK S \in Scans : scan' = [scan EXCEPT ![i] = {[id |-> id, text |-> rows[id].text, at |-> rows[id].at, arm |-> arms[id]] : id \in S}]
    BY <1>1 DEF Plan
  <2>3. S \subseteq RowIds
    BY DEF Scans, Eligible
  <2>4. {[id |-> id, text |-> rows[id].text, at |-> rows[id].at, arm |-> arms[id]] : id \in S} \subseteq Snapshot
    BY <2>3 DEF TypeOK, Row, Snapshot
  <2>5. scan' \in [Instances -> SUBSET Snapshot]
    BY <2>2, <2>4 DEF TypeOK
  <2> QED BY <1>1, <2>1, <2>5 DEF Plan, TypeOK, bounds, history
<1>2. ASSUME NEW i \in Instances, NEW s \in scan[i], Arm(i, s) PROVE TypeOK'
  <2>1. s \in Snapshot
    BY DEF TypeOK
  <2>2. [pc |-> "armed", text |-> s.text, at |-> s.at, arm |-> s.arm] \in Job /\ s.id \in RowIds
    BY <2>1 DEF Snapshot, Job, Phases
  <2>3. job' \in [Instances -> [RowIds -> Job]]
    <3>1. CASE job[i][s.id].pc = "idle"
      BY <1>2, <2>2, <3>1, SetJobType DEF Arm
    <3>2. CASE job[i][s.id].pc # "idle"
      BY <1>2, <3>2 DEF Arm, TypeOK
    <3> QED BY <3>1, <3>2
  <2>4. scan' \in [Instances -> SUBSET Snapshot]
    BY <1>2 DEF Arm, TypeOK
  <2> QED BY <1>2, <2>3, <2>4 DEF Arm, TypeOK, dbVars, bounds, history
<1>3. ASSUME NEW i \in Instances, NEW id \in RowIds, Dispatch(i, id) PROVE TypeOK'
  <2> DEFINE j == job[i][id]
  <2>1. j \in Job /\ rows[id] \in Row /\ arms[id] \in Nat
    BY DEF TypeOK
  <2>2. CASE Claim(i, id)
    <3>1. rows' \in [RowIds -> Row]
      BY <2>1, <2>2 DEF Claim, TypeOK, Row, Statuses
    <3>2. [j EXCEPT !.pc = "claimed", !.arm = arms[id]] \in Job
      BY <2>1 DEF Job, Phases
    <3>3. job' \in [Instances -> [RowIds -> Job]]
      BY <2>2, <3>2, SetJobType DEF Claim
    <3> QED BY <2>1, <2>2, <3>1, <3>3 DEF Claim, TypeOK, bounds
  <2>3. CASE Miss(i, id)
    BY <2>3, NoJobType, SetJobType DEF Miss, TypeOK, dbVars, bounds, history
  <2>4. ASSUME NEW sent \in BOOLEAN, NEW reply \in {"sent", "err"}, Deliver(i, id, sent, reply)
        PROVE  TypeOK'
    <3>1. [j EXCEPT !.pc = reply] \in Job
      BY <2>1 DEF Job, Phases
    <3>2. job' \in [Instances -> [RowIds -> Job]]
      BY <2>4, <3>1, SetJobType DEF Deliver
    <3>3. delivered' \subseteq [id : RowIds, arm : Nat, text : Nat, again : BOOLEAN]
      <4> DEFINE new == [id |-> id, arm |-> j.arm, text |-> j.text, again |-> Was(id, j.arm)]
      <4>1. Was(id, j.arm) \in BOOLEAN
        BY DEF Was
      <4>2. j.arm \in Nat /\ j.text \in Nat
        BY <2>1 DEF Job
      <4>3. new \in [id : RowIds, arm : Nat, text : Nat, again : BOOLEAN]
        BY <4>1, <4>2, Zenon
      <4>4. delivered' \subseteq delivered \union {new}
        BY <2>4 DEF Deliver
      <4> HIDE DEF new
      <4> QED BY <4>3, <4>4 DEF TypeOK
    <3> QED BY <2>4, <3>2, <3>3 DEF Deliver, TypeOK, dbVars, bounds
  <2>5. CASE ReadDaily(i, id)
    <3>1. \A d : [j EXCEPT !.pc = IF d THEN "daily" ELSE "once"] \in Job
      BY <2>1 DEF Job, Phases
    <3>2. job' \in [Instances -> [RowIds -> Job]]
      BY <2>5, <3>1, SetJobType DEF ReadDaily
    <3> QED BY <2>5, <3>2 DEF ReadDaily, TypeOK, dbVars, bounds, history
  <2>6. ASSUME NEW pc, NEW new \in Row, Record(i, id, pc, new), arms' \in [RowIds -> Nat]
        PROVE  TypeOK'
    BY <2>6, NoJobType, SetJobType DEF Record, TypeOK, bounds, history
  <2>7. CASE RecordFailure(i, id)
    <3>1. [rows[id] EXCEPT !.status = "failed"] \in Row
      BY <2>1 DEF Row, Statuses
    <3> QED BY <2>6, <2>7, <3>1 DEF RecordFailure, TypeOK
  <2>8. CASE RecordSent(i, id)
    <3>1. [rows[id] EXCEPT !.status = "sent", !.sentAt = now] \in Row
      BY <2>1 DEF Row, Statuses, TypeOK
    <3> QED BY <2>6, <2>8, <3>1 DEF RecordSent, TypeOK
  <2>9. CASE Rollover(i, id)
    <3>0. rows[id].at + Day \in Nat /\ now \in Nat
      BY <2>1 DEF Row, TypeOK
    <3>1. [rows[id] EXCEPT !.status = "pending", !.at = @ + Day, !.sentAt = now] \in Row
      BY <2>1, <3>0, Zenon DEF Row, Statuses
    <3>2. arms' \in [RowIds -> Nat]
      BY <2>1, <2>9 DEF Rollover, TypeOK
    <3> QED BY <2>6, <2>9, <3>1, <3>2 DEF Rollover
  <2>10. CASE GiveUp(i, id)
    BY <2>10, NoJobType, SetJobType DEF GiveUp, TypeOK, dbVars, bounds
  <2>11. CASE ClaimLost(i, id)
    <3>1. Cuts
      BY <2>11, ClaimLostCuts
    <3>2. job' \in [Instances -> [RowIds -> Job]]
      BY <2>11, NoJobType, SetJobType DEF ClaimLost
    <3> QED BY <2>11, <3>1, <3>2 DEF ClaimLost, Cuts, TypeOK, bounds
  <2> QED BY <1>3, <2>2, <2>3, <2>4, <2>5, <2>7, <2>8, <2>9, <2>10, <2>11 DEF Dispatch
<1>4. ASSUME NEW i \in Instances, Stop(i) PROVE TypeOK'
  <2>1. Cuts
    BY <1>4, StopCuts
  <2>2. job' \in [Instances -> [RowIds -> Job]] /\ scan' \in [Instances -> SUBSET Snapshot]
    BY <1>4, NoJobType DEF Stop, TypeOK
  <2>3. proc' \in [Instances -> {"running", "stopping"}] /\ crashes' \in Nat
    BY <1>4 DEF Stop, TypeOK
  <2> QED BY <1>4, <2>1, <2>2, <2>3 DEF Stop, Cuts, TypeOK
<1>5. ASSUME NEW i \in Instances, Restart(i) PROVE TypeOK'
  BY <1>5, NoJobType, NoCallType DEF Restart, TypeOK, dbVars
<1>6. ASSUME NEW i \in Instances, NEW h \in Handlers, Handle(i, h) PROVE TypeOK'
  <2> DEFINE c == call[i][h]
  <2>1. c \in Call
    BY DEF TypeOK
  <2>2. ASSUME NEW r \in Requests, Post(i, h, r) PROVE TypeOK'
    <3>1. r \in [user : Users, groups : SUBSET Group, sync : BOOLEAN]
      BY RequestsAssumption
    <3>2. [pc |-> "saving", user |-> r.user, todo |-> r.groups, kept |-> {},
           sync |-> r.sync, from |-> now] \in Call
      BY <3>1 DEF Call, TypeOK
    <3>3. call' \in [Instances -> [Handlers -> Call]]
      <4>1. CASE r.groups = {}
        BY <2>2, <4>1 DEF Post, TypeOK
      <4>2. CASE r.groups # {}
        <5> DEFINE new == [pc |-> "saving", user |-> r.user, todo |-> r.groups, kept |-> {},
                           sync |-> r.sync, from |-> now]
        <5>1. call' = [call EXCEPT ![i][h] = new]
          BY <2>2, <4>2 DEF Post
        <5>2. new \in Call
          BY <3>2
        <5> HIDE DEF new
        <5> QED BY <5>1, <5>2 DEF TypeOK
      <4> QED BY <4>1, <4>2
    <3>4. rows' \in [RowIds -> Row]
      BY <2>2, BlankType DEF Post, TypeOK
    <3> QED BY <2>2, <3>3, <3>4 DEF Post, TypeOK, history
  <2>3. ASSUME NEW g \in c.todo
        PROVE  /\ [c EXCEPT !.todo = @ \ {g}] \in Call
               /\ [c EXCEPT !.todo = @ \ {g}, !.kept = @ \union {g.item}] \in Call
               /\ g \in Group
    BY <2>1 DEF Call, Group
  <2>4. ASSUME NEW g \in c.todo, ComposeFails(i, h, g) PROVE TypeOK'
    BY <2>3, <2>4 DEF ComposeFails, TypeOK, dbVars, bounds, history
  <2>5. ASSUME NEW g \in c.todo, Saved(i, h, g) PROVE call' \in [Instances -> [Handlers -> Call]]
    BY <2>3, <2>5 DEF Saved, TypeOK
  <2>6. ASSUME NEW g \in c.todo, SaveRefused(i, h, g) PROVE TypeOK'
    BY <2>5, <2>6 DEF SaveRefused, TypeOK, dbVars, bounds, history
  <2>7. ASSUME NEW g \in c.todo, NEW id \in RowIds, Save(i, h, g, id) PROVE TypeOK'
    <3>1. NextAt(g.slot, c.from) \in Nat
      BY <2>1, <2>3, NextAtAhead DEF Group, Call
    <3>2. arms[id] \in Nat
      BY DEF TypeOK
    <3>3. [user |-> c.user, item |-> g.item, angel |-> g.angel, at |-> NextAt(g.slot, c.from),
           daily |-> g.daily, text |-> arms[id] + 1, sentAt |-> 0, status |-> "pending"] \in Row
      <4>1. g.item \in Items /\ g.angel \in Angels /\ g.daily \in BOOLEAN
        BY <2>3 DEF Group
      <4>2. c.user \in Users /\ arms[id] + 1 \in Nat
        BY <2>1, <3>2 DEF Call
      <4> QED BY <3>1, <4>1, <4>2, Zenon DEF Row, Statuses
    <3>4. rows' \in [RowIds -> Row] /\ arms' \in [RowIds -> Nat]
      BY <2>7, <3>2, <3>3 DEF Save, TypeOK
    <3>5. call' \in [Instances -> [Handlers -> Call]]
      BY <2>5, <2>7 DEF Save
    <3> QED BY <2>7, <3>4, <3>5 DEF Save, TypeOK, bounds
  <2>8. CASE Finish(i, h)
    <3>1. rows' \in [RowIds -> Row]
      BY <2>8, BlankType DEF Finish, TypeOK
    <3>2. call' \in [Instances -> [Handlers -> Call]]
      BY <2>8, NoCallType DEF Finish, TypeOK
    <3> QED BY <2>8, <3>1, <3>2 DEF Finish, TypeOK, bounds, history
  <2>9. CASE Disconnect(i, h)
    BY <2>9, NoCallType DEF Disconnect, TypeOK, dbVars, bounds, history
  <2> QED BY <1>6, <2>2, <2>4, <2>6, <2>7, <2>8, <2>9 DEF Handle
<1>7. ASSUME NEW id \in RowIds, Cancel(id) \/ Delete(id) PROVE TypeOK'
  <2>1. CASE Cancel(id)
    BY <2>1, SMTT(30) DEF Cancel, TypeOK, Row, Statuses, bounds, history
  <2>2. CASE Delete(id)
    BY <2>2, BlankType DEF Delete, TypeOK, bounds, history
  <2> QED BY <1>7, <2>1, <2>2
<1>8. CASE Tick
  BY <1>8 DEF Tick, TypeOK, dbVars, bounds, history
<1>9. CASE UNCHANGED vars
  BY <1>9 DEF vars, TypeOK
<1> QED BY <1>1, <1>2, <1>3, <1>4, <1>5, <1>6, <1>7, <1>8, <1>9 DEF Next

(* Types hold in every state the scheduler reaches. *)
THEOREM TypeCorrect == Spec => []TypeOK
<1>1. Init => TypeOK
  BY BlankType, NoJobType, NoCallType DEF Init, TypeOK
<1> QED BY <1>1, TypeStep, PTL DEF Spec

-----------------------------------------------------------------------------
(* No arming is sent twice *)

(* A step that keeps the claims, the deliveries and the armings, and makes *)
(* no row pending, keeps the invariant.                                    *)
LEMMA QuietStep ==
  ASSUME TypeOK, ArmingInv,
         UNCHANGED <<arms, taken, delivered>>,
         \A id \in RowIds : rows'[id].status = "pending" => rows[id].status = "pending",
         \A i \in Instances, id \in RowIds :
           job'[i][id].pc = "claimed" => job'[i][id] = job[i][id]
  PROVE  ArmingInv'
BY DEF ArmingInv, NoSecondDelivery, Was

(* A step that arms one row anew and keeps the claims and deliveries.      *)
LEMMA ArmStep ==
  ASSUME TypeOK, ArmingInv, NEW id \in RowIds,
         arms' = [arms EXCEPT ![id] = @ + 1],
         UNCHANGED <<taken, delivered>>,
         \A k \in RowIds \ {id} : rows'[k] = rows[k],
         \A i \in Instances, k \in RowIds :
           job'[i][k].pc = "claimed" => job'[i][k] = job[i][k]
  PROVE  ArmingInv'
<1>1. \A k \in RowIds : arms[k] \in Nat /\ arms'[k] = IF k = id THEN arms[k] + 1 ELSE arms[k]
  BY DEF TypeOK
<1>2. \A m \in taken : m[1] \in RowIds /\ m[2] \in Nat
  BY DEF TypeOK
<1>3. \A m \in taken' : m[2] <= arms'[m[1]]
  BY <1>1, <1>2 DEF ArmingInv
<1>4. \A k \in RowIds : rows'[k].status = "pending" => <<k, arms'[k]>> \notin taken'
  <2> SUFFICES ASSUME NEW k \in RowIds, rows'[k].status = "pending", <<k, arms'[k]>> \in taken
               PROVE  FALSE
    OBVIOUS
  <2>1. CASE k = id
    BY <1>1, <2>1 DEF ArmingInv
  <2>2. CASE k # id
    BY <1>1, <2>2 DEF ArmingInv
  <2> QED BY <2>1, <2>2
<1> QED BY <1>3, <1>4 DEF ArmingInv, NoSecondDelivery, Was

LEMMA ClaimStep ==
  ASSUME TypeOK, ArmingInv, NEW i \in Instances, NEW id \in RowIds, Claim(i, id)
  PROVE  ArmingInv'
<1>1. /\ taken' = taken \union {<<id, arms[id]>>} /\ <<id, arms[id]>> \notin taken
      /\ UNCHANGED <<arms, delivered>>
  BY DEF Claim, ArmingInv
<1>2. \A k \in RowIds : k # id => rows'[k] = rows[k]
  BY DEF Claim, TypeOK
<1>3. rows'[id].status = "sending"
  BY DEF Claim, TypeOK, Row
<1>4. job'[i][id].arm = arms[id]
  BY DEF Claim, SetJob, TypeOK, Job
<1>5. \A k \in Instances, n \in RowIds : <<k, n>> # <<i, id>> => job'[k][n] = job[k][n]
  BY DEF Claim, SetJob, TypeOK
<1>6. \A m \in taken' : m[2] <= arms'[m[1]]
  BY <1>1 DEF ArmingInv, TypeOK
<1>7. \A k \in RowIds : rows'[k].status = "pending" => <<k, arms'[k]>> \notin taken'
  BY <1>1, <1>2, <1>3 DEF ArmingInv
<1>8. \A k \in Instances, n \in RowIds :
        job'[k][n].pc = "claimed" => <<n, job'[k][n].arm>> \in taken'
  BY <1>1, <1>4, <1>5 DEF ArmingInv
<1>9. NoSecondDelivery'
  BY <1>1, <1>4, <1>5 DEF ArmingInv, NoSecondDelivery, Was
<1> QED BY <1>1, <1>6, <1>7, <1>8, <1>9 DEF ArmingInv

LEMMA DeliverStep ==
  ASSUME TypeOK, ArmingInv, NEW i \in Instances, NEW id \in RowIds,
         NEW sent \in BOOLEAN, NEW reply \in {"sent", "err"}, Deliver(i, id, sent, reply)
  PROVE  ArmingInv'
<1>1. UNCHANGED <<rows, arms, taken>> /\ job[i][id].pc = "claimed"
  BY DEF Deliver, dbVars
<1>2. job'[i][id].pc # "claimed"
  BY DEF Deliver, SetJob, TypeOK, Job
<1>3. \A k \in Instances, n \in RowIds : <<k, n>> # <<i, id>> => job'[k][n] = job[k][n]
  BY DEF Deliver, SetJob, TypeOK
<1>4. \A d \in delivered' : d \in delivered \/ (d.id = id /\ d.arm = job[i][id].arm)
  BY DEF Deliver
<1>5. \A d \in delivered' : <<d.id, d.arm>> \in taken'
  BY <1>1, <1>4 DEF ArmingInv
<1>6. NoSecondDelivery'
  <2> SUFFICES ASSUME NEW k \in Instances, NEW n \in RowIds, job'[k][n].pc = "claimed"
               PROVE  /\ \A d \in delivered' : d.id = n => d.arm # job'[k][n].arm
                      /\ \A l \in Instances \ {k} :
                           job'[l][n].pc = "claimed" => job'[l][n].arm # job'[k][n].arm
    BY DEF NoSecondDelivery, Was
  <2>1. <<k, n>> # <<i, id>> /\ job'[k][n] = job[k][n]
    BY <1>2, <1>3
  <2>2. \A d \in delivered' : d.id = n => d.arm # job'[k][n].arm
    BY <1>1, <1>4, <2>1 DEF ArmingInv, NoSecondDelivery, Was
  <2>3. \A l \in Instances \ {k} : job'[l][n].pc = "claimed" => job'[l][n].arm # job'[k][n].arm
    BY <1>2, <1>3, <2>1 DEF ArmingInv, NoSecondDelivery, Was
  <2> QED BY <2>2, <2>3
<1> QED BY <1>1, <1>2, <1>3, <1>5, <1>6 DEF ArmingInv

(* The goroutine's last UPDATE.                                            *)
LEMMA RecordStep ==
  ASSUME TypeOK, NEW i \in Instances, NEW id \in RowIds, NEW pc, NEW new \in Row, Record(i, id, pc, new)
  PROVE  /\ UNCHANGED <<taken, delivered>>
         /\ \A k \in RowIds \ {id} : rows'[k] = rows[k]
         /\ rows'[id] = IF Exists(id) THEN new ELSE rows[id]
         /\ \A k \in Instances, n \in RowIds : job'[k][n].pc = "claimed" => job'[k][n] = job[k][n]
<1>1. UNCHANGED <<taken, delivered>>
  BY DEF Record, history
<1>2. \A k \in RowIds \ {id} : rows'[k] = rows[k]
  BY DEF Record, TypeOK
<1>3. rows'[id] = IF Exists(id) THEN new ELSE rows[id]
  BY DEF Record, TypeOK
<1>4. \A k \in Instances, n \in RowIds : job'[k][n].pc = "claimed" => job'[k][n] = job[k][n]
  BY DEF Record, SetJob, NoJob, TypeOK
<1> QED BY <1>1, <1>2, <1>3, <1>4

LEMMA DispatchStep ==
  ASSUME TypeOK, ArmingInv, NEW i \in Instances, NEW id \in RowIds, Dispatch(i, id)
  PROVE  ArmingInv'
<1>0. rows[id] \in Row /\ now \in Nat
  BY DEF TypeOK
<1>1. CASE Miss(i, id)
  BY <1>1, QuietStep DEF Miss, SetJob, NoJob, TypeOK, dbVars, history
<1>2. CASE ReadDaily(i, id)
  <2>1. \A k \in Instances, n \in RowIds : job'[k][n].pc = "claimed" => job'[k][n] = job[k][n]
    BY <1>2 DEF ReadDaily, SetJob, TypeOK, Job
  <2> QED BY <1>2, <2>1, QuietStep DEF ReadDaily, dbVars, history
<1>3. CASE RecordFailure(i, id)
  <2> DEFINE new == [rows[id] EXCEPT !.status = "failed"]
  <2>1. new \in Row /\ new.status = "failed"
    BY <1>0 DEF Row, Statuses
  <2>2. Record(i, id, "err", new) /\ UNCHANGED arms
    BY <1>3 DEF RecordFailure
  <2> HIDE DEF new
  <2>3. UNCHANGED <<taken, delivered>>
    BY <2>1, <2>2, RecordStep
  <2>4. \A k \in RowIds : rows'[k].status = "pending" => rows[k].status = "pending"
    BY <2>1, <2>2, RecordStep
  <2>5. \A k \in Instances, n \in RowIds : job'[k][n].pc = "claimed" => job'[k][n] = job[k][n]
    BY <2>1, <2>2, RecordStep
  <2> QED BY <2>2, <2>3, <2>4, <2>5, QuietStep
<1>4. CASE RecordSent(i, id)
  <2> DEFINE new == [rows[id] EXCEPT !.status = "sent", !.sentAt = now]
  <2>1. new \in Row /\ new.status = "sent"
    BY <1>0 DEF Row, Statuses
  <2>2. Record(i, id, "once", new) /\ UNCHANGED arms
    BY <1>4 DEF RecordSent
  <2> HIDE DEF new
  <2>3. UNCHANGED <<taken, delivered>>
    BY <2>1, <2>2, RecordStep
  <2>4. \A k \in RowIds : rows'[k].status = "pending" => rows[k].status = "pending"
    BY <2>1, <2>2, RecordStep
  <2>5. \A k \in Instances, n \in RowIds : job'[k][n].pc = "claimed" => job'[k][n] = job[k][n]
    BY <2>1, <2>2, RecordStep
  <2> QED BY <2>2, <2>3, <2>4, <2>5, QuietStep
<1>5. CASE Rollover(i, id)
  <2> DEFINE new == [rows[id] EXCEPT !.status = "pending", !.at = @ + Day, !.sentAt = now]
  <2>1. rows[id].at + Day \in Nat
    BY <1>0, NumbersAssumption DEF Row
  <2>2. new \in Row
    BY <1>0, <2>1, Zenon DEF Row, Statuses
  <2>3. Record(i, id, "daily", new)
    BY <1>5 DEF Rollover
  <2> HIDE DEF new
  <2>4. CASE Exists(id)
    BY <1>5, <2>2, <2>3, <2>4, RecordStep, ArmStep DEF Rollover
  <2>5. CASE ~Exists(id)
    BY <1>5, <2>2, <2>3, <2>5, RecordStep, QuietStep DEF Rollover
  <2> QED BY <2>4, <2>5
<1>6. CASE GiveUp(i, id)
  BY <1>6, QuietStep DEF GiveUp, SetJob, NoJob, TypeOK, dbVars
<1>7. CASE ClaimLost(i, id)
  <2>1. \A k \in RowIds : rows'[k].status = "pending" => rows[k].status = "pending"
    BY <1>7, ClaimLostCuts DEF Cuts
  <2>2. \A k \in Instances, n \in RowIds : job'[k][n].pc = "claimed" => job'[k][n] = job[k][n]
    BY <1>7 DEF ClaimLost, SetJob, NoJob, TypeOK
  <2> QED BY <1>7, <2>1, <2>2, QuietStep DEF ClaimLost
<1> QED BY <1>1, <1>2, <1>3, <1>4, <1>5, <1>6, <1>7, ClaimStep, DeliverStep DEF Dispatch

LEMMA HandleStep ==
  ASSUME TypeOK, ArmingInv, NEW i \in Instances, NEW h \in Handlers, Handle(i, h)
  PROVE  ArmingInv'
<1>1. ASSUME NEW r \in Requests, Post(i, h, r) PROVE ArmingInv'
  <2>1. \A id \in RowIds : rows'[id].status = "pending" => rows[id].status = "pending"
    BY <1>1 DEF Post, Blank, TypeOK
  <2> QED BY <1>1, <2>1, QuietStep DEF Post, history
<1>2. ASSUME NEW g \in call[i][h].todo, ComposeFails(i, h, g) \/ SaveRefused(i, h, g)
      PROVE  ArmingInv'
  BY <1>2, QuietStep DEF ComposeFails, SaveRefused, dbVars, history
<1>3. ASSUME NEW g \in call[i][h].todo, NEW id \in RowIds, Save(i, h, g, id) PROVE ArmingInv'
  BY <1>3, ArmStep DEF Save, TypeOK
<1>4. CASE Finish(i, h)
  <2>1. \A id \in RowIds : rows'[id].status = "pending" => rows[id].status = "pending"
    <3>1. UNCHANGED rows \/ \A id \in RowIds : rows'[id] = Blank \/ rows'[id] = rows[id]
      BY <1>4 DEF Finish
    <3>2. Blank.status = "absent"
      BY DEF Blank
    <3> QED BY <3>1, <3>2
  <2>2. UNCHANGED <<arms, taken, delivered, job>>
    BY <1>4 DEF Finish, history
  <2> QED BY <2>1, <2>2, QuietStep
<1>5. CASE Disconnect(i, h)
  BY <1>5, QuietStep DEF Disconnect, dbVars, history
<1> QED BY <1>1, <1>2, <1>3, <1>4, <1>5 DEF Handle

LEMMA ArmingStep == TypeOK /\ ArmingInv /\ [Next]_vars => ArmingInv'
<1> SUFFICES ASSUME TypeOK, ArmingInv, [Next]_vars PROVE ArmingInv'
  OBVIOUS
<1>1. ASSUME NEW i \in Instances, Plan(i) PROVE ArmingInv'
  BY <1>1, QuietStep DEF Plan, Blank, TypeOK, history
<1>2. ASSUME NEW i \in Instances, NEW s \in scan[i], Arm(i, s) PROVE ArmingInv'
  <2>1. \A k \in Instances, n \in RowIds : job'[k][n].pc = "claimed" => job'[k][n] = job[k][n]
    <3> DEFINE new == [pc |-> "armed", text |-> s.text, at |-> s.at, arm |-> s.arm]
    <3>1. job' = [job EXCEPT ![i][s.id] = new] \/ job' = job
      BY <1>2 DEF Arm, SetJob
    <3>2. new.pc = "armed"
      OBVIOUS
    <3> HIDE DEF new
    <3> QED BY <3>1, <3>2, SMTT(30) DEF TypeOK
  <2> QED BY <1>2, <2>1, QuietStep DEF Arm, dbVars, history
<1>3. ASSUME NEW i \in Instances, Stop(i) \/ Restart(i) PROVE ArmingInv'
  <2>1. \A k \in Instances, n \in RowIds : job'[k][n].pc = "claimed" => job'[k][n] = job[k][n]
    BY <1>3, StopJobs DEF NoJob
  <2>2. CASE Stop(i)
    <3>1. \A k \in RowIds : rows'[k].status = "pending" => rows[k].status = "pending"
      BY <2>2, StopCuts DEF Cuts
    <3> QED BY <2>1, <2>2, <3>1, QuietStep DEF Stop
  <2>3. CASE Restart(i)
    BY <2>1, <2>3, QuietStep DEF Restart, dbVars
  <2> QED BY <1>3, <2>2, <2>3
<1>4. ASSUME NEW id \in RowIds, Cancel(id) \/ Delete(id) PROVE ArmingInv'
  <2>1. \A n \in RowIds : rows'[n].status = "pending" => rows[n].status = "pending"
    <3>1. CASE Cancel(id)
      BY <3>1 DEF Cancel, TypeOK, Row
    <3>2. CASE Delete(id)
      BY <3>2 DEF Delete, Blank, TypeOK
    <3> QED BY <1>4, <3>1, <3>2
  <2> QED BY <1>4, <2>1, QuietStep DEF Cancel, Delete, history
<1>5. CASE Tick \/ UNCHANGED vars
  BY <1>5, QuietStep DEF Tick, vars, dbVars, history
<1> QED BY <1>1, <1>2, <1>3, <1>4, <1>5, DispatchStep, HandleStep DEF Next

LEMMA ArmingInvariant == Spec => [](TypeOK /\ ArmingInv)
<1>1. Init => TypeOK /\ ArmingInv
  <2>1. Init => TypeOK
    BY BlankType, NoJobType, NoCallType DEF Init, TypeOK
  <2>2. Init => ArmingInv
    BY DEF Init, ArmingInv, NoSecondDelivery, Was, NoJob
  <2> QED BY <2>1, <2>2
<1> QED BY <1>1, TypeStep, ArmingStep, PTL DEF Spec

(* No arming of a row is sent twice, for any number of processes.          *)
THEOREM NoDuplicates == Spec => []NoSecondDelivery
<1>1. ArmingInv => NoSecondDelivery
  BY DEF ArmingInv
<1> QED BY <1>1, ArmingInvariant, PTL
-----------------------------------------------------------------------------
(* The scheduler implements the outbox *)

(* The outbox's view of one more message.                                  *)
LEMMA MapUnion ==
  ASSUME NEW D, NEW e
  PROVE  {<<d.id, d.arm, d.again>> : d \in D \union {e}}
           = {<<d.id, d.arm, d.again>> : d \in D} \union {<<e.id, e.arm, e.again>>}
OBVIOUS

LEMMA SendingStep == TypeOK /\ ArmingInv /\ [Next]_vars => [Sending!Next]_Sending!vars
<1> SUFFICES ASSUME TypeOK, ArmingInv, [Next]_vars PROVE [Sending!Next]_Sending!vars
  OBVIOUS
<1> USE DEF Sending!Next, Sending!vars
<1>1. ASSUME UNCHANGED <<arms, taken, delivered>> PROVE [Sending!Next]_Sending!vars
  BY <1>1
<1>2. ASSUME NEW id \in RowIds, arms' = [arms EXCEPT ![id] = @ + 1], UNCHANGED <<taken, delivered>>
      PROVE  [Sending!Next]_Sending!vars
  <2>1. Sending!Arm(id)
    BY <1>2 DEF Sending!Arm
  <2> QED BY <2>1
<1>3. ASSUME NEW i \in Instances, NEW id \in RowIds, Dispatch(i, id)
      PROVE  [Sending!Next]_Sending!vars
  <2>1. CASE Claim(i, id)
    <3>1. Sending!Take(id)
      BY <2>1 DEF Claim, ArmingInv, Sending!Take
    <3> QED BY <3>1
  <2>2. ASSUME NEW sent \in BOOLEAN, NEW reply \in {"sent", "err"}, Deliver(i, id, sent, reply)
        PROVE  [Sending!Next]_Sending!vars
    <3>0. PICK m : m = <<id, job[i][id].arm>>
      OBVIOUS
    <3> DEFINE new == [id |-> id, arm |-> job[i][id].arm, text |-> job[i][id].text, again |-> FALSE]
               out(D) == {<<d.id, d.arm, d.again>> : d \in D}
    <3>1. UNCHANGED <<arms, taken>>
      BY <2>2 DEF Deliver, dbVars
    <3>2. CASE ~sent
      BY <1>1, <2>2, <3>1, <3>2 DEF Deliver
    <3>3. CASE sent
      <4>0. m = <<id, job[i][id].arm>> /\ job[i][id].pc = "claimed"
        BY <2>2, <3>0 DEF Deliver
      <4>1. ~Was(id, job[i][id].arm)
        BY <4>0 DEF ArmingInv, NoSecondDelivery
      <4>2. delivered' = delivered \union {new}
        <5>1. Was(id, job[i][id].arm) = FALSE
          BY <4>1 DEF Was
        <5> QED BY <2>2, <3>3, <5>1, Zenon DEF Deliver
      <4>3. out(delivered') = out(delivered) \union {<<m[1], m[2], FALSE>>}
        <5>1. <<m[1], m[2], FALSE>> = <<new.id, new.arm, new.again>>
          BY <3>0
        <5> HIDE DEF new
        <5> QED BY <4>2, <5>1, MapUnion
      <4>4. m \in taken /\ <<m[1], m[2], FALSE>> \notin out(delivered)
        BY <4>0, <4>1 DEF ArmingInv, Was
      <4>5. Sending!Send(m)
        BY <3>1, <4>3, <4>4 DEF Sending!Send
      <4> QED BY <4>4, <4>5
    <3> QED BY <3>2, <3>3
  <2>3. CASE RecordFailure(i, id) \/ RecordSent(i, id)
    BY <1>1, <2>3 DEF RecordFailure, RecordSent, Record, history
  <2>4. CASE Rollover(i, id)
    BY <1>1, <1>2, <2>4 DEF Rollover, Record, history
  <2>5. CASE Miss(i, id) \/ ReadDaily(i, id) \/ GiveUp(i, id) \/ ClaimLost(i, id)
    BY <1>1, <2>5 DEF Miss, ReadDaily, GiveUp, ClaimLost, dbVars, history
  <2> QED BY <1>3, <2>1, <2>2, <2>3, <2>4, <2>5 DEF Dispatch
<1>4. ASSUME NEW i \in Instances, NEW h \in Handlers, Handle(i, h)
      PROVE  [Sending!Next]_Sending!vars
  <2>1. ASSUME NEW g, NEW id \in RowIds, Save(i, h, g, id) PROVE [Sending!Next]_Sending!vars
    BY <1>2, <2>1 DEF Save
  <2>2. ASSUME NEW r, Post(i, h, r) PROVE [Sending!Next]_Sending!vars
    BY <1>1, <2>2 DEF Post, history
  <2>3. ASSUME NEW g, ComposeFails(i, h, g) \/ SaveRefused(i, h, g) PROVE [Sending!Next]_Sending!vars
    BY <1>1, <2>3 DEF ComposeFails, SaveRefused, dbVars, history
  <2>4. CASE Finish(i, h) \/ Disconnect(i, h)
    BY <1>1, <2>4 DEF Finish, Disconnect, dbVars, history
  <2> QED BY <1>4, <2>1, <2>2, <2>3, <2>4 DEF Handle
<1>5. ASSUME NEW i \in Instances, Plan(i) \/ Stop(i) \/ Restart(i) PROVE [Sending!Next]_Sending!vars
  BY <1>1, <1>5 DEF Plan, Stop, Restart, dbVars, history
<1>6. ASSUME NEW i \in Instances, NEW s, Arm(i, s) PROVE [Sending!Next]_Sending!vars
  BY <1>1, <1>6 DEF Arm, dbVars, history
<1>7. ASSUME NEW id \in RowIds, Cancel(id) \/ Delete(id) PROVE [Sending!Next]_Sending!vars
  BY <1>1, <1>7 DEF Cancel, Delete, history
<1>8. CASE Tick \/ UNCHANGED vars
  BY <1>1, <1>8 DEF Tick, vars, dbVars, history
<1> QED BY <1>3, <1>4, <1>5, <1>6, <1>7, <1>8 DEF Next

(* Every behaviour of the scheduler is one of the at-most-once outbox.     *)
THEOREM ImplementsOutbox == Spec => AtMostOnce
<1>1. Init => Sending!Init
  BY DEF Init, Sending!Init
<1> QED BY <1>1, SendingStep, ArmingInvariant, PTL DEF Spec, AtMostOnce, Sending!Spec
(* What the outbox is for: no delivery that showed the user something is   *)
(* one more of an arming delivered before, and each belongs to a save or   *)
(* rollover of a row.                                                      *)
Once == \A d \in delivered : d.again = FALSE /\ d.arm <= arms[d.id]

(* For each save or rollover of a reminder mcp-proxy shows something for   *)
(* at most one request of dispatchOne (it may be a photo and a text), and  *)
(* nothing for one that did not come about.                                *)
THEOREM ArmingsAreDeliveredOnce == Spec => []Once
<1> DEFINE Out == {<<d.id, d.arm, d.again>> : d \in delivered}
           New == \A m \in Out : m[3] = FALSE
<1>1. Sending!Init => New
  BY DEF Sending!Init
<1>2. New /\ [Sending!Next]_(Sending!vars) => New'
  <2> SUFFICES ASSUME New, [Sending!Next]_(Sending!vars) PROVE New'
    OBVIOUS
  <2>1. Out' = Out \/ \E m \in taken : Out' = Out \union {<<m[1], m[2], FALSE>>}
    <3> HIDE DEF New
    <3> QED BY DEF Sending!Next, Sending!vars, Sending!Arm, Sending!Take, Sending!Send
  <2>2. ASSUME NEW m \in Out' PROVE m[3] = FALSE
    <3>1. PICK old, next : old = Out /\ next = Out'
      OBVIOUS
    <3>2. next = old \/ \E t \in taken : next = old \union {<<t[1], t[2], FALSE>>}
      BY <2>1, <3>1
    <3>3. m \in next /\ \A t \in old : t[3] = FALSE
      BY <2>2, <3>1
    <3>4. \A t : <<t[1], t[2], FALSE>>[3] = FALSE
      OBVIOUS
    <3>5. m \in old \/ \E t \in taken : m = <<t[1], t[2], FALSE>>
      BY <3>2, <3>3
    <3> QED BY <3>3, <3>4, <3>5, Zenon
  <2> QED BY <2>2
<1>3. ArmingInv /\ New => Once
  <2> SUFFICES ASSUME ArmingInv, New, NEW d \in delivered PROVE d.again = FALSE /\ d.arm <= arms[d.id]
    BY DEF Once
  <2>1. PICK m : m = <<d.id, d.arm, d.again>>
    OBVIOUS
  <2>2. m \in Out /\ m[3] = d.again
    BY <2>1
  <2>3. PICK t : t = <<d.id, d.arm>>
    OBVIOUS
  <2>4. t \in taken /\ t[1] = d.id /\ t[2] = d.arm
    BY <2>3 DEF ArmingInv
  <2> QED BY <2>2, <2>4 DEF ArmingInv
<1> HIDE DEF New
<1> QED BY <1>1, <1>2, <1>3, ImplementsOutbox, ArmingInvariant, PTL DEF AtMostOnce, Sending!Spec
-----------------------------------------------------------------------------
(* One row per note, one reminder of an angel per time *)

(* Rows that stay keep what makes them unique. *)
LEMMA RowsKept ==
  ASSUME UniqueRows,
         \A id \in RowIds : Exists(id)' => /\ Exists(id)
                                           /\ rows'[id].user = rows[id].user /\ rows'[id].item = rows[id].item
                                           /\ rows'[id].angel = rows[id].angel /\ rows'[id].at = rows[id].at
  PROVE  UniqueRows'
BY DEF UniqueRows

(* One row is written: no other of its user may have its item, or its      *)
(* angel and time.                                                         *)
LEMMA RowWritten ==
  ASSUME UniqueRows, NEW id \in RowIds,
         \A k \in RowIds \ {id} : rows'[k] = rows[k],
         \A k \in RowIds \ {id} :
           Exists(k) /\ rows[k].user = rows'[id].user =>
             /\ rows[k].item # rows'[id].item
             /\ <<rows[k].angel, rows[k].at>> # <<rows'[id].angel, rows'[id].at>>
  PROVE  UniqueRows'
BY DEF UniqueRows, Exists

LEMMA CutsUnique == UniqueRows /\ Cuts => UniqueRows'
<1> SUFFICES ASSUME UniqueRows, Cuts PROVE UniqueRows'
  OBVIOUS
<1>1. \A id \in RowIds : Exists(id)' => Exists(id)
  BY DEF Cuts, Exists
<1> QED BY <1>1, RowsKept DEF Cuts

LEMMA DispatchUnique ==
  ASSUME TypeOK, UniqueRows, NEW i \in Instances, NEW id \in RowIds, Dispatch(i, id)
  PROVE  UniqueRows'
<1>0. rows[id] \in Row /\ now \in Nat /\ \A k \in RowIds : rows[k] \in Row
  BY DEF TypeOK
<1>1. CASE UNCHANGED rows
  BY <1>1, RowsKept DEF Exists
<1>2. CASE Claim(i, id)
  BY <1>0, <1>2, RowsKept DEF Claim, TypeOK, Row, Exists
<1>3. ASSUME NEW pc, NEW new \in Row, Record(i, id, pc, new),
             new.user = rows[id].user, new.item = rows[id].item,
             new.angel = rows[id].angel, new.at = rows[id].at
      PROVE  UniqueRows'
  BY <1>3, RecordStep, RowsKept DEF Exists
<1>4. CASE RecordFailure(i, id)
  <2>1. PICK new : new = [rows[id] EXCEPT !.status = "failed"]
    OBVIOUS
  <2>2. /\ new \in Row /\ new.user = rows[id].user /\ new.item = rows[id].item
        /\ new.angel = rows[id].angel /\ new.at = rows[id].at
    BY <1>0, <2>1 DEF Row, Statuses
  <2> QED BY <1>3, <1>4, <2>1, <2>2 DEF RecordFailure
<1>5. CASE RecordSent(i, id)
  <2>1. PICK new : new = [rows[id] EXCEPT !.status = "sent", !.sentAt = now]
    OBVIOUS
  <2>2. /\ new \in Row /\ new.user = rows[id].user /\ new.item = rows[id].item
        /\ new.angel = rows[id].angel /\ new.at = rows[id].at
    BY <1>0, <2>1 DEF Row, Statuses
  <2> QED BY <1>3, <1>5, <2>1, <2>2 DEF RecordSent
<1>6. CASE Rollover(i, id)
  <2>1. PICK at \in Nat : at = rows[id].at + Day
    BY <1>0, NumbersAssumption DEF Row
  <2>2. PICK new : new = [rows[id] EXCEPT !.status = "pending", !.at = at, !.sentAt = now]
    OBVIOUS
  <2>3. /\ new \in Row /\ new.user = rows[id].user /\ new.item = rows[id].item
        /\ new.angel = rows[id].angel /\ new.at = at
    BY <1>0, <2>1, <2>2 DEF Row, Statuses
  <2>4. Record(i, id, "daily", new)
    BY <1>6, <2>1, <2>2 DEF Rollover
  <2>5. CASE Exists(id)
    <3>1. DedupFree(id, rows[id].user, rows[id].angel, at)
      BY <1>6, <2>1, <2>5 DEF Rollover
    <3>2. rows'[id] = new /\ \A k \in RowIds \ {id} : rows'[k] = rows[k]
      BY <2>3, <2>4, <2>5, RecordStep
    <3>3. \A k \in RowIds \ {id} : Exists(k) /\ rows[k].user = rows[id].user => rows[k].item # rows[id].item
      BY <2>5 DEF UniqueRows
    <3> QED BY <2>3, <3>1, <3>2, <3>3, RowWritten DEF DedupFree
  <2>6. CASE ~Exists(id)
    BY <2>3, <2>4, <2>6, RecordStep, RowsKept DEF Exists
  <2> QED BY <2>5, <2>6
<1>7. CASE ClaimLost(i, id)
  BY <1>7, ClaimLostCuts, CutsUnique
<1> QED BY <1>1, <1>2, <1>4, <1>5, <1>6, <1>7 DEF Dispatch, Miss, Deliver, ReadDaily, GiveUp, dbVars

LEMMA SaveUnique ==
  ASSUME TypeOK, UniqueRows, NEW i \in Instances, NEW h \in Handlers,
         NEW g \in call[i][h].todo, NEW id \in RowIds, Save(i, h, g, id)
  PROVE  UniqueRows'
<1>1. PICK user, item, angel, at :
        user = call[i][h].user /\ item = g.item /\ angel = g.angel /\ at = NextAt(g.slot, call[i][h].from)
  OBVIOUS
<1>2. id \in Target(user, item) /\ DedupFree(id, user, angel, at)
  BY <1>1 DEF Save
<1>3. rows'[id] = [user |-> user, item |-> item, angel |-> angel, at |-> at, daily |-> g.daily,
                   text |-> arms[id] + 1, sentAt |-> 0, status |-> "pending"]
  BY <1>1 DEF Save, TypeOK
<1>4. rows'[id].user = user /\ rows'[id].item = item /\ rows'[id].angel = angel /\ rows'[id].at = at
  BY <1>3
<1>5. \A k \in RowIds \ {id} : rows'[k] = rows[k]
  BY DEF Save, TypeOK
<1>6. \A k \in RowIds \ {id} : Exists(k) /\ rows[k].user = user => rows[k].item # item
  BY <1>2 DEF Target, UniqueRows
<1> QED BY <1>2, <1>4, <1>5, <1>6, RowWritten DEF DedupFree

LEMMA UniqueStep == TypeOK /\ UniqueRows /\ [Next]_vars => UniqueRows'
<1> SUFFICES ASSUME TypeOK, UniqueRows, [Next]_vars PROVE UniqueRows'
  OBVIOUS
<1>1. CASE UNCHANGED rows
  BY <1>1, RowsKept DEF Exists
<1>2. ASSUME \A id \in RowIds : rows'[id] = Blank \/ rows'[id] = rows[id]
      PROVE  UniqueRows'
  <2>1. Blank.status = "absent"
    BY DEF Blank
  <2> QED BY <1>2, <2>1, RowsKept DEF Exists
<1>3. ASSUME NEW i \in Instances, NEW h \in Handlers, Handle(i, h)
      PROVE  UniqueRows'
  <2>1. ASSUME NEW r \in Requests, Post(i, h, r) PROVE UniqueRows'
    BY <1>1, <1>2, <2>1 DEF Post, TypeOK
  <2>2. CASE Finish(i, h)
    BY <1>1, <1>2, <2>2 DEF Finish, TypeOK
  <2>3. ASSUME NEW g \in call[i][h].todo, ComposeFails(i, h, g) \/ SaveRefused(i, h, g)
        PROVE  UniqueRows'
    BY <1>1, <2>3 DEF ComposeFails, SaveRefused, dbVars
  <2>4. CASE Disconnect(i, h)
    BY <1>1, <2>4 DEF Disconnect, dbVars
  <2> QED BY <1>3, <2>1, <2>2, <2>3, <2>4, SaveUnique DEF Handle
<1>4. ASSUME NEW i \in Instances, Plan(i) PROVE UniqueRows'
  BY <1>2, <1>4 DEF Plan, TypeOK
<1>5. ASSUME NEW i \in Instances, Stop(i) \/ Restart(i) \/ \E s \in scan[i] : Arm(i, s) PROVE UniqueRows'
  <2>1. CASE Stop(i)
    BY <2>1, StopCuts, CutsUnique
  <2>2. CASE Restart(i) \/ \E s \in scan[i] : Arm(i, s)
    BY <1>1, <2>2 DEF Restart, Arm, dbVars
  <2> QED BY <1>5, <2>1, <2>2
<1>6. ASSUME NEW id \in RowIds, Cancel(id) PROVE UniqueRows'
  <2>1. rows[id] \in Row /\ Exists(id)
    BY <1>6 DEF Cancel, TypeOK, Exists
  <2>2. PICK row : row = [rows[id] EXCEPT !.status = "cancelled"]
    OBVIOUS
  <2>3. /\ row.user = rows[id].user /\ row.item = rows[id].item
        /\ row.angel = rows[id].angel /\ row.at = rows[id].at
    BY <2>1, <2>2 DEF Row
  <2>4. rows'[id] = row /\ \A k \in RowIds \ {id} : rows'[k] = rows[k]
    BY <1>6, <2>2 DEF Cancel, TypeOK
  <2> QED BY <2>1, <2>3, <2>4, RowsKept DEF Exists
<1>7. ASSUME NEW id \in RowIds, Delete(id) PROVE UniqueRows'
  BY <1>2, <1>7 DEF Delete, TypeOK
<1>8. CASE Tick \/ UNCHANGED vars
  BY <1>1, <1>8 DEF Tick, vars, dbVars
<1> QED BY <1>3, <1>4, <1>5, <1>6, <1>7, <1>8, DispatchUnique DEF Next

(* A note item has one row per user and an angel one reminder at a time,   *)
(* for any saves, rollovers and deletions of any number of processes: the  *)
(* upsert of ProcessFromNote and the dedup index.                          *)
THEOREM RowsAreUnique == Spec => []UniqueRows
<1>1. Init => TypeOK /\ UniqueRows
  <2>1. Init => TypeOK
    BY BlankType, NoJobType, NoCallType DEF Init, TypeOK
  <2>2. Init => UniqueRows
    BY DEF Init, UniqueRows, Exists, Blank
  <2> QED BY <2>1, <2>2
<1> QED BY <1>1, TypeStep, UniqueStep, PTL DEF Spec
-----------------------------------------------------------------------------
(* What is being sent is somebody's *)

Held(id) == \E i \in Instances : job[i][id].pc \in InFlight

(* Rows that come into sending, or lose their goroutine, are accounted for. *)
LEMMA OwnedKept ==
  ASSUME SendingIsOwned,
         \A id \in RowIds \ stranded' : rows'[id].status = "sending" /\ ~Held(id)' =>
           rows[id].status = "sending" /\ ~Held(id) /\ id \notin stranded
  PROVE  SendingIsOwned'
BY DEF SendingIsOwned, Held

LEMMA DispatchOwned ==
  ASSUME TypeOK, SendingIsOwned, NEW i \in Instances, NEW id \in RowIds, Dispatch(i, id)
  PROVE  SendingIsOwned'
<1>0. rows[id] \in Row /\ now \in Nat /\ job[i][id] \in Job
  BY DEF TypeOK
<1>1. \A k \in RowIds \ {id} : rows'[k] = rows[k]
  BY DEF Dispatch, Claim, ClaimLost, Miss, Deliver, ReadDaily, RecordFailure, RecordSent, Rollover, Record,
         GiveUp, dbVars, TypeOK
<1>2. ASSUME NEW j, SetJob(i, id, j)
      PROVE  /\ \A k \in RowIds \ {id} : Held(k)' <=> Held(k)
             /\ job'[i][id] = j /\ \A o \in Instances \ {i} : job'[o][id] = job[o][id]
  BY <1>2 DEF SetJob, Held, TypeOK
<1>3. ASSUME stranded' = stranded, NEW j, SetJob(i, id, j),
             rows'[id].status = "sending" /\ j.pc \notin InFlight =>
               rows[id].status = "sending" /\ job[i][id].pc \notin InFlight
      PROVE  SendingIsOwned'
  BY <1>1, <1>2, <1>3, OwnedKept DEF Held
<1>4. ASSUME NEW arm \in Nat, NEW pc \in InFlight, stranded' = stranded,
             SetJob(i, id, [job[i][id] EXCEPT !.pc = pc, !.arm = arm])
      PROVE  SendingIsOwned'
  <2>1. PICK j : j = [job[i][id] EXCEPT !.pc = pc, !.arm = arm]
    OBVIOUS
  <2>2. j.pc = pc
    BY <1>0, <2>1 DEF Job
  <2> QED BY <1>3, <1>4, <2>1, <2>2
<1>5. ASSUME NEW pc \in InFlight, stranded' = stranded, SetJob(i, id, [job[i][id] EXCEPT !.pc = pc])
      PROVE  SendingIsOwned'
  <2>1. PICK j : j = [job[i][id] EXCEPT !.pc = pc]
    OBVIOUS
  <2>2. j.pc = pc
    BY <1>0, <2>1 DEF Job
  <2> QED BY <1>3, <1>5, <2>1, <2>2
<1>6. CASE Claim(i, id)
  BY <1>4, <1>6 DEF Claim, InFlight, TypeOK
<1>7. CASE Miss(i, id)
  BY <1>0, <1>3, <1>7 DEF Miss, Fired, InFlight, history, dbVars
<1>8. ASSUME NEW sent \in BOOLEAN, NEW reply \in {"sent", "err"}, Deliver(i, id, sent, reply)
      PROVE  SendingIsOwned'
  BY <1>5, <1>8 DEF Deliver, InFlight
<1>9. CASE ReadDaily(i, id)
  <2>1. \E d : SetJob(i, id, [job[i][id] EXCEPT !.pc = IF d THEN "daily" ELSE "once"])
    BY <1>9 DEF ReadDaily
  <2> QED BY <1>5, <1>9, <2>1 DEF ReadDaily, InFlight, history
<1>10. ASSUME NEW pc, NEW new, Record(i, id, pc, new), new.status # "sending"
       PROVE  SendingIsOwned'
  <2>1. rows'[id].status # "sending"
    BY <1>10 DEF Record, Exists, TypeOK
  <2> QED BY <1>3, <1>10, <2>1 DEF Record, history
<1>11. CASE RecordFailure(i, id)
  <2>1. PICK new : new = [rows[id] EXCEPT !.status = "failed"]
    OBVIOUS
  <2>2. new.status # "sending"
    BY <1>0, <2>1 DEF Row
  <2> QED BY <1>10, <1>11, <2>1, <2>2 DEF RecordFailure
<1>12. CASE RecordSent(i, id)
  <2>1. PICK new : new = [rows[id] EXCEPT !.status = "sent", !.sentAt = now]
    OBVIOUS
  <2>2. new.status # "sending"
    BY <1>0, <2>1 DEF Row
  <2> QED BY <1>10, <1>12, <2>1, <2>2 DEF RecordSent
<1>13. CASE Rollover(i, id)
  <2>1. PICK new : new = [rows[id] EXCEPT !.status = "pending", !.at = @ + Day, !.sentAt = now]
    OBVIOUS
  <2>2. new.status # "sending"
    BY <1>0, <2>1 DEF Row
  <2> QED BY <1>10, <1>13, <2>1, <2>2 DEF Rollover
<1>14. CASE GiveUp(i, id)
  <2>1. stranded' = stranded \union {id} /\ SetJob(i, id, NoJob) /\ rows' = rows
    BY <1>14 DEF GiveUp, dbVars
  <2> QED BY <1>2, <2>1, OwnedKept
<1>15. CASE ClaimLost(i, id)
  <2>1. stranded' = stranded \union {id} /\ SetJob(i, id, NoJob)
    BY <1>15 DEF ClaimLost
  <2> QED BY <1>1, <1>2, <2>1, OwnedKept
<1> QED BY <1>6, <1>7, <1>8, <1>9, <1>11, <1>12, <1>13, <1>14, <1>15 DEF Dispatch

LEMMA OwnedStep == TypeOK /\ SendingIsOwned /\ [Next]_vars => SendingIsOwned'
<1> SUFFICES ASSUME TypeOK, SendingIsOwned, [Next]_vars PROVE SendingIsOwned'
  OBVIOUS
<1>1. ASSUME UNCHANGED <<job, stranded>>,
             \A id \in RowIds : rows'[id].status = "sending" => rows[id].status = "sending"
      PROVE  SendingIsOwned'
  BY <1>1, OwnedKept DEF Held
<1>2. ASSUME NEW i \in Instances, NEW h \in Handlers, Handle(i, h)
      PROVE  SendingIsOwned'
  <2>1. ASSUME NEW r \in Requests, Post(i, h, r) PROVE SendingIsOwned'
    BY <1>1, <2>1 DEF Post, Blank, TypeOK, history
  <2>2. ASSUME NEW g \in call[i][h].todo, ComposeFails(i, h, g) \/ SaveRefused(i, h, g)
        PROVE  SendingIsOwned'
    BY <1>1, <2>2 DEF ComposeFails, SaveRefused, dbVars, history
  <2>3. ASSUME NEW g \in call[i][h].todo, NEW id \in RowIds, Save(i, h, g, id)
        PROVE  SendingIsOwned'
    <3>1. rows'[id].status = "pending" /\ \A k \in RowIds \ {id} : rows'[k] = rows[k]
      BY <2>3 DEF Save, TypeOK
    <3>2. job' = job /\ stranded' = stranded \ {id}
      BY <2>3 DEF Save
    <3> QED BY <3>1, <3>2, OwnedKept DEF Held
  <2>4. CASE Finish(i, h)
    BY <1>1, <2>4 DEF Finish, Blank, TypeOK, history
  <2>5. CASE Disconnect(i, h)
    BY <1>1, <2>5 DEF Disconnect, dbVars, history
  <2> QED BY <1>2, <2>1, <2>2, <2>3, <2>4, <2>5 DEF Handle
<1>3. ASSUME NEW i \in Instances, Plan(i) PROVE SendingIsOwned'
  BY <1>1, <1>3 DEF Plan, Blank, TypeOK, history
<1>4. ASSUME NEW i \in Instances, NEW s \in scan[i], Arm(i, s) PROVE SendingIsOwned'
  <2>1. \A k \in Instances, id \in RowIds : job[k][id].pc \in InFlight => job'[k][id] = job[k][id]
    <3>1. job' = job \/ (job[i][s.id].pc = "idle" /\ \E j : SetJob(i, s.id, j))
      BY <1>4 DEF Arm
    <3>2. ASSUME NEW j, SetJob(i, s.id, j), job[i][s.id].pc = "idle",
                 NEW k \in Instances, NEW id \in RowIds, job[k][id].pc \in InFlight
          PROVE  job'[k][id] = job[k][id]
      <4>1. <<k, id>> # <<i, s.id>>
        BY <3>2 DEF InFlight
      <4> QED BY <3>2, <4>1 DEF SetJob, TypeOK
    <3> QED BY <3>1, <3>2
  <2> QED BY <1>4, <2>1, OwnedKept DEF Arm, Held, dbVars, history
<1>5. ASSUME NEW i \in Instances, Stop(i) PROVE SendingIsOwned'
  <2>1. \A k \in Instances, id \in RowIds : job[k][id].pc \in InFlight => job'[k][id] = job[k][id]
    BY <1>5, StopJobs DEF InFlight
  <2>2. \A id \in RowIds \ stranded' : rows'[id].status = "sending" => rows[id].status = "sending"
    BY <1>5, StopCuts DEF Cuts
  <2>3. stranded \subseteq stranded'
    BY <1>5, StopCuts DEF Cuts
  <2> QED BY <2>1, <2>2, <2>3, OwnedKept DEF Held
<1>6. ASSUME NEW i \in Instances, Restart(i) PROVE SendingIsOwned'
  <2>1. \A k \in Instances, id \in RowIds :
          job[k][id].pc \in InFlight /\ id \notin stranded' => job'[k][id] = job[k][id]
    BY <1>6 DEF Restart, TypeOK
  <2> QED BY <1>6, <2>1, OwnedKept DEF Restart, Held, dbVars
<1>7. ASSUME NEW id \in RowIds, Cancel(id) PROVE SendingIsOwned'
  BY <1>1, <1>7 DEF Cancel, TypeOK, Row, history
<1>8. ASSUME NEW id \in RowIds, Delete(id) PROVE SendingIsOwned'
  BY <1>1, <1>8 DEF Delete, Blank, TypeOK, history
<1>9. CASE Tick \/ UNCHANGED vars
  BY <1>1, <1>9 DEF Tick, vars, dbVars, history
<1> QED BY <1>2, <1>3, <1>4, <1>5, <1>6, <1>7, <1>8, <1>9, DispatchOwned DEF Next

(* A row in sending is some goroutine's of dispatchOne to finish, unless   *)
(* its claimant died, did not learn that its claim was committed, or could *)
(* not record the result: nothing else strands a row.                      *)
THEOREM SendingHasOwner == Spec => []SendingIsOwned
<1>1. Init => TypeOK /\ SendingIsOwned
  <2>1. Init => TypeOK
    BY BlankType, NoJobType, NoCallType DEF Init, TypeOK
  <2>2. Init => SendingIsOwned
    BY DEF Init, SendingIsOwned, Blank
  <2> QED BY <2>1, <2>2
<1> QED BY <1>1, TypeStep, OwnedStep, PTL DEF Spec
-----------------------------------------------------------------------------
(* What is cancelled stays cancelled *)

(* No row holds a text newer than its last arming. *)
TextInv == \A id \in RowIds : rows[id].text <= arms[id]

LEMMA TextKept ==
  ASSUME TypeOK, TextInv,
         \A id \in RowIds : arms'[id] >= arms[id] /\ arms'[id] \in Nat
                            /\ (rows'[id].text = rows[id].text \/ rows'[id].text <= arms'[id])
  PROVE  TextInv'
BY DEF TextInv, TypeOK, Row

LEMMA TextStep == TypeOK /\ TextInv /\ [Next]_vars => TextInv'
<1> SUFFICES ASSUME TypeOK, TextInv, [Next]_vars PROVE TextInv'
  OBVIOUS
<1>0. Blank.text = 0 /\ \A id \in RowIds : arms[id] \in Nat /\ rows[id] \in Row
  BY DEF Blank, TypeOK
<1>1. ASSUME UNCHANGED arms, \A id \in RowIds : rows'[id] = Blank \/ rows'[id].text = rows[id].text
      PROVE  TextInv'
  BY <1>0, <1>1, TextKept
<1>2. ASSUME NEW i \in Instances, NEW id \in RowIds, Dispatch(i, id) PROVE TextInv'
  <2>1. \A k \in RowIds \ {id} : rows'[k] = rows[k]
    BY <1>2 DEF Dispatch, Claim, ClaimLost, Miss, Deliver, ReadDaily, RecordFailure, RecordSent, Rollover, Record,
                GiveUp, dbVars, TypeOK
  <2>2. ASSUME NEW new, rows' = rows \/ rows' = [rows EXCEPT ![id] = new], new.text = rows[id].text
        PROVE  rows'[id].text = rows[id].text
    BY <2>2 DEF TypeOK
  <2>3. rows'[id].text = rows[id].text
    <3>1. PICK sending, failed, sent, again :
            /\ sending = [rows[id] EXCEPT !.status = "sending"]
            /\ failed = [rows[id] EXCEPT !.status = "failed"]
            /\ sent = [rows[id] EXCEPT !.status = "sent", !.sentAt = now]
            /\ again = [rows[id] EXCEPT !.status = "pending", !.at = @ + Day, !.sentAt = now]
      OBVIOUS
    <3>2. \A new \in {sending, failed, sent, again} : new.text = rows[id].text
      BY <1>0, <3>1 DEF Row
    <3>3. rows' = rows \/ \E new \in {sending, failed, sent, again} : rows' = [rows EXCEPT ![id] = new]
      <4>1. Claim(i, id) \/ ClaimLost(i, id) => rows' = [rows EXCEPT ![id] = sending]
        BY <3>1 DEF Claim, ClaimLost
      <4>2. RecordFailure(i, id) => Record(i, id, "err", failed)
        BY <3>1 DEF RecordFailure
      <4>3. RecordSent(i, id) => Record(i, id, "once", sent)
        BY <3>1 DEF RecordSent
      <4>4. Rollover(i, id) => Record(i, id, "daily", again)
        BY <3>1 DEF Rollover
      <4>5. \A pc, new : Record(i, id, pc, new) => rows' = rows \/ rows' = [rows EXCEPT ![id] = new]
        BY DEF Record
      <4> QED BY <1>2, <4>1, <4>2, <4>3, <4>4, <4>5 DEF Dispatch, Miss, Deliver, ReadDaily, GiveUp, dbVars
    <3> QED BY <2>2, <3>2, <3>3
  <2>4. arms' = arms \/ arms' = [arms EXCEPT ![id] = @ + 1]
    BY <1>2 DEF Dispatch, Claim, ClaimLost, Miss, Deliver, ReadDaily, RecordFailure, RecordSent, Rollover, GiveUp, dbVars
  <2>5. \A k \in RowIds : arms'[k] >= arms[k] /\ arms'[k] \in Nat
    BY <1>0, <2>4 DEF TypeOK
  <2>6. \A k \in RowIds : rows'[k].text = rows[k].text
    BY <2>1, <2>3
  <2> QED BY <2>5, <2>6, TextKept
<1>3. ASSUME NEW i \in Instances, NEW h \in Handlers, Handle(i, h) PROVE TextInv'
  <2>1. ASSUME NEW g \in call[i][h].todo, NEW id \in RowIds, Save(i, h, g, id) PROVE TextInv'
    <3>1. arms' = [arms EXCEPT ![id] = @ + 1] /\ rows'[id].text = arms[id] + 1
      BY <2>1 DEF Save, TypeOK
    <3>2. \A k \in RowIds \ {id} : rows'[k] = rows[k]
      BY <2>1 DEF Save, TypeOK
    <3>3. \A k \in RowIds : arms'[k] = IF k = id THEN arms[k] + 1 ELSE arms[k]
      BY <3>1 DEF TypeOK
    <3> QED BY <1>0, <3>1, <3>2, <3>3, TextKept
  <2>2. ASSUME NEW r \in Requests, Post(i, h, r) PROVE TextInv'
    BY <1>1, <2>2 DEF Post, TypeOK
  <2>3. ASSUME NEW g \in call[i][h].todo, ComposeFails(i, h, g) \/ SaveRefused(i, h, g) PROVE TextInv'
    BY <1>1, <2>3 DEF ComposeFails, SaveRefused, dbVars
  <2>4. CASE Finish(i, h) \/ Disconnect(i, h)
    BY <1>1, <2>4 DEF Finish, Disconnect, dbVars, TypeOK
  <2> QED BY <1>3, <2>1, <2>2, <2>3, <2>4 DEF Handle
<1>4. ASSUME NEW i \in Instances, Plan(i) PROVE TextInv'
  BY <1>1, <1>4 DEF Plan, TypeOK
<1>5. ASSUME NEW i \in Instances, Stop(i) \/ Restart(i) \/ \E s \in scan[i] : Arm(i, s) PROVE TextInv'
  <2>1. CASE Stop(i)
    BY <1>1, <2>1, StopCuts DEF Stop, Cuts
  <2>2. CASE Restart(i) \/ \E s \in scan[i] : Arm(i, s)
    BY <1>1, <2>2 DEF Restart, Arm, dbVars
  <2> QED BY <1>5, <2>1, <2>2
<1>6. ASSUME NEW id \in RowIds, Cancel(id) \/ Delete(id) PROVE TextInv'
  <2>1. [rows[id] EXCEPT !.status = "cancelled"].text = rows[id].text
    BY <1>0 DEF Row
  <2> QED BY <1>1, <1>6, <2>1 DEF Cancel, Delete, TypeOK
<1>7. CASE Tick \/ UNCHANGED vars
  BY <1>1, <1>7 DEF Tick, vars, dbVars
<1> QED BY <1>2, <1>3, <1>4, <1>5, <1>6, <1>7 DEF Next

(* A row in nobody's flight: what a step may do to it and its messages. *)
Rests(id) == rows[id].status = "cancelled" /\ \A i \in Instances : job[i][id].pc \notin InFlight
Sticks(id) ==
  /\ rows'[id].status \in {"cancelled", "absent", "pending"}
  /\ rows'[id].status = "pending" => rows'[id].text > rows[id].text
  /\ {d \in delivered' : d.id = id} \subseteq delivered

LEMMA SticksStep ==
  ASSUME TypeOK, TextInv, [Next]_vars, NEW id \in RowIds, Rests(id)
  PROVE  Sticks(id)
<1>0. Blank.status = "absent" /\ arms[id] \in Nat /\ rows[id] \in Row /\ rows[id].text <= arms[id]
  BY DEF Blank, TypeOK, TextInv
<1>1. ASSUME rows'[id] = rows[id] \/ rows'[id] = Blank, UNCHANGED delivered
      PROVE  Sticks(id)
  BY <1>0, <1>1 DEF Sticks, Rests
<1>2. ASSUME NEW i \in Instances, NEW k \in RowIds, Dispatch(i, k) PROVE Sticks(id)
  <2>1. CASE k = id
    <3>1. Miss(i, id) \/ GiveUp(i, id)
      BY <1>2, <2>1 DEF Dispatch, Claim, ClaimLost, Deliver, ReadDaily, RecordFailure, RecordSent, Rollover, Record,
                        Rests, InFlight
    <3> QED BY <1>1, <3>1 DEF Miss, GiveUp, dbVars, history
  <2>2. CASE k # id
    <3>1. rows'[id] = rows[id]
      BY <1>2, <2>2 DEF Dispatch, Claim, ClaimLost, Miss, Deliver, ReadDaily, RecordFailure, RecordSent, Rollover,
                        Record, GiveUp, dbVars, TypeOK
    <3>2. ASSUME NEW sent \in BOOLEAN, NEW reply \in {"sent", "err"}, Deliver(i, k, sent, reply)
          PROVE  Sticks(id)
      <4>1. \A d \in delivered' : d \in delivered \/ d.id = k
        BY <3>2 DEF Deliver
      <4> QED BY <2>2, <3>1, <4>1 DEF Sticks, Rests
    <3>3. delivered' = delivered \/ \E sent \in BOOLEAN, reply \in {"sent", "err"} : Deliver(i, k, sent, reply)
      BY <1>2 DEF Dispatch, Claim, ClaimLost, Miss, ReadDaily, RecordFailure, RecordSent, Rollover, Record, GiveUp,
                  history
    <3> QED BY <1>1, <3>1, <3>2, <3>3
  <2> QED BY <2>1, <2>2
<1>3. ASSUME NEW i \in Instances, NEW h \in Handlers, Handle(i, h) PROVE Sticks(id)
  <2>1. ASSUME NEW g \in call[i][h].todo, NEW k \in RowIds, Save(i, h, g, k) PROVE Sticks(id)
    <3>1. CASE k = id
      <4>1. rows'[id].status = "pending" /\ rows'[id].text = arms[id] + 1 /\ delivered' = delivered
        BY <2>1, <3>1 DEF Save, TypeOK
      <4>2. rows[id].text \in Nat
        BY <1>0 DEF Row
      <4> QED BY <1>0, <4>1, <4>2 DEF Sticks
    <3>2. CASE k # id
      BY <1>1, <2>1, <3>2 DEF Save, TypeOK
    <3> QED BY <3>1, <3>2
  <2>2. ASSUME NEW r \in Requests, Post(i, h, r) PROVE Sticks(id)
    BY <1>1, <2>2 DEF Post, TypeOK, history
  <2>3. ASSUME NEW g \in call[i][h].todo, ComposeFails(i, h, g) \/ SaveRefused(i, h, g) PROVE Sticks(id)
    BY <1>1, <2>3 DEF ComposeFails, SaveRefused, dbVars, history
  <2>4. CASE Finish(i, h) \/ Disconnect(i, h)
    BY <1>1, <2>4 DEF Finish, Disconnect, dbVars, TypeOK, history
  <2> QED BY <1>3, <2>1, <2>2, <2>3, <2>4 DEF Handle
<1>4. ASSUME NEW i \in Instances, Plan(i) PROVE Sticks(id)
  BY <1>1, <1>4 DEF Plan, TypeOK, history
<1>5. ASSUME NEW i \in Instances, Stop(i) \/ Restart(i) \/ \E s \in scan[i] : Arm(i, s) PROVE Sticks(id)
  <2>1. CASE Stop(i)
    <3>1. rows'[id].status = "cancelled" /\ delivered' = delivered
      BY <2>1, StopCuts DEF Stop, Cuts, Rests
    <3> QED BY <3>1 DEF Sticks
  <2>2. CASE Restart(i) \/ \E s \in scan[i] : Arm(i, s)
    BY <1>1, <2>2 DEF Restart, Arm, dbVars, history
  <2> QED BY <1>5, <2>1, <2>2
<1>6. ASSUME NEW k \in RowIds, Cancel(k) \/ Delete(k) PROVE Sticks(id)
  <2>1. Cancel(k) => k # id
    BY DEF Cancel, Rests
  <2> QED BY <1>1, <1>6, <2>1 DEF Cancel, Delete, TypeOK, history
<1>7. CASE Tick \/ UNCHANGED vars
  BY <1>1, <1>7 DEF Tick, vars, dbVars, history
<1> QED BY <1>2, <1>3, <1>4, <1>5, <1>6, <1>7 DEF Next

(* A cancelled row that no goroutine has in flight is not delivered, and   *)
(* only a new ProcessFromNote makes it pending again.                      *)
THEOREM CancelHolds == Spec => CancelSticks
<1>1. Init => TypeOK /\ TextInv
  <2>1. Init => TypeOK
    BY BlankType, NoJobType, NoCallType DEF Init, TypeOK
  <2>2. Init => TextInv
    BY DEF Init, TextInv, Blank
  <2> QED BY <2>1, <2>2
<1>2. ASSUME TypeOK, TextInv, [Next]_vars
      PROVE  [\A id \in RowIds : Rests(id) => Sticks(id)]_vars
  BY <1>2, SticksStep
<1>3. (\A id \in RowIds : Rests(id) => Sticks(id)) <=>
      \A id \in RowIds :
        rows[id].status = "cancelled" /\ (\A i \in Instances : job[i][id].pc \notin InFlight)
        => /\ rows'[id].status \in {"cancelled", "absent", "pending"}
           /\ rows'[id].status = "pending" => rows'[id].text > rows[id].text
           /\ {d \in delivered' : d.id = id} \subseteq delivered
  BY DEF Rests, Sticks
<1> QED BY <1>1, <1>2, <1>3, TypeStep, TextStep, PTL DEF Spec, CancelSticks
-----------------------------------------------------------------------------
(* What is marked sent was delivered *)

Sure == {"sent", "once", "daily"}
Shown(id, text) == \E d \in delivered : d.id = id /\ d.text = text

(* Goroutines hold the text of their row, unless it was saved meanwhile,   *)
(* and one that is past its delivery has delivered it.                     *)
SameText == \A id \in RowIds \ raced : Exists(id) => \A i \in Instances :
              /\ job[i][id].pc # "idle" => job[i][id].text = rows[id].text
              /\ \A s \in scan[i] : s.id = id => s.text = rows[id].text
SureShown == \A i \in Instances, id \in RowIds : job[i][id].pc \in Sure => Shown(id, job[i][id].text)
SentInv == SameText /\ SureShown /\ SentWasDelivered

(* Every step but a save lets rows, jobs and scans go on like this.        *)
RowOn(id) == Exists(id)' => /\ Exists(id) /\ rows'[id].text = rows[id].text
                            /\ rows'[id].status = "sent" =>
                                 rows[id].status = "sent" \/ \E i \in Instances : job[i][id].pc = "once"
JobOn(i, id) ==
  \/ job'[i][id].pc = "idle"
  \/ job'[i][id].pc = "armed" /\ \E s \in scan[i] : s.id = id /\ s.text = job'[i][id].text
  \/ /\ job[i][id].pc # "idle" /\ job'[i][id].text = job[i][id].text
     /\ job'[i][id].pc \in Sure => job[i][id].pc \in Sure \/ Shown(id, job[i][id].text)'
ScanOn(i) == \A s \in scan'[i] : s \in scan[i] \/ s.text = rows[s.id].text

LEMMA GoesOn ==
  ASSUME SentInv, raced' = raced, delivered \subseteq delivered',
         \A id \in RowIds : RowOn(id), \A i \in Instances, id \in RowIds : JobOn(i, id),
         \A i \in Instances : ScanOn(i)
  PROVE  SentInv'
<1>1. SameText'
  <2> SUFFICES ASSUME NEW id \in RowIds \ raced, Exists(id)', NEW i \in Instances
               PROVE  /\ job'[i][id].pc # "idle" => job'[i][id].text = rows'[id].text
                      /\ \A s \in scan'[i] : s.id = id => s.text = rows'[id].text
    BY DEF SameText
  <2>1. Exists(id) /\ rows'[id].text = rows[id].text
    BY DEF RowOn
  <2>2. /\ job[i][id].pc # "idle" => job[i][id].text = rows[id].text
        /\ \A s \in scan[i] : s.id = id => s.text = rows[id].text
    BY <2>1 DEF SentInv, SameText
  <2>3. job'[i][id].pc # "idle" => job'[i][id].text = rows'[id].text
    BY <2>1, <2>2 DEF JobOn
  <2>4. \A s \in scan'[i] : s.id = id => s.text = rows'[id].text
    BY <2>1, <2>2 DEF ScanOn
  <2> QED BY <2>3, <2>4
<1>2. SureShown'
  <2> SUFFICES ASSUME NEW i \in Instances, NEW id \in RowIds, job'[i][id].pc \in Sure
               PROVE  Shown(id, job[i][id].text)'
    BY DEF SureShown
  <2>1. /\ job'[i][id].text = job[i][id].text
        /\ job[i][id].pc \in Sure \/ Shown(id, job[i][id].text)'
    <3>1. JobOn(i, id)
      OBVIOUS
    <3> QED BY <3>1 DEF JobOn, Sure
  <2> QED BY <2>1 DEF SentInv, SureShown, Shown
<1>3. SentWasDelivered'
  <2> SUFFICES ASSUME NEW id \in RowIds \ raced, rows'[id].status = "sent"
               PROVE  \E d \in delivered : d.id = id /\ d.text = rows'[id].text
    BY DEF SentWasDelivered
  <2>1. Exists(id) /\ rows'[id].text = rows[id].text
    BY DEF RowOn, Exists
  <2>2. CASE rows[id].status = "sent"
    BY <2>1, <2>2 DEF SentInv, SentWasDelivered
  <2>3. ASSUME NEW i \in Instances, job[i][id].pc = "once"
        PROVE  \E d \in delivered : d.id = id /\ d.text = rows'[id].text
    BY <2>1, <2>3 DEF SentInv, SameText, SureShown, Shown, Sure
  <2> QED BY <2>2, <2>3 DEF RowOn, Exists
<1> QED BY <1>1, <1>2, <1>3 DEF SentInv

LEMMA SaveSent ==
  ASSUME TypeOK, SentInv, NEW i \in Instances, NEW h \in Handlers, NEW g \in call[i][h].todo,
         NEW id \in RowIds, Save(i, h, g, id)
  PROVE  SentInv'
<1>1. /\ rows'[id].status = "pending" /\ \A k \in RowIds \ {id} : rows'[k] = rows[k]
      /\ UNCHANGED <<scan, job, delivered>>
  BY DEF Save, TypeOK
<1>2. raced' = IF Live(id) THEN raced \union {id} ELSE raced \ {id}
  BY DEF Save
<1>3. ASSUME NEW k \in RowIds \ raced', k # id
      PROVE  k \in RowIds \ raced
  BY <1>2, <1>3
<1>4. id \notin raced' => \A o \in Instances : job[o][id].pc = "idle" /\ \A s \in scan[o] : s.id # id
  BY <1>2 DEF Live
<1>5. SameText'
  BY <1>1, <1>3, <1>4 DEF SentInv, SameText, Exists
<1>6. SureShown'
  BY <1>1 DEF SentInv, SureShown, Shown
<1>7. SentWasDelivered'
  BY <1>1, <1>3 DEF SentInv, SentWasDelivered
<1> QED BY <1>5, <1>6, <1>7 DEF SentInv

LEMMA CutsOn ==
  ASSUME Cuts, NEW id \in RowIds
  PROVE  RowOn(id)
BY DEF Cuts, RowOn, Exists

LEMMA DispatchSent ==
  ASSUME TypeOK, SentInv, NEW i \in Instances, NEW id \in RowIds, Dispatch(i, id)
  PROVE  SentInv'
<1>0. rows[id] \in Row /\ now \in Nat /\ job[i][id] \in Job
  BY DEF TypeOK
<1>1. /\ \A k \in RowIds \ {id} : rows'[k] = rows[k]
      /\ \A o \in Instances, k \in RowIds : <<o, k>> # <<i, id>> => job'[o][k] = job[o][k]
      /\ scan' = scan /\ raced' = raced /\ delivered \subseteq delivered'
  <2>1. \E j : SetJob(i, id, j)
    BY DEF Dispatch, Claim, ClaimLost, Miss, Deliver, ReadDaily, RecordFailure, RecordSent, Rollover, Record, GiveUp
  <2>2. \A o \in Instances, k \in RowIds : <<o, k>> # <<i, id>> => job'[o][k] = job[o][k]
    BY <2>1 DEF SetJob, TypeOK
  <2>3. \A k \in RowIds \ {id} : rows'[k] = rows[k]
    BY DEF Dispatch, Claim, ClaimLost, Miss, Deliver, ReadDaily, RecordFailure, RecordSent, Rollover, Record,
           GiveUp, dbVars, TypeOK
  <2>4. scan' = scan /\ raced' = raced
    BY DEF Dispatch, Claim, ClaimLost, Miss, Deliver, ReadDaily, RecordFailure, RecordSent, Rollover, Record,
           GiveUp, history
  <2>5. delivered \subseteq delivered'
    BY DEF Dispatch, Claim, ClaimLost, Miss, Deliver, ReadDaily, RecordFailure, RecordSent, Rollover, Record,
           GiveUp, history
  <2> QED BY <2>2, <2>3, <2>4, <2>5
<1>2. \A k \in RowIds \ {id} : RowOn(k)
  BY <1>1 DEF RowOn, Exists
<1>3. \A o \in Instances, k \in RowIds : <<o, k>> # <<i, id>> => JobOn(o, k)
  BY <1>1 DEF JobOn, Sure
<1>4. \A o \in Instances : ScanOn(o)
  BY <1>1 DEF ScanOn
<1>5. ASSUME RowOn(id), JobOn(i, id)
      PROVE  SentInv'
  BY <1>1, <1>2, <1>3, <1>4, <1>5, GoesOn
<1>6. UNCHANGED rows => RowOn(id)
  BY DEF RowOn, Exists
<1>7. SetJob(i, id, NoJob) => JobOn(i, id)
  BY DEF SetJob, NoJob, JobOn, TypeOK
<1>8. CASE Claim(i, id)
  <2>1. PICK row, j : /\ row = [rows[id] EXCEPT !.status = "sending"]
                      /\ j = [job[i][id] EXCEPT !.pc = "claimed", !.arm = arms[id]]
    OBVIOUS
  <2>2. rows'[id] = row /\ job'[i][id] = j /\ Exists(id) /\ job[i][id].pc # "idle"
    BY <1>8, <2>1 DEF Claim, Fired, SetJob, TypeOK, Exists
  <2>3. row.text = rows[id].text /\ row.status = "sending" /\ j.text = job[i][id].text /\ j.pc = "claimed"
    BY <1>0, <2>1 DEF Row, Job
  <2>4. RowOn(id) /\ JobOn(i, id)
    BY <2>2, <2>3 DEF RowOn, JobOn, Sure
  <2> QED BY <1>5, <2>4
<1>9. ASSUME NEW sent \in BOOLEAN, NEW reply \in {"sent", "err"}, Deliver(i, id, sent, reply)
      PROVE  SentInv'
  <2>1. PICK j : j = [job[i][id] EXCEPT !.pc = reply]
    OBVIOUS
  <2>2. job'[i][id] = j /\ job[i][id].pc = "claimed" /\ rows' = rows
    BY <1>9, <2>1 DEF Deliver, SetJob, TypeOK, dbVars
  <2>3. j.text = job[i][id].text /\ j.pc = reply
    BY <1>0, <2>1 DEF Job
  <2>4. reply = "sent" => \E d \in delivered' : d.id = id /\ d.text = job[i][id].text
    <3>1. PICK b : b = Was(id, job[i][id].arm)
      OBVIOUS
    <3>2. PICK d : d = [id |-> id, arm |-> job[i][id].arm, text |-> job[i][id].text, again |-> b]
      OBVIOUS
    <3>3. d.id = id /\ d.text = job[i][id].text
      BY <3>2
    <3>4. reply = "sent" => d \in delivered'
      BY <1>9, <3>1, <3>2 DEF Deliver
    <3> QED BY <3>3, <3>4
  <2>5. JobOn(i, id)
    BY <2>2, <2>3, <2>4 DEF JobOn, Sure, Shown
  <2> QED BY <1>5, <1>6, <2>2, <2>5
<1>10. CASE ReadDaily(i, id)
  <2>1. PICK pc \in {"daily", "once"} : SetJob(i, id, [job[i][id] EXCEPT !.pc = pc])
    <3>1. \E d : SetJob(i, id, [job[i][id] EXCEPT !.pc = IF d THEN "daily" ELSE "once"])
      BY <1>10 DEF ReadDaily
    <3> QED BY <3>1
  <2>2. PICK j : j = [job[i][id] EXCEPT !.pc = pc]
    OBVIOUS
  <2>3. job'[i][id] = j /\ job[i][id].pc = "sent"
    BY <1>10, <2>1, <2>2 DEF ReadDaily, SetJob, TypeOK
  <2>4. j.text = job[i][id].text /\ j.pc = pc
    BY <1>0, <2>2 DEF Job
  <2>5. JobOn(i, id)
    BY <2>3, <2>4 DEF JobOn, Sure
  <2> QED BY <1>5, <1>6, <1>10, <2>5 DEF ReadDaily, dbVars
<1>11. ASSUME NEW pc, NEW new, Record(i, id, pc, new), new.text = rows[id].text,
              new.status = "sent" => pc = "once"
       PROVE  SentInv'
  <2>1. rows'[id] = IF Exists(id) THEN new ELSE rows[id]
    BY <1>11 DEF Record, TypeOK
  <2>2. RowOn(id)
    BY <1>11, <2>1 DEF RowOn, Record, Exists
  <2> QED BY <1>5, <1>7, <1>11, <2>2 DEF Record
<1>12. CASE RecordFailure(i, id)
  <2>1. PICK new : new = [rows[id] EXCEPT !.status = "failed"]
    OBVIOUS
  <2>2. new.text = rows[id].text /\ new.status = "failed"
    BY <1>0, <2>1 DEF Row
  <2> QED BY <1>11, <1>12, <2>1, <2>2 DEF RecordFailure
<1>13. CASE RecordSent(i, id)
  <2>1. PICK new : new = [rows[id] EXCEPT !.status = "sent", !.sentAt = now]
    OBVIOUS
  <2>2. new.text = rows[id].text
    BY <1>0, <2>1 DEF Row
  <2> QED BY <1>11, <1>13, <2>1, <2>2 DEF RecordSent
<1>14. CASE Rollover(i, id)
  <2>1. PICK new : new = [rows[id] EXCEPT !.status = "pending", !.at = @ + Day, !.sentAt = now]
    OBVIOUS
  <2>2. new.text = rows[id].text /\ new.status = "pending"
    BY <1>0, <2>1 DEF Row
  <2> QED BY <1>11, <1>14, <2>1, <2>2 DEF Rollover
<1>15. CASE Miss(i, id) \/ GiveUp(i, id)
  BY <1>5, <1>6, <1>7, <1>15 DEF Miss, GiveUp, dbVars
<1>16. CASE ClaimLost(i, id)
  <2>1. RowOn(id)
    BY <1>16, ClaimLostCuts, CutsOn
  <2> QED BY <1>5, <1>7, <1>16, <2>1 DEF ClaimLost
<1> QED BY <1>8, <1>9, <1>10, <1>12, <1>13, <1>14, <1>15, <1>16 DEF Dispatch

LEMMA SentStep == TypeOK /\ SentInv /\ [Next]_vars => SentInv'
<1> SUFFICES ASSUME TypeOK, SentInv, [Next]_vars PROVE SentInv'
  OBVIOUS
<1>0. Blank.status = "absent" /\ NoJob.pc = "idle"
  BY DEF Blank, NoJob
<1>1. UNCHANGED <<scan, job>> => \A i \in Instances : ScanOn(i) /\ \A id \in RowIds : JobOn(i, id)
  BY DEF ScanOn, JobOn, Sure
<1>2. ASSUME NEW id \in RowIds, rows'[id] = Blank \/ rows'[id] = rows[id] PROVE RowOn(id)
  BY <1>0, <1>2 DEF RowOn, Exists
<1>3. ASSUME UNCHANGED <<scan, job, raced, delivered>>, \A id \in RowIds : RowOn(id)
      PROVE  SentInv'
  BY <1>1, <1>3, GoesOn
<1>4. ASSUME UNCHANGED <<scan, job, raced, delivered>>,
             \A id \in RowIds : rows'[id] = Blank \/ rows'[id] = rows[id]
      PROVE  SentInv'
  BY <1>2, <1>3, <1>4
<1>5. ASSUME NEW i \in Instances, Plan(i) PROVE SentInv'
  <2>1. \A id \in RowIds : RowOn(id)
    BY <1>2, <1>5 DEF Plan, TypeOK
  <2>2. PICK S : scan' = [scan EXCEPT ![i] = {[id |-> id, text |-> rows[id].text, at |-> rows[id].at, arm |-> arms[id]] : id \in S}]
    BY <1>5 DEF Plan
  <2>3. \A o \in Instances : ScanOn(o)
    BY <2>2 DEF ScanOn, TypeOK
  <2>4. \A o \in Instances, id \in RowIds : JobOn(o, id)
    BY <1>5 DEF Plan, JobOn, Sure
  <2> QED BY <1>5, <2>1, <2>3, <2>4, GoesOn DEF Plan, history
<1>6. ASSUME NEW i \in Instances, NEW s \in scan[i], Arm(i, s) PROVE SentInv'
  <2>1. s.id \in RowIds /\ \A o \in Instances : ScanOn(o)
    BY <1>6 DEF Arm, TypeOK, Snapshot, ScanOn
  <2>2. \A o \in Instances, id \in RowIds : JobOn(o, id)
    <3>1. PICK j : j = [pc |-> "armed", text |-> s.text, at |-> s.at, arm |-> s.arm]
      OBVIOUS
    <3>2. j.pc = "armed" /\ j.text = s.text
      BY <3>1
    <3>3. job' = job \/ SetJob(i, s.id, j)
      BY <1>6, <3>1 DEF Arm
    <3>4. \A o \in Instances, id \in RowIds :
            job'[o][id] = job[o][id] \/ (o = i /\ id = s.id /\ job'[o][id] = j)
      BY <3>3 DEF SetJob, TypeOK
    <3> QED BY <3>2, <3>4 DEF JobOn, Sure
  <2>3. UNCHANGED <<rows, raced, delivered>>
    BY <1>6 DEF Arm, dbVars, history
  <2> QED BY <1>2, <2>1, <2>2, <2>3, GoesOn
<1>7. ASSUME NEW i \in Instances, Stop(i) \/ Restart(i) PROVE SentInv'
  <2>1. \A o \in Instances, id \in RowIds : job'[o][id] = NoJob \/ job'[o][id] = job[o][id]
    BY <1>7, StopJobs
  <2>2. \A o \in Instances, id \in RowIds : JobOn(o, id)
    BY <1>0, <2>1 DEF JobOn, Sure
  <2>3. \A o \in Instances : ScanOn(o)
    BY <1>7 DEF Stop, Restart, ScanOn, TypeOK
  <2>4. UNCHANGED <<raced, delivered>>
    BY <1>7 DEF Stop, Restart
  <2>5. \A id \in RowIds : RowOn(id)
    <3>1. CASE Stop(i)
      BY <3>1, StopCuts, CutsOn
    <3>2. CASE Restart(i)
      BY <1>2, <3>2 DEF Restart, dbVars
    <3> QED BY <1>7, <3>1, <3>2
  <2> QED BY <2>2, <2>3, <2>4, <2>5, GoesOn
<1>8. ASSUME NEW i \in Instances, NEW h \in Handlers, Handle(i, h) PROVE SentInv'
  <2>1. ASSUME NEW r \in Requests, Post(i, h, r) PROVE SentInv'
    BY <1>4, <2>1 DEF Post, TypeOK, history
  <2>2. CASE Finish(i, h) \/ Disconnect(i, h)
    BY <1>4, <2>2 DEF Finish, Disconnect, dbVars, TypeOK, history
  <2>3. ASSUME NEW g \in call[i][h].todo, ComposeFails(i, h, g) \/ SaveRefused(i, h, g) PROVE SentInv'
    BY <1>4, <2>3 DEF ComposeFails, SaveRefused, dbVars, history
  <2> QED BY <1>8, <2>1, <2>2, <2>3, SaveSent DEF Handle
<1>9. ASSUME NEW id \in RowIds, Delete(id) PROVE SentInv'
  BY <1>4, <1>9 DEF Delete, TypeOK, history
<1>10. ASSUME NEW id \in RowIds, Cancel(id) PROVE SentInv'
  <2>1. PICK row : row = [rows[id] EXCEPT !.status = "cancelled"]
    OBVIOUS
  <2>2. Exists(id) /\ row.text = rows[id].text /\ row.status = "cancelled"
    BY <1>10, <2>1 DEF Cancel, TypeOK, Row, Exists
  <2>3. rows'[id] = row /\ \A k \in RowIds \ {id} : rows'[k] = rows[k]
    BY <1>10, <2>1 DEF Cancel, TypeOK
  <2>4. RowOn(id) /\ \A k \in RowIds \ {id} : RowOn(k)
    BY <1>2, <2>2, <2>3 DEF RowOn
  <2> QED BY <1>3, <1>10, <2>4 DEF Cancel, history
<1>11. CASE Tick \/ UNCHANGED vars
  BY <1>4, <1>11 DEF Tick, vars, dbVars, history
<1> QED BY <1>5, <1>6, <1>7, <1>8, <1>9, <1>10, <1>11, DispatchSent DEF Next

(* A row marked sent had the text it now holds delivered, unless a save    *)
(* came between a scan and its goroutine: dispatchOne marks by id only.    *)
THEOREM SentIsDelivered == Spec => []SentWasDelivered
<1>1. Init => TypeOK /\ SentInv
  <2>1. Init => TypeOK
    BY BlankType, NoJobType, NoCallType DEF Init, TypeOK
  <2>2. Init => SentInv
    BY DEF Init, SentInv, SameText, SureShown, SentWasDelivered, Blank, NoJob, Exists, Sure
  <2> QED BY <2>1, <2>2
<1>2. SentInv => SentWasDelivered
  BY DEF SentInv
<1> QED BY <1>1, <1>2, TypeStep, SentStep, PTL DEF Spec

-----------------------------------------------------------------------------
(* A snapshot and the timer armed from it hold the time of their row, as   *)
(* long as the row was not made pending again since the scan.              *)
Timely(arm, at, id) ==
  /\ arm <= arms[id]
  /\ arm = arms[id] /\ rows[id].status = "pending" => at = rows[id].at
TimeInv ==
  /\ \A i \in Instances : \A s \in scan[i] : Timely(s.arm, s.at, s.id)
  /\ \A i \in Instances, id \in RowIds :
       job[i][id].pc = "armed" => Timely(job[i][id].arm, job[i][id].at, id)

(* A row keeps its arming and stays pending, if it is, at the same time,   *)
(* or is armed anew.                                                       *)
Ages(id) ==
  \/ arms'[id] = arms[id] + 1
  \/ /\ arms'[id] = arms[id]
     /\ rows'[id].status = "pending" => rows[id].status = "pending" /\ rows'[id].at = rows[id].at

LEMMA CutsAge ==
  ASSUME Cuts, UNCHANGED arms, NEW id \in RowIds
  PROVE  Ages(id)
BY DEF Cuts, Ages

LEMMA StaysTimely ==
  ASSUME TypeOK, NEW id \in RowIds, Ages(id), NEW arm \in Nat, NEW at \in Nat, Timely(arm, at, id)
  PROVE  Timely(arm, at, id)'
<1>1. arms[id] \in Nat
  BY DEF TypeOK
<1> QED BY <1>1 DEF Timely, Ages

LEMMA TimeKept ==
  ASSUME TypeOK, TimeInv, \A id \in RowIds : Ages(id),
         \A i \in Instances : scan'[i] \subseteq scan[i],
         \A i \in Instances, id \in RowIds :
           job'[i][id].pc = "armed" => job'[i][id] = job[i][id]
  PROVE  TimeInv'
<1>1. ASSUME NEW i \in Instances, NEW s \in scan'[i] PROVE Timely(s.arm, s.at, s.id)'
  <2>1. s \in scan[i] /\ s.id \in RowIds /\ s.arm \in Nat /\ s.at \in Nat
    BY DEF TypeOK, Snapshot
  <2>2. PICK id, arm, at : id = s.id /\ arm = s.arm /\ at = s.at
    OBVIOUS
  <2>3. Timely(arm, at, id)
    BY <2>1, <2>2 DEF TimeInv
  <2>4. Timely(arm, at, id)'
    BY <2>1, <2>2, <2>3, StaysTimely
  <2> QED BY <2>2, <2>4 DEF Timely
<1>2. ASSUME NEW i \in Instances, NEW id \in RowIds, job'[i][id].pc = "armed"
      PROVE  Timely(job[i][id].arm, job[i][id].at, id)'
  <2>1. PICK j : j = job[i][id]
    OBVIOUS
  <2>2. j \in Job /\ Timely(j.arm, j.at, id)
    BY <1>2, <2>1 DEF TypeOK, TimeInv
  <2>3. PICK arm, at : arm = j.arm /\ at = j.at
    OBVIOUS
  <2>4. Timely(arm, at, id)'
    BY <2>2, <2>3, StaysTimely DEF Job
  <2>5. job'[i][id] = j
    BY <1>2, <2>1
  <2> QED BY <2>3, <2>4, <2>5 DEF Timely
<1> QED BY <1>1, <1>2 DEF TimeInv

LEMMA DispatchTime ==
  ASSUME TypeOK, TimeInv, NEW i \in Instances, NEW id \in RowIds, Dispatch(i, id)
  PROVE  TimeInv'
<1>1. PICK j : SetJob(i, id, j) /\ j.pc # "armed"
  <2>1. CASE Claim(i, id)
    <3>1. PICK j : j = [job[i][id] EXCEPT !.pc = "claimed", !.arm = arms[id]]
      OBVIOUS
    <3>2. job[i][id] \in Job
      BY DEF TypeOK
    <3>3. j.pc = "claimed"
      BY <3>1, <3>2 DEF Job
    <3>4. SetJob(i, id, j)
      BY <2>1, <3>1 DEF Claim
    <3> QED BY <3>3, <3>4
  <2>2. CASE Miss(i, id) \/ GiveUp(i, id) \/ ClaimLost(i, id)
    BY <2>2 DEF Miss, GiveUp, ClaimLost, NoJob
  <2>3. ASSUME NEW sent \in BOOLEAN, NEW reply \in {"sent", "err"}, Deliver(i, id, sent, reply)
        PROVE  \E j : SetJob(i, id, j) /\ j.pc # "armed"
    BY <2>3 DEF Deliver, TypeOK, Job
  <2>4. CASE ReadDaily(i, id)
    <3>1. PICK pc \in {"daily", "once"} : SetJob(i, id, [job[i][id] EXCEPT !.pc = pc])
      BY <2>4 DEF ReadDaily
    <3> QED BY <3>1 DEF TypeOK, Job
  <2>5. CASE RecordFailure(i, id) \/ RecordSent(i, id) \/ Rollover(i, id)
    BY <2>5 DEF RecordFailure, RecordSent, Rollover, Record, NoJob
  <2> QED BY <2>1, <2>2, <2>3, <2>4, <2>5 DEF Dispatch
<1>2. \A k \in Instances, n \in RowIds : job'[k][n].pc = "armed" => job'[k][n] = job[k][n]
  <2>1. \A k \in Instances, n \in RowIds :
          job'[k][n] = job[k][n] \/ (k = i /\ n = id /\ job'[k][n] = j)
    BY <1>1 DEF SetJob, TypeOK
  <2> QED BY <1>1, <2>1
<1>3. UNCHANGED scan
  BY DEF Dispatch, Claim, ClaimLost, Miss, Deliver, ReadDaily, RecordFailure, RecordSent, Rollover, Record, GiveUp
<1>4. \A n \in RowIds : Ages(n)
  <2>1. ASSUME UNCHANGED dbVars PROVE \A n \in RowIds : Ages(n)
    BY <2>1 DEF dbVars, Ages
  <2>2. CASE Claim(i, id)
    BY <2>2 DEF Claim, TypeOK, Row, Ages
  <2>3. CASE RecordFailure(i, id)
    BY <2>3 DEF RecordFailure, Record, TypeOK, Row, Ages
  <2>4. CASE RecordSent(i, id)
    BY <2>4 DEF RecordSent, Record, TypeOK, Row, Ages
  <2>5. CASE Rollover(i, id)
    <3>1. CASE Exists(id)
      <4>1. arms'[id] = arms[id] + 1 /\ \A n \in RowIds \ {id} : arms'[n] = arms[n] /\ rows'[n] = rows[n]
        BY <2>5, <3>1 DEF Rollover, Record, TypeOK
      <4> QED BY <4>1 DEF Ages
    <3>2. CASE ~Exists(id)
      BY <2>5, <3>2 DEF Rollover, Record, Ages
    <3> QED BY <3>1, <3>2
  <2>6. CASE ~(Claim(i, id) \/ ClaimLost(i, id) \/ RecordFailure(i, id) \/ RecordSent(i, id) \/ Rollover(i, id))
    BY <2>1, <2>6 DEF Dispatch, Miss, Deliver, ReadDaily, GiveUp
  <2>7. CASE ClaimLost(i, id)
    BY <2>7, ClaimLostCuts, CutsAge DEF ClaimLost
  <2> QED BY <2>2, <2>3, <2>4, <2>5, <2>6, <2>7
<1> QED BY <1>2, <1>3, <1>4, TimeKept

LEMMA TimeStep == TypeOK /\ TimeInv /\ [Next]_vars => TimeInv'
<1> SUFFICES ASSUME TypeOK, TimeInv, [Next]_vars PROVE TimeInv'
  OBVIOUS
<1>0. Blank.status = "absent" /\ NoJob.pc = "idle"
  BY DEF Blank, NoJob
<1>1. ASSUME UNCHANGED <<scan, job>>, \A id \in RowIds : Ages(id) PROVE TimeInv'
  BY <1>1, TimeKept
<1>2. ASSUME UNCHANGED arms, \A id \in RowIds : rows'[id] = Blank \/ rows'[id] = rows[id]
      PROVE  \A id \in RowIds : Ages(id)
  BY <1>0, <1>2 DEF Ages
<1>3. ASSUME NEW i \in Instances, Plan(i) PROVE TimeInv'
  <2>1. \A id \in RowIds : Ages(id)
    BY <1>2, <1>3 DEF Plan, dbVars, TypeOK
  <2>2. \A id \in RowIds : rows[id].status = "pending" => rows'[id] = rows[id]
    BY <1>3 DEF Plan, Purgeable, TypeOK
  <2>3. PICK S \in Scans : scan' = [scan EXCEPT ![i] = {[id |-> id, text |-> rows[id].text, at |-> rows[id].at, arm |-> arms[id]] : id \in S}]
    BY <1>3 DEF Plan
  <2>4. \A id \in S : id \in RowIds /\ rows[id].status = "pending"
    BY DEF Scans, Eligible
  <2>5. UNCHANGED <<arms, job>>
    BY <1>3 DEF Plan
  <2>6. ASSUME NEW k \in Instances, NEW s \in scan'[k] PROVE Timely(s.arm, s.at, s.id)'
    <3>1. CASE k = i
      <4>1. PICK id \in S : s = [id |-> id, text |-> rows[id].text, at |-> rows[id].at, arm |-> arms[id]]
        BY <2>3, <2>6, <3>1 DEF TypeOK
      <4>2. s.id = id /\ s.at = rows'[id].at /\ s.arm = arms'[id]
        BY <2>2, <2>4, <2>5, <4>1
      <4>3. arms[id] \in Nat
        BY <2>4 DEF TypeOK
      <4> QED BY <2>5, <4>2, <4>3 DEF Timely
    <3>2. CASE k # i
      <4>1. s \in scan[k] /\ s.id \in RowIds
        BY <2>3, <2>6, <3>2 DEF TypeOK, Snapshot
      <4>2. PICK id, arm, at : id = s.id /\ arm = s.arm /\ at = s.at
        OBVIOUS
      <4>3. Timely(arm, at, id) /\ arm \in Nat /\ at \in Nat
        BY <4>1, <4>2 DEF TimeInv, TypeOK, Snapshot
      <4>4. Timely(arm, at, id)'
        BY <2>1, <4>1, <4>2, <4>3, StaysTimely
      <4> QED BY <4>2, <4>4 DEF Timely
    <3> QED BY <3>1, <3>2
  <2>7. ASSUME NEW k \in Instances, NEW id \in RowIds, job'[k][id].pc = "armed"
        PROVE  Timely(job[k][id].arm, job[k][id].at, id)'
    <3>1. PICK j : j = job[k][id]
      OBVIOUS
    <3>2. j \in Job /\ Timely(j.arm, j.at, id)
      BY <2>5, <2>7, <3>1 DEF TypeOK, TimeInv
    <3>3. PICK arm, at : arm = j.arm /\ at = j.at
      OBVIOUS
    <3>4. Timely(arm, at, id)'
      BY <2>1, <3>2, <3>3, StaysTimely DEF Job
    <3>5. job'[k][id] = j
      BY <2>5, <3>1
    <3> QED BY <3>3, <3>4, <3>5 DEF Timely
  <2> QED BY <2>6, <2>7 DEF TimeInv
<1>4. ASSUME NEW i \in Instances, NEW s \in scan[i], Arm(i, s) PROVE TimeInv'
  <2>1. s.id \in RowIds /\ Timely(s.arm, s.at, s.id)
    BY DEF TypeOK, Snapshot, TimeInv
  <2>2. UNCHANGED dbVars /\ \A k \in Instances : scan'[k] \subseteq scan[k]
    BY <1>4 DEF Arm, TypeOK
  <2>3. PICK j : j = [pc |-> "armed", text |-> s.text, at |-> s.at, arm |-> s.arm]
    OBVIOUS
  <2>4. job' = job \/ SetJob(i, s.id, j)
    BY <1>4, <2>3 DEF Arm
  <2>5. \A k \in Instances, id \in RowIds :
          job'[k][id] = job[k][id] \/ (k = i /\ id = s.id /\ job'[k][id] = j)
    BY <2>4 DEF SetJob, TypeOK
  <2>6. Timely(j.arm, j.at, s.id)
    BY <2>1, <2>3
  <2>7. \A k \in Instances, id \in RowIds :
          job'[k][id].pc = "armed" => Timely(job'[k][id].arm, job'[k][id].at, id)
    BY <2>5, <2>6 DEF TimeInv
  <2>8. \A k \in Instances : \A t \in scan'[k] : Timely(t.arm, t.at, t.id)
    BY <2>2 DEF TimeInv
  <2> QED BY <2>2, <2>7, <2>8 DEF TimeInv, Timely, dbVars
<1>5. ASSUME NEW i \in Instances, Stop(i) \/ Restart(i) PROVE TimeInv'
  <2>1. \A k \in Instances, id \in RowIds : job'[k][id] = NoJob \/ job'[k][id] = job[k][id]
    BY <1>5, StopJobs
  <2>2. \A k \in Instances : scan'[k] \subseteq scan[k]
    BY <1>5 DEF Stop, Restart, TypeOK
  <2>3. \A id \in RowIds : Ages(id)
    <3>1. CASE Stop(i)
      BY <3>1, StopCuts, CutsAge DEF Stop
    <3>2. CASE Restart(i)
      BY <3>2 DEF Restart, dbVars, Ages
    <3> QED BY <1>5, <3>1, <3>2
  <2> QED BY <1>0, <2>1, <2>2, <2>3, TimeKept
<1>6. ASSUME NEW i \in Instances, NEW h \in Handlers, Handle(i, h) PROVE TimeInv'
  <2>1. ASSUME NEW r \in Requests, Post(i, h, r) PROVE TimeInv'
    BY <1>1, <1>2, <2>1 DEF Post, TypeOK, history
  <2>2. CASE Finish(i, h) \/ Disconnect(i, h)
    BY <1>1, <1>2, <2>2 DEF Finish, Disconnect, dbVars, TypeOK, history
  <2>3. ASSUME NEW g \in call[i][h].todo, ComposeFails(i, h, g) \/ SaveRefused(i, h, g) PROVE TimeInv'
    BY <1>1, <1>2, <2>3 DEF ComposeFails, SaveRefused, dbVars, history
  <2>4. ASSUME NEW g \in call[i][h].todo, NEW id \in RowIds, Save(i, h, g, id) PROVE TimeInv'
    <3>1. /\ arms'[id] = arms[id] + 1
          /\ \A n \in RowIds \ {id} : arms'[n] = arms[n] /\ rows'[n] = rows[n]
      BY <2>4 DEF Save, TypeOK
    <3>2. \A n \in RowIds : Ages(n)
      BY <3>1 DEF Ages
    <3> QED BY <1>1, <2>4, <3>2 DEF Save
  <2> QED BY <1>6, <2>1, <2>2, <2>3, <2>4 DEF Handle
<1>7. ASSUME NEW id \in RowIds, Cancel(id) \/ Delete(id) PROVE TimeInv'
  <2>1. CASE Delete(id)
    BY <1>1, <1>2, <2>1 DEF Delete, TypeOK
  <2>2. CASE Cancel(id)
    <3>1. \A n \in RowIds : Ages(n)
      BY <2>2 DEF Cancel, TypeOK, Row, Ages
    <3> QED BY <1>1, <2>2, <3>1 DEF Cancel
  <2> QED BY <1>7, <2>1, <2>2
<1>8. CASE Tick \/ UNCHANGED vars
  BY <1>1, <1>2, <1>8 DEF Tick, vars, dbVars
<1> QED BY <1>3, <1>4, <1>5, <1>6, <1>7, <1>8, DispatchTime DEF Next

LEMMA EarlyStep == TypeOK /\ TimeInv /\ [Next]_vars =>
  \A i \in Instances, id \in RowIds :
    job[i][id].pc = "armed" /\ job'[i][id].pc = "claimed" =>
      rows[id].at <= now \/ job[i][id].arm < arms[id]
<1> SUFFICES ASSUME TypeOK, TimeInv, [Next]_vars, NEW i \in Instances, NEW id \in RowIds,
                    job[i][id].pc = "armed", job'[i][id].pc = "claimed"
             PROVE  rows[id].at <= now \/ job[i][id].arm < arms[id]
  OBVIOUS
<1>1. Claim(i, id)
  <2>0. NoJob.pc = "idle"
    BY DEF NoJob
  <2>1. job' # job
    OBVIOUS
  <2>2. ASSUME NEW k \in Instances, NEW s \in scan[k], Arm(k, s) PROVE FALSE
    <3>1. PICK j : j = [pc |-> "armed", text |-> s.text, at |-> s.at, arm |-> s.arm]
      OBVIOUS
    <3>2. j.pc = "armed" /\ (job' = job \/ SetJob(k, s.id, j)) /\ s.id \in RowIds
      BY <2>2, <3>1 DEF Arm, TypeOK, Snapshot
    <3>3. \A m \in Instances, n \in RowIds :
            job'[m][n] = job[m][n] \/ (m = k /\ n = s.id /\ job'[m][n] = j)
      BY <3>2 DEF SetJob, TypeOK
    <3> QED BY <3>2, <3>3
  <2>3. ASSUME NEW k \in Instances, Stop(k) \/ Restart(k) PROVE FALSE
    <3>1. job'[i][id] = NoJob \/ job'[i][id] = job[i][id]
      BY <2>3, StopJobs
    <3> QED BY <2>0, <3>1
  <2>4. ASSUME NEW k \in Instances, NEW n \in RowIds, Dispatch(k, n) PROVE k = i /\ n = id
    <3>1. \E j : SetJob(k, n, j)
      BY <2>4 DEF Dispatch, Claim, ClaimLost, Miss, Deliver, ReadDaily, RecordFailure, RecordSent, Rollover, Record, GiveUp
    <3>2. job'[i][id] = job[i][id] \/ (k = i /\ n = id)
      BY <3>1 DEF SetJob, TypeOK
    <3> QED BY <3>2
  <2>5. ASSUME Dispatch(i, id) PROVE Claim(i, id)
    <3>1. ClaimLost(i, id) => job'[i][id] = NoJob
      BY DEF ClaimLost, SetJob, TypeOK
    <3> QED BY <2>0, <2>5, <3>1 DEF Dispatch, Miss, Deliver, ReadDaily, RecordFailure, RecordSent, Rollover, Record, GiveUp, SetJob, TypeOK
  <2>6. ASSUME NEW k \in Instances, NEW h \in Handlers, Handle(k, h) PROVE UNCHANGED job
    BY <2>6 DEF Handle, Post, ComposeFails, SaveRefused, Save, Finish, Disconnect
  <2>7. ASSUME NEW k \in Instances, Plan(k) PROVE UNCHANGED job
    BY <2>7 DEF Plan
  <2>8. ASSUME NEW n \in RowIds, Cancel(n) \/ Delete(n) PROVE UNCHANGED job
    BY <2>8 DEF Cancel, Delete
  <2>9. CASE Tick \/ UNCHANGED vars
    BY <2>1, <2>9 DEF Tick, vars
  <2> QED BY <2>1, <2>2, <2>3, <2>4, <2>5, <2>6, <2>7, <2>8, <2>9 DEF Next
<1>2. rows[id].status = "pending" /\ job[i][id].at <= now
  BY <1>1 DEF Claim, Fired
<1>3. Timely(job[i][id].arm, job[i][id].at, id)
  BY DEF TimeInv
<1>4. job[i][id].arm \in Nat /\ arms[id] \in Nat
  BY DEF TypeOK, Job
<1> QED BY <1>2, <1>3, <1>4 DEF Timely

(* A timer claims its reminder only when the time its row holds has come,  *)
(* unless the row was saved or rolled over since the scan: dispatchOne's   *)
(* claim looks at the status and not at send_at.                           *)
THEOREM NothingIsEarly == Spec => NeverEarly
<1>1. Init => TypeOK /\ TimeInv
  <2>1. Init => TypeOK
    BY BlankType, NoJobType, NoCallType DEF Init, TypeOK
  <2>2. Init => TimeInv
    BY DEF Init, TimeInv, NoJob
  <2> QED BY <2>1, <2>2
<1> QED BY <1>1, TypeStep, TimeStep, EarlyStep, PTL DEF Spec, NeverEarly
=============================================================================
