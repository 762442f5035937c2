------------------------------ MODULE ChatProofs ------------------------------
(***************************************************************************)
(* The types of the chat, that it implements the update pool of its bot    *)
(* and with it one message at a time per chat, that a reply is answered    *)
(* from the context of the text replied to, and that it implements the     *)
(* conversation, for every value of the constants.                         *)
(***************************************************************************)
EXTENDS Chat, BotProofs

-----------------------------------------------------------------------------
(* The memory *)

LEMMA NoContext == 0 \in Contexts
BY MemoryAssumption, PoolAssumption DEF Contexts

LEMMA NewRows ==
  ASSUME NEW t \in Texts
  PROVE  UserRow(t) \in Row /\ AssistantRow(t) \in Row
<1>1. 0 \in Contexts
  BY NoContext
<1> QED BY <1>1 DEF UserRow, AssistantRow, Row

LEMMA TrimmedRows ==
  ASSUME NEW S, NEW rows \in Seq(S)
  PROVE  Trimmed(rows) \in Seq(S)
<1>1. CASE Len(rows) < MaxBefore
  BY <1>1 DEF Trimmed
<1>2. CASE ~(Len(rows) < MaxBefore)
  <2>1. /\ Len(rows) \in Nat /\ Len(rows) - Keep + 1 \in 1..Len(rows) + 1
    BY <1>2, MemoryAssumption
  <2>2. SubSeq(rows, Len(rows) - Keep + 1, Len(rows)) \in Seq(S)
    BY <2>1, SubSeqProperties
  <2> QED BY <1>2, <2>2 DEF Trimmed
<1> QED BY <1>1, <1>2

LEMMA UpdatedRows ==
  ASSUME NEW rows \in Seq(Row), NEW u, NEW field \in {"tg", "ctx"}, NEW value,
         IF field = "tg" THEN value \in Nat ELSE value \in Contexts
  PROVE  WithRow(rows, u, field, value) \in Seq(Row)
<1>1. \A i \in 1..Len(rows) : rows[i] \in Row
  OBVIOUS
<1>2. \A r \in Row : [r EXCEPT ![field] = value] \in Row
  BY DEF Row
<1>3. DOMAIN rows = 1..Len(rows) /\ Len(rows) \in Nat
  OBVIOUS
<1>4. WithRow(rows, u, field, value) \in [1..Len(rows) -> Row]
  BY <1>1, <1>2, <1>3 DEF WithRow
<1> QED BY <1>3, <1>4
-----------------------------------------------------------------------------
(* The types *)

LEMMA TaskEnds == Start \in Task /\ Done \in Task
BY NoContext DEF Start, Done, Task

(* The messages that show the text t. *)
Parts(ids, t, c, ctx) == {[tg |-> id, chat |-> c, of |-> t, ctx |-> ctx] : id \in ids}

LEMMA PartsOf ==
  ASSUME NEW ids, NEW t, NEW c, NEW ctx
  PROVE  /\ \A x \in Parts(ids, t, c, ctx) :
              /\ x.tg \in ids /\ x.of = t /\ x.chat = c /\ x.ctx = ctx
              /\ x = [tg |-> x.tg, chat |-> c, of |-> t, ctx |-> ctx]
         /\ \A id \in ids : \E x \in Parts(ids, t, c, ctx) : x.tg = id
<1>1. \A x \in Parts(ids, t, c, ctx) :
        /\ x.tg \in ids /\ x.of = t /\ x.chat = c /\ x.ctx = ctx
        /\ x = [tg |-> x.tg, chat |-> c, of |-> t, ctx |-> ctx]
  BY DEF Parts
<1>2. ASSUME NEW id \in ids PROVE \E x \in Parts(ids, t, c, ctx) : x.tg = id
  <2>1. [tg |-> id, chat |-> c, of |-> t, ctx |-> ctx] \in Parts(ids, t, c, ctx)
    BY DEF Parts
  <2> QED BY <2>1
<1> QED BY <1>1, <1>2

(* A text is shown by new messages, of which the one learned is one.       *)
LEMMA Posted ==
  ASSUME posted \in Nat, NEW t, NEW c, NEW ctx, NEW learned \in Nat, Post(t, c, ctx, learned)
  PROVE  \E ids \in SUBSET Nat :
           /\ posted' \in Nat /\ posted <= posted'
           /\ \A id \in ids : posted < id /\ id <= posted'
           /\ learned # 0 => learned \in ids
           /\ shown' = shown \union Parts(ids, t, c, ctx)
           /\ unlinked' = unlinked \union (ids \ {learned})
<1>1. PICK n \in 0..MaxParts :
        LET ids == posted + 1 .. posted + n IN
        /\ learned \in {0} \union ids
        /\ posted' = posted + n
        /\ shown' = shown \union Parts(ids, t, c, ctx)
        /\ unlinked' = unlinked \union (ids \ {learned})
  BY DEF Post, Parts
<1>2. n \in Nat
  BY MemoryAssumption
<1>3. PICK ids : ids = posted + 1 .. posted + n
  OBVIOUS
<1>4. /\ ids \in SUBSET Nat
      /\ posted' \in Nat /\ posted <= posted'
      /\ \A id \in ids : posted < id /\ id <= posted'
  BY <1>1, <1>2, <1>3
<1>5. /\ learned # 0 => learned \in ids
      /\ shown' = shown \union Parts(ids, t, c, ctx)
      /\ unlinked' = unlinked \union (ids \ {learned})
  BY <1>1, <1>3 DEF Parts
<1> QED BY <1>4, <1>5

LEMMA PostTyped ==
  ASSUME TypeOK, NEW t \in Texts, NEW c \in Chats, NEW ctx \in Contexts, NEW learned \in Nat,
         Post(t, c, ctx, learned)
  PROVE  /\ posted' \in Nat /\ shown' \subseteq Message
         /\ unlinked' \subseteq Nat /\ faults' \in 0..MaxFaults
<1>0. posted \in Nat /\ unlinked \subseteq Nat
  BY DEF TypeOK
<1>1. PICK ids \in SUBSET Nat :
        /\ posted' \in Nat
        /\ shown' = shown \union Parts(ids, t, c, ctx)
        /\ unlinked' = unlinked \union (ids \ {learned})
  BY <1>0, Posted
<1>2. shown' \subseteq Message
  <2>1. Parts(ids, t, c, ctx) \subseteq Message
    BY PartsOf DEF Message
  <2> QED BY <1>1, <2>1 DEF TypeOK
<1>3. faults' \in 0..MaxFaults
  <2>1. Fine \/ Fault
    BY DEF Post
  <2> QED BY <2>1, MemoryAssumption DEF Fine, Fault, TypeOK
<1> QED BY <1>0, <1>1, <1>2, <1>3

LEMMA TrimSteps ==
  ASSUME NEW u, Trim(u)
  PROVE  \E at : /\ request' = [request EXCEPT ![u].at = at]
                 /\ \/ request[u].at = "kept" /\ at \in {"accepted", "names"}
                    \/ request[u].at = "stored" /\ at = "trimmed"
BY DEF Trim

LEMMA InitTyped == Init => TypeOK
<1> SUFFICES ASSUME Init PROVE TypeOK
  OBVIOUS
<1>1. PoolTypeOK
  BY InitTypes DEF Init
<1> QED BY <1>1, TaskEnds, MemoryAssumption DEF Init, TypeOK

(* The steps of the bot's workers. *)
LEMMA StepTyped ==
  ASSUME TypeOK, NEW w \in Workers, Step(w), PoolTypeOK'
  PROVE  TypeOK'
<1>1. /\ task \in [Workers -> Task] /\ task[w] \in Task /\ posted \in Nat
      /\ unlinked \subseteq Nat /\ faults \in 0..MaxFaults /\ MaxFaults \in Nat
  BY MemoryAssumption DEF TypeOK
<1>2. /\ [task[w] EXCEPT !.at = "asked"] \in Task
      /\ \A tg \in Nat : [task[w] EXCEPT !.at = "shown", !.tg = tg] \in Task
  BY <1>1 DEF Task
<1>3. ASSUME On(w, task[w].at)
      PROVE  /\ U(w).id \in Updates /\ ChatOf(w) \in Chats /\ U(w).re \in Nat
  <2>1. worker[w] \in Busy /\ ChatOf(w) \in Chats
    BY <1>3, BusyWorker DEF TypeOK, On
  <2> QED BY <2>1 DEF Busy, Update, U, Updates
<1>4. CASE Restart(w) \/ Refuse(w)
  BY <1>1, <1>4, TaskEnds DEF Restart, Refuse, TypeOK
<1>5. CASE Ask(w)
  <2>1. task' \in [Workers -> Task]
    BY <1>1, <1>2, <1>5 DEF Ask
  <2>2. request' \in [Updates -> {None} \union Call]
    <3>1. [at |-> "sent", chat |-> ChatOf(w), re |-> U(w).re, ctx |-> 0] \in Call
      BY <1>3, <1>5, NoContext DEF Ask, On, Call
    <3> QED BY <1>5, <3>1 DEF Ask, TypeOK
  <2> QED BY <1>5, <2>1, <2>2 DEF Ask, TypeOK
<1>6. CASE GiveUp(w)
  <2>1. faults' \in 0..MaxFaults
    BY <1>1, <1>6 DEF GiveUp, Fault, Fine
  <2> QED BY <1>1, <1>6, <2>1, TaskEnds DEF GiveUp, TypeOK
<1>7. CASE Receive(w)
  <2>1. request[U(w).id] \in Call
    <3>1. request[U(w).id] \in {None} \union Call
      BY <1>3, <1>7 DEF Receive, On, TypeOK
    <3> QED BY <1>7, <3>1 DEF Receive, None
  <2>2. task' \in [Workers -> Task]
    <3>1. [task[w] EXCEPT !.at = "answered", !.ctx = request[U(w).id].ctx] \in Task
      BY <1>1, <2>1 DEF Task, Call
    <3> QED BY <1>1, <1>7, <3>1 DEF Receive
  <2>3. request' \in [Updates -> {None} \union Call]
    BY <1>7 DEF Receive, TypeOK
  <2> QED BY <1>7, <2>2, <2>3 DEF Receive, TypeOK
<1>8. CASE Show(w)
  <2>1. PICK learned \in {0, posted + 1} :
          /\ Post(U(w).id, ChatOf(w), task[w].ctx, learned)
          /\ task' = IF learned = 0 THEN [task EXCEPT ![w] = Done]
                                    ELSE [task EXCEPT ![w].at = "shown", ![w].tg = learned]
    BY <1>8 DEF Show
  <2>2. learned \in Nat
    BY <1>1
  <2>3. task' \in [Workers -> Task]
    BY <1>1, <1>2, <2>1, <2>2, TaskEnds
  <2>4. U(w).id \in Texts /\ ChatOf(w) \in Chats /\ task[w].ctx \in Contexts
    BY <1>1, <1>3, <1>8 DEF Show, On, Task, Texts
  <2>5. /\ posted' \in Nat /\ shown' \subseteq Message
        /\ unlinked' \subseteq Nat /\ faults' \in 0..MaxFaults
    BY <2>1, <2>2, <2>4, PostTyped
  <2> QED BY <1>8, <2>3, <2>5 DEF Show, TypeOK
<1>9. CASE Record(w)
  <2>1. task[w].tg \in Nat /\ ChatOf(w) \in Chats
    BY <1>1, <1>3, <1>9 DEF Task, Record, On
  <2>2. memory' \in [Chats -> Seq(Row)]
    <3>1. WithRow(memory[ChatOf(w)], U(w).id, "tg", task[w].tg) \in Seq(Row)
      BY <2>1, UpdatedRows DEF TypeOK
    <3> QED BY <1>9, <3>1 DEF Record, TypeOK
  <2>3. \/ Fine /\ UNCHANGED unlinked
        \/ Fault /\ unlinked' = unlinked \union {task[w].tg}
    BY <1>9 DEF Record
  <2>5. unlinked \subseteq Nat /\ faults \in 0..MaxFaults
    BY DEF TypeOK
  <2>6. unlinked' \subseteq Nat
    BY <2>1, <2>3, <2>5
  <2>7. faults' \in 0..MaxFaults
    BY <2>3, <2>5, MemoryAssumption DEF Fault, Fine
  <2>4. task' \in [Workers -> Task]
    BY <1>1, <1>9, TaskEnds DEF Record
  <2> QED BY <1>9, <2>2, <2>4, <2>6, <2>7 DEF Record, TypeOK
<1>10. CASE Finish(w)
  BY <1>1, <1>10, TaskEnds DEF Finish, TypeOK
<1> QED BY <1>4, <1>5, <1>6, <1>7, <1>8, <1>9, <1>10 DEF Step

(* The steps of mcp-proxy with a question. *)
LEMMA ServeTyped ==
  ASSUME TypeOK, NEW u \in Updates, Serve(u), PoolTypeOK'
  PROVE  TypeOK'
<1>1. /\ faults \in 0..MaxFaults /\ MaxFaults \in Nat /\ unlinked \subseteq Nat
      /\ memory \in [Chats -> Seq(Row)]
  BY MemoryAssumption DEF TypeOK
<1>2. request[u] \in Call
  <2>1. request[u].at # "none" /\ request[u] \in {None} \union Call
    BY DEF Serve, Accept, Trim, Lookup, LookupAnew, Save, SaveContext, Fail, TypeOK
  <2> QED BY <2>1 DEF None
<1>3. request[u].chat \in Chats /\ request[u].re \in Nat /\ request[u].ctx \in Contexts
      /\ u \in Texts /\ u \in Contexts
  BY <1>2, MemoryAssumption, PoolAssumption DEF Call, Updates, Texts, Contexts
<1>4. CASE Accept(u)
  <2>1. [request[u] EXCEPT !.at = "kept"] \in Call
    BY <1>2 DEF Call
  <2>2. Append(memory[request[u].chat], UserRow(u)) \in Seq(Row)
    BY <1>1, <1>3, NewRows
  <2>3. memory' \in [Chats -> Seq(Row)]
    BY <1>1, <1>4, <2>2 DEF Accept
  <2>4. faults' \in 0..MaxFaults
    BY <1>1, <1>4 DEF Accept, Fault, Fine
  <2> QED BY <1>4, <2>1, <2>3, <2>4 DEF Accept, TypeOK
<1>5. CASE Trim(u)
  <2>1. PICK at \in {"accepted", "names", "trimmed"} : request' = [request EXCEPT ![u].at = at]
    BY <1>5, TrimSteps
  <2>2. [request[u] EXCEPT !.at = at] \in Call
    BY <1>2, <2>1 DEF Call
  <2>3. request' \in [Updates -> {None} \union Call]
    BY <2>1, <2>2 DEF TypeOK
  <2>4. Trimmed(memory[request[u].chat]) \in Seq(Row)
    BY <1>1, <1>3, TrimmedRows
  <2>5. memory' \in [Chats -> Seq(Row)]
    BY <1>1, <1>5, <2>4 DEF Trim
  <2>6. faults' \in 0..MaxFaults
    BY <1>1, <1>5 DEF Trim, Fault, Fine
  <2> QED BY <1>5, <2>3, <2>5, <2>6 DEF Trim, TypeOK
<1>6. CASE Lookup(u)
  <2>1. PICK ctx : /\ request' = [request EXCEPT ![u].at = "found", ![u].ctx = ctx]
                   /\ ctx = u \/ \E row \in Stored(request[u].chat, request[u].re) : ctx = row.ctx
    BY <1>6 DEF Lookup
  <2>2. ctx \in Contexts
    <3>1. Stored(request[u].chat, request[u].re) \subseteq Row
      <4>1. memory[request[u].chat] \in Seq(Row)
        BY <1>1, <1>3
      <4> QED BY <4>1 DEF Stored, Range
    <3> QED BY <1>3, <2>1, <3>1 DEF Row
  <2>3. [request[u] EXCEPT !.at = "found", !.ctx = ctx] \in Call
    BY <1>2, <2>2 DEF Call
  <2> QED BY <1>6, <2>1, <2>3 DEF Lookup, TypeOK
<1>7. CASE LookupAnew(u)
  <2>1. [request[u] EXCEPT !.at = "found", !.ctx = u] \in Call
    BY <1>2, <1>3 DEF Call
  <2>2. faults' \in 0..MaxFaults /\ unlinked' \subseteq Nat
    BY <1>1, <1>3, <1>7 DEF LookupAnew, Fault
  <2> QED BY <1>7, <2>1, <2>2 DEF LookupAnew, TypeOK
<1>8. CASE Save(u)
  <2>1. [request[u] EXCEPT !.at = "stored"] \in Call
    BY <1>2 DEF Call
  <2>2. Append(memory[request[u].chat], AssistantRow(u)) \in Seq(Row)
    BY <1>1, <1>3, NewRows
  <2>3. memory' \in [Chats -> Seq(Row)]
    BY <1>1, <1>8, <2>2 DEF Save
  <2>4. faults' \in 0..MaxFaults
    BY <1>1, <1>8 DEF Save, Fault, Fine
  <2> QED BY <1>8, <2>1, <2>3, <2>4 DEF Save, TypeOK
<1>9. CASE SaveContext(u)
  <2>1. [request[u] EXCEPT !.at = "saved"] \in Call
    BY <1>2 DEF Call
  <2>2. WithRow(memory[request[u].chat], u, "ctx", request[u].ctx) \in Seq(Row)
    BY <1>1, <1>3, UpdatedRows
  <2>3. memory' \in [Chats -> Seq(Row)]
    BY <1>1, <1>9, <2>2 DEF SaveContext
  <2>4. faults' \in 0..MaxFaults
    BY <1>1, <1>9 DEF SaveContext, Fault, Fine
  <2> QED BY <1>9, <2>1, <2>3, <2>4 DEF SaveContext, TypeOK
<1>10. CASE Fail(u)
  BY <1>10 DEF Fail, TypeOK
<1> QED BY <1>4, <1>5, <1>6, <1>7, <1>8, <1>9, <1>10 DEF Serve

(* The steps of mcp-proxy with a reminder. *)
LEMMA ReminderTyped ==
  ASSUME TypeOK, NEW k \in ReminderIds, PoolTypeOK',
         \/ \E c \in Chats : Remind(k, c)
         \/ Remember(k) \/ TakeOver(k) \/ Name(k) \/ Link(k)
  PROVE  TypeOK'
<1>1. /\ faults \in 0..MaxFaults /\ MaxFaults \in Nat /\ unlinked \subseteq Nat
      /\ memory \in [Chats -> Seq(Row)] /\ posted \in Nat
      /\ k \in Texts /\ k \in Contexts
  BY MemoryAssumption, PoolAssumption DEF TypeOK, Texts, Contexts, ReminderIds
<1>2. CASE \E c \in Chats : Remind(k, c)
  <2>1. PICK c \in Chats : Remind(k, c)
    BY <1>2
  <2>2. PICK learned \in {0, posted + 1} :
          /\ Post(k, c, k, learned)
          /\ reminder' = [reminder EXCEPT ![k] =
               [at |-> IF learned = 0 THEN "over" ELSE "posted", chat |-> c, tg |-> learned]]
    BY <2>1 DEF Remind
  <2>3. learned \in Nat
    BY <1>1
  <2>4. reminder' \in [ReminderIds -> {None} \union Delivery]
    <3>1. [at |-> IF learned = 0 THEN "over" ELSE "posted", chat |-> c, tg |-> learned] \in Delivery
      BY <2>3 DEF Delivery
    <3> QED BY <2>2, <3>1 DEF TypeOK
  <2>5. /\ posted' \in Nat /\ shown' \subseteq Message
        /\ unlinked' \subseteq Nat /\ faults' \in 0..MaxFaults
    BY <1>1, <2>2, <2>3, PostTyped
  <2> QED BY <2>1, <2>4, <2>5 DEF Remind, TypeOK
<1> SUFFICES ASSUME Remember(k) \/ TakeOver(k) \/ Name(k) \/ Link(k)
             PROVE  TypeOK'
  BY <1>2
<1>3. reminder[k] \in Delivery /\ reminder[k].chat \in Chats /\ reminder[k].tg \in Nat
  <2>1. reminder[k].at # "none" /\ reminder[k] \in {None} \union Delivery
    BY DEF Remember, TakeOver, Name, Link, TypeOK
  <2> QED BY <2>1, SMTT(30) DEF None, Delivery
<1>4. reminder' \in [ReminderIds -> {None} \union Delivery]
  <2>1. \A at \in {"stored", "named", "over"} : [reminder[k] EXCEPT !.at = at] \in Delivery
    BY <1>3 DEF Delivery
  <2>2. \E at \in {"stored", "named", "over"} : reminder' = [reminder EXCEPT ![k].at = at]
    BY DEF Remember, TakeOver, Name, Link
  <2> QED BY <2>1, <2>2, ZenonT(60) DEF TypeOK
<1>5. faults' \in 0..MaxFaults
  <2>1. Fine \/ Fault
    BY DEF Remember, TakeOver, Name, Link, Fine
  <2> QED BY <1>1, <2>1 DEF Fault, Fine
<1>6. memory[reminder[k].chat] \in Seq(Row)
  BY <1>1, <1>3
<1>7. CASE Remember(k)
  <2>1. Append(memory[reminder[k].chat], AssistantRow(k)) \in Seq(Row)
    BY <1>1, <1>6, NewRows
  <2>2. memory' \in [Chats -> Seq(Row)]
    BY <1>1, <1>7, <2>1 DEF Remember
  <2> QED BY <1>4, <1>5, <1>7, <2>2 DEF Remember, TypeOK
<1>8. CASE TakeOver(k)
  <2> DEFINE rows == memory[reminder[k].chat]
  <2>1. /\ Len(rows) \in Nat /\ Len(rows) \in DOMAIN rows /\ rows[Len(rows)] \in Row
        /\ Last(rows) = rows[Len(rows)]
    BY <1>6, <1>8 DEF TakeOver, Last
  <2>2. memory' \in [Chats -> Seq(Row)]
    <3>1. [rows[Len(rows)] EXCEPT !.tg = reminder[k].tg] \in Row
      BY <1>3, <2>1 DEF Row
    <3>2. [rows EXCEPT ![Len(rows)] = [rows[Len(rows)] EXCEPT !.tg = reminder[k].tg]] \in Seq(Row)
      BY <1>6, <2>1, <3>1, ExceptSeq
    <3>3. memory' = [memory EXCEPT ![reminder[k].chat] =
                       [rows EXCEPT ![Len(rows)] = [rows[Len(rows)] EXCEPT !.tg = reminder[k].tg]]]
      BY <1>1, <1>8, SMTT(30) DEF TakeOver
    <3> QED BY <1>1, <3>2, <3>3
  <2>3. unlinked' \subseteq Nat
    BY <1>1, <1>8, <2>1 DEF TakeOver, Row
  <2> QED BY <1>4, <1>5, <1>8, <2>2, <2>3 DEF TakeOver, TypeOK
<1>9. CASE Name(k)
  <2>1. WithRow(memory[reminder[k].chat], k, "tg", reminder[k].tg) \in Seq(Row)
    BY <1>3, <1>6, UpdatedRows
  <2>2. memory' \in [Chats -> Seq(Row)]
    BY <1>1, <1>9, <2>1 DEF Name
  <2> QED BY <1>4, <1>5, <1>9, <2>2 DEF Name, TypeOK
<1>10. CASE Link(k)
  <2>1. WithRow(memory[reminder[k].chat], k, "ctx", k) \in Seq(Row)
    BY <1>1, <1>6, UpdatedRows
  <2>2. memory' \in [Chats -> Seq(Row)]
    BY <1>1, <1>10, <2>1 DEF Link
  <2> QED BY <1>4, <1>5, <1>10, <2>2 DEF Link, TypeOK
<1> QED BY <1>7, <1>8, <1>9, <1>10
-----------------------------------------------------------------------------
(* The chat implements the pool *)

(* Every step of the chat is a step of the pool or leaves it alone. *)
LEMMA StepOfPool == TypeOK /\ [Next]_vars => [PoolNext]_pool
<1> SUFFICES ASSUME TypeOK, [Next]_vars PROVE [PoolNext]_pool
  OBVIOUS
<1>1. ASSUME NEW c \in Chats, NEW kind \in Kinds, Quiet(Write(c, kind))
      PROVE  PoolNext
  <2>1. PICK re \in {0} \union {x.tg : x \in {y \in shown : y.chat = c}} : Send(c, kind, re)
    BY <1>1 DEF Quiet, Write
  <2>2. re \in Nat
    BY <2>1 DEF TypeOK, Message
  <2> QED BY <2>1, <2>2 DEF PoolNext
<1>2. CASE Quiet(Dispatch) \/ StopBot
  BY <1>2 DEF Quiet, StopBot, PoolNext
<1>3. ASSUME NEW w \in Workers, Work(w)
      PROVE  PoolNext \/ UNCHANGED pool
  <2>1. CASE Quiet(Take(w)) \/ Quiet(Enter(w))
    BY <2>1 DEF Quiet, PoolNext
  <2>2. CASE Finish(w)
    BY <2>2 DEF Finish, PoolNext
  <2>3. CASE \/ Restart(w) \/ Refuse(w) \/ Ask(w) \/ GiveUp(w) \/ Receive(w)
             \/ Show(w) \/ Record(w)
    BY <2>3 DEF Restart, Refuse, Ask, GiveUp, Receive, Show, Record
  <2> QED BY <1>3, <2>1, <2>2, <2>3 DEF Work, Step
<1>4. ASSUME NEW u \in Updates, Serve(u)
      PROVE  UNCHANGED pool
  BY <1>4, SMTT(30) DEF Serve, Accept, Trim, Lookup, LookupAnew, Save, SaveContext, Fail
<1>5. ASSUME NEW k \in ReminderIds,
             \/ \E c \in Chats : Remind(k, c)
             \/ Remember(k) \/ TakeOver(k) \/ Name(k) \/ Link(k)
      PROVE  UNCHANGED pool
  BY <1>5 DEF Remind, Remember, TakeOver, Name, Link
<1>6. CASE UNCHANGED vars
  BY <1>6 DEF vars
<1> QED BY <1>1, <1>2, <1>3, <1>4, <1>5, <1>6 DEF Next

LEMMA NextTyped == TypeOK /\ LineWaits /\ [Next]_vars => TypeOK'
<1> SUFFICES ASSUME TypeOK, LineWaits, [Next]_vars PROVE TypeOK'
  OBVIOUS
<1>1. PoolTypeOK'
  BY StepOfPool, NextTypes DEF TypeOK
<1>2. ASSUME UNCHANGED chat
      PROVE  TypeOK'
  BY <1>1, <1>2 DEF chat, TypeOK
<1>3. ASSUME NEW c \in Chats, NEW kind \in Kinds, Quiet(Write(c, kind))
      PROVE  TypeOK'
  BY <1>2, <1>3 DEF Quiet
<1>4. CASE Quiet(Dispatch) \/ UNCHANGED vars
  BY <1>2, <1>4 DEF Quiet, vars
<1>5. CASE StopBot
  <2>1. Start \in Task
    BY TaskEnds
  <2>2. unlinked' \subseteq Nat /\ faults' \in 0..MaxFaults
    <3>1. \A w \in Workers : task[w].tg \in Nat
      BY DEF TypeOK, Task
    <3>2. unlinked' \subseteq Nat
      BY <1>5, <3>1 DEF StopBot, TypeOK
    <3>3. faults' \in 0..MaxFaults
      BY <1>5, MemoryAssumption DEF StopBot, Fault, TypeOK
    <3> QED BY <3>2, <3>3
  <2> QED BY <1>1, <1>5, <2>1, <2>2 DEF StopBot, TypeOK
<1>6. ASSUME NEW w \in Workers, Work(w)
      PROVE  TypeOK'
  BY <1>1, <1>2, <1>6, StepTyped DEF Work, Quiet
<1> QED BY <1>1, <1>3, <1>4, <1>5, <1>6, ServeTyped, ReminderTyped DEF Next

-----------------------------------------------------------------------------
(* What links a message to the answer it shows *)

Answers(c)   == {row \in Range(memory[c]) : row.role = "assistant"}
AnswersOf(t) == {row \in UNION {Answers(c) : c \in Chats} : row.of = t}
ShownOf(t)   == {x \in shown : x.of = t}
Unseen(t)    == AnswersOf(t) = {} /\ ShownOf(t) = {}

(* Only a worker that runs has begun with its update.                      *)
StartInv == \A w \in Workers : worker[w].pc # "running" => task[w].at = "start"

(* What is known of an update was made by the one worker that had it.      *)
AskedInv ==
  \A u \in Updates :
    request[u] # None \/ ~Unseen(u) =>
      Past(u) /\ \A w \in Taken : U(w).id = u => task[w].at # "start"

(* No two texts are shown by one message.                                  *)
NumberInv ==
  /\ \A x \in shown : x.tg \in 1..posted
  /\ \A x, y \in shown : x.tg = y.tg => x = y

Replyable(re) == re = 0 \/ \E x \in shown : x.tg = re

(* Users reply to what they have been shown.                               *)
ReplyInv ==
  /\ \A i \in DOMAIN incoming : Replyable(incoming[i].re)
  /\ \A i \in DOMAIN queue : Replyable(queue[i].re)
  /\ \A w \in Taken : Replyable(U(w).re)
  /\ \A u \in Updates : request[u] # None => Replyable(request[u].re)

(* How far an answer is: its row is written before it is shown, and both   *)
(* name the context of the request.                                        *)
StageInv ==
  /\ \A u \in Updates :
       /\ request[u].at \in {"sent", "kept", "accepted", "names", "found"} => Unseen(u)
       /\ request[u].at \in {"stored", "trimmed", "saved"} =>
            ShownOf(u) = {} /\ \A row \in AnswersOf(u) : row.ctx \in {0, request[u].ctx}
  /\ \A w \in Workers : task[w].at = "answered" =>
       /\ request[U(w).id] = None /\ ShownOf(U(w).id) = {}
       /\ \A row \in AnswersOf(U(w).id) : row.ctx \in {0, task[w].ctx}

(* Before a reminder is sent nothing of it is there; a message of its other *)
(* than the one it remembers is known not to be linked.                    *)
ReminderInv ==
  \A k \in ReminderIds :
    /\ reminder[k].at \in {"none", "posted"} => AnswersOf(k) = {}
    /\ reminder[k].at = "none" => ShownOf(k) = {}
    /\ reminder[k].at \in {"posted", "stored", "named"} =>
         \E x \in ShownOf(k) : x.tg = reminder[k].tg
    /\ \A x \in ShownOf(k) : /\ x.chat = reminder[k].chat /\ x.ctx = k
                             /\ (x.tg = reminder[k].tg \/ x.tg \in unlinked)

TakenOver(t) == t \in ReminderIds /\ reminder[t].at = "over" /\ AnswersOf(t) = {}

(* A row's message shows the row's text or a reminder without a row, and   *)
(* its context is that of its text.                                        *)
RowInv ==
  \A c \in Chats : \A row \in Answers(c) :
    /\ row.tg # 0 => \E x \in shown : x.tg = row.tg /\ (x.of = row.of \/ TakenOver(x.of))
    /\ \A x \in ShownOf(row.of) : row.ctx \in {0, x.ctx}

BeingRecorded(x) ==
  \E w \in Workers : /\ task[w].at = "shown" /\ task[w].tg = x.tg
                     /\ U(w).id = x.of /\ ChatOf(w) = x.chat

(* The rows of a text that is shown have its message, will have it, or     *)
(* the message is known not to be linked.                                  *)
LinkInv ==
  \A x \in shown : \A row \in Answers(x.chat) : row.of = x.of =>
    \/ x.tg \in unlinked \/ row.tg = x.tg \/ BeingRecorded(x)
    \/ x.of \in ReminderIds /\ reminder[x.of].at # "named" /\ row.ctx = 0

(* While a message is being recorded nobody in its chat asks about it: the *)
(* worker holds the token.                                                 *)
ShowInv ==
  \A w \in Workers : task[w].at = "shown" =>
    /\ \E x \in ShownOf(U(w).id) : x.tg = task[w].tg
    /\ \A x \in ShownOf(U(w).id) : x.tg = task[w].tg \/ x.tg \in unlinked
    /\ \A u \in Updates :
         request[u].at \in {"sent", "kept", "accepted"} /\ request[u].chat = ChatOf(w)
           => request[u].re # task[w].tg

FollowInv ==
  /\ StartInv /\ AskedInv /\ NumberInv /\ ReplyInv /\ StageInv /\ ReminderInv
  /\ RowInv /\ LinkInv /\ ShowInv

ChatInv == TypeOK /\ TokenInv /\ OrderInv /\ FollowInv

(* What WithRow makes of a row, if it hits it.                             *)
Changed(row, old, hit, field, value) ==
  /\ row.of = old.of
  /\ row.tg = IF hit /\ field = "tg" THEN value ELSE old.tg
  /\ row.ctx = IF hit /\ field = "ctx" THEN value ELSE old.ctx

(* No row of an answer is new but in its message.                          *)
TextsKept ==
  \A c \in Chats : \A row \in Answers(c)' :
    \E old \in Answers(c) : old.of = row.of /\ old.ctx = row.ctx

LEMMA InitFollow == Init => OrderInv /\ FollowInv
<1> SUFFICES ASSUME Init PROVE OrderInv /\ FollowInv
  OBVIOUS
<1>1. OrderInv
  BY InitOrder DEF Init
<1>2. \A c \in Chats : Answers(c) = {}
  BY DEF Init, Answers, Range
<1>3. \A t : AnswersOf(t) = {} /\ ShownOf(t) = {}
  BY <1>2 DEF Init, AnswersOf, ShownOf
<1>4. /\ \A w \in Workers : task[w].at = "start"
      /\ incoming = <<>> /\ queue = <<>> /\ Taken = {} /\ shown = {}
      /\ \A u \in Updates : request[u] = None /\ request[u].at = "none"
      /\ \A k \in ReminderIds : reminder[k].at = "none"
  BY DEF Init, PoolInit, Start, None, Taken, At, Idle
<1>5. StartInv /\ AskedInv /\ NumberInv /\ ReplyInv
  BY <1>3, <1>4 DEF StartInv, AskedInv, NumberInv, ReplyInv, Unseen
<1>6. StageInv /\ ReminderInv
  BY <1>3, <1>4 DEF StageInv, ReminderInv, Unseen
<1>7. RowInv /\ LinkInv /\ ShowInv
  BY <1>2, <1>4 DEF RowInv, LinkInv, ShowInv
<1> QED BY <1>1, <1>5, <1>6, <1>7 DEF FollowInv

-----------------------------------------------------------------------------
(* What the steps do to the rows *)

LEMMA AnswerTypes ==
  ASSUME TypeOK
  PROVE  /\ \A c \in Chats : Answers(c) \subseteq Row
         /\ \A t : AnswersOf(t) \subseteq Row
<1>1. ASSUME NEW c \in Chats PROVE Answers(c) \subseteq Row
  <2>1. memory[c] \in Seq(Row)
    BY DEF TypeOK
  <2> QED BY <2>1, RangeOfSeq DEF Answers
<1> QED BY <1>1 DEF AnswersOf

LEMMA SameAnswers ==
  ASSUME memory' = memory
  PROVE  /\ \A c \in Chats : Answers(c)' = Answers(c)
         /\ \A t : AnswersOf(t)' = AnswersOf(t)
         /\ TextsKept
<1>1. \A c \in Chats : Answers(c)' = Answers(c)
  BY DEF Answers
<1>2. \A t : AnswersOf(t)' = AnswersOf(t)
  BY <1>1 DEF AnswersOf
<1> QED BY <1>1, <1>2 DEF TextsKept

LEMMA TrimmedRange ==
  ASSUME NEW S, NEW rows \in Seq(S)
  PROVE  Range(Trimmed(rows)) \subseteq Range(rows)
<1>1. CASE Len(rows) < MaxBefore
  BY <1>1 DEF Trimmed
<1>2. CASE ~(Len(rows) < MaxBefore)
  <2> DEFINE m == Len(rows) - Keep + 1
  <2>1. Len(rows) \in Nat /\ m \in 1..Len(rows) /\ Len(rows) - m + 1 = Keep /\ Keep \in Nat \ {0}
    BY <1>2, MemoryAssumption
  <2>2. \A i \in m..Len(rows) : rows[i] \in S
    BY <2>1
  <2>3. /\ SubSeq(rows, m, Len(rows)) \in Seq(S) /\ Len(SubSeq(rows, m, Len(rows))) = Keep
        /\ \A i \in 1..Keep : SubSeq(rows, m, Len(rows))[i] = rows[m + i - 1]
    <3> HIDE DEF m
    <3>1. m \in Int /\ Len(rows) \in Int
      BY <2>1
    <3> QED BY <2>1, <2>2, <3>1, SubSeqProperties
  <2>4. \A i \in 1..Keep : m + i - 1 \in 1..Len(rows)
    BY <2>1
  <2>5. DOMAIN SubSeq(rows, m, Len(rows)) = 1..Keep /\ DOMAIN rows = 1..Len(rows)
    BY <2>3
  <2>6. Trimmed(rows) = SubSeq(rows, m, Len(rows))
    BY <1>2 DEF Trimmed
  <2> HIDE DEF m
  <2> QED BY <2>3, <2>4, <2>5, <2>6 DEF Range
<1> QED BY <1>1, <1>2

(* A row is appended. *)
LEMMA AddedAnswers ==
  ASSUME TypeOK, NEW c0 \in Chats, NEW new \in Row,
         memory' = [memory EXCEPT ![c0] = Append(memory[c0], new)]
  PROVE  \A c \in Chats : \A row \in Answers(c)' :
           row \in Answers(c) \/ (c = c0 /\ row = new /\ new.role = "assistant")
<1> DEFINE longer == Append(memory[c0], new)
<1>1. memory \in [Chats -> Seq(Row)] /\ memory[c0] \in Seq(Row)
  BY DEF TypeOK
<1>2. \A row \in Range(longer) : row \in Range(memory[c0]) \/ row = new
  <2>1. /\ longer \in Seq(Row) /\ Len(longer) = Len(memory[c0]) + 1
        /\ \A i \in 1..Len(memory[c0]) : longer[i] = memory[c0][i]
        /\ longer[Len(memory[c0]) + 1] = new
    BY <1>1, AppendProperties
  <2>2. DOMAIN longer = 1..Len(longer) /\ DOMAIN memory[c0] = 1..Len(memory[c0])
        /\ Len(memory[c0]) \in Nat
    BY <1>1, <2>1
  <2>3. \A i \in DOMAIN longer : i \in DOMAIN memory[c0] \/ i = Len(memory[c0]) + 1
    BY <2>1, <2>2
  <2> HIDE DEF longer
  <2> QED BY <2>1, <2>2, <2>3 DEF Range
<1>3. memory'[c0] = longer /\ \A c \in Chats : c # c0 => memory'[c] = memory[c]
  BY <1>1
<1> HIDE DEF longer
<1> QED BY <1>2, <1>3 DEF Answers

(* The rows of one text are changed in one field. *)
LEMMA ChangedAnswers ==
  ASSUME TypeOK, NEW c0 \in Chats, NEW t, NEW field, field = "tg" \/ field = "ctx", NEW value,
         memory' = [memory EXCEPT ![c0] = WithRow(memory[c0], t, field, value)]
  PROVE  \A c \in Chats : \A row \in Answers(c)' :
           \E old \in Answers(c) : Changed(row, old, c = c0 /\ old.of = t, field, value)
<1>1. memory \in [Chats -> Seq(Row)] /\ memory[c0] \in Seq(Row)
  BY DEF TypeOK
<1>2. \A i \in DOMAIN memory[c0] : memory[c0][i] \in Row
  BY <1>1
<1>3. \A old \in Row : [old EXCEPT ![field] = value].role = old.role
  BY DEF Row
<1>4. ASSUME NEW c \in Chats, c # c0, NEW row \in Answers(c)'
      PROVE  \E old \in Answers(c) : Changed(row, old, c = c0 /\ old.of = t, field, value)
  <2>1. row \in Answers(c)
    BY <1>1, <1>4 DEF Answers
  <2>2. Changed(row, row, c = c0 /\ row.of = t, field, value)
    BY <1>4 DEF Changed
  <2> QED BY <2>1, <2>2
<1>5. ASSUME NEW row \in Answers(c0)'
      PROVE  \E old \in Answers(c0) :
               row = IF old.of = t THEN [old EXCEPT ![field] = value] ELSE old
  <2>1. PICK i \in DOMAIN memory[c0] :
          row = IF memory[c0][i].role = "assistant" /\ memory[c0][i].of = t
                  THEN [memory[c0][i] EXCEPT ![field] = value] ELSE memory[c0][i]
    BY <1>1, <1>5 DEF Answers, Range, WithRow
  <2>2. row.role = "assistant"
    BY <1>5 DEF Answers
  <2>3. memory[c0][i].role = "assistant"
    BY <1>2, <1>3, <2>1, <2>2
  <2>4. memory[c0][i] \in Answers(c0)
    BY <2>3 DEF Answers, Range
  <2> QED BY <2>1, <2>3, <2>4
<1>6. \A old \in Row : Changed([old EXCEPT ![field] = value], old, TRUE, field, value)
  BY DEF Row, Changed
<1>7. ASSUME NEW row \in Answers(c0)'
      PROVE  \E old \in Answers(c0) : Changed(row, old, c0 = c0 /\ old.of = t, field, value)
  <2>1. PICK old \in Answers(c0) :
          row = IF old.of = t THEN [old EXCEPT ![field] = value] ELSE old
    BY <1>5
  <2>2. old \in Row
    BY AnswerTypes
  <2>3. CASE old.of = t
    <3>1. Changed(row, old, TRUE, field, value)
      BY <1>6, <2>1, <2>2, <2>3
    <3>2. Changed(row, old, c0 = c0 /\ old.of = t, field, value)
      BY <2>3, <3>1 DEF Changed
    <3> QED BY <3>2
  <2>4. CASE old.of # t
    <3>1. Changed(row, old, c0 = c0 /\ old.of = t, field, value)
      BY <2>1, <2>4 DEF Changed
    <3> QED BY <3>1
  <2> QED BY <2>3, <2>4
<1> QED BY <1>4, <1>7

(* The last row gets another message. *)
LEMMA TakenOverAnswers ==
  ASSUME TypeOK, NEW k \in ReminderIds, TakeOver(k)
  PROVE  /\ reminder[k] \in Delivery /\ reminder[k].chat \in Chats
         /\ \A c \in Chats : \A row \in Answers(c)' :
              \/ row \in Answers(c)
              \/ c = reminder[k].chat /\ \E old \in Answers(c) :
                   row = [old EXCEPT !.tg = reminder[k].tg] /\ old.tg \in unlinked'
<1>1. reminder[k] \in Delivery /\ reminder[k].chat \in Chats
  <2>1. reminder[k].at # "none" /\ reminder[k] \in {None} \union Delivery
    BY DEF TakeOver, TypeOK
  <2> QED BY <2>1 DEF None, Delivery
<1>2. PICK c0 \in Chats : c0 = reminder[k].chat
  BY <1>1
<1> DEFINE last == Len(memory[c0])
<1>7. memory \in [Chats -> Seq(Row)] /\ memory[c0] \in Seq(Row)
  BY <1>1 DEF TypeOK
<1>3. last \in DOMAIN memory[c0] /\ Last(memory[c0]) = memory[c0][last]
      /\ memory[c0][last] \in Answers(c0) /\ memory[c0][last].tg \in unlinked'
  BY <1>2, <1>7 DEF TakeOver, Last, Answers, Range
<1>4. memory'[c0] = [memory[c0] EXCEPT ![last] = [memory[c0][last] EXCEPT !.tg = reminder[k].tg]]
      /\ \A c \in Chats : c # c0 => memory'[c] = memory[c]
  BY <1>2, <1>7 DEF TakeOver
<1>5. ASSUME NEW c \in Chats, NEW row \in Answers(c)', c # c0
      PROVE  row \in Answers(c)
  BY <1>4, <1>5 DEF Answers
<1>6. ASSUME NEW row \in Answers(c0)'
      PROVE  \/ row \in Answers(c0)
             \/ row = [memory[c0][last] EXCEPT !.tg = reminder[k].tg]
  <2>1. PICK i \in DOMAIN memory'[c0] : row = memory'[c0][i] /\ row.role = "assistant"
    BY <1>6, <1>4 DEF Answers, Range, TakeOver
  <2>2. i \in DOMAIN memory[c0]
        /\ row = IF i = last THEN [memory[c0][last] EXCEPT !.tg = reminder[k].tg] ELSE memory[c0][i]
    BY <1>3, <1>4, <2>1
  <2> QED BY <2>1, <2>2 DEF Answers, Range
<1> QED BY <1>1, <1>2, <1>3, <1>5, <1>6

(* The rows after the steps that write the memory. *)
LEMMA RecordRows ==
  ASSUME TypeOK, NEW w \in Workers, Record(w),
         memory' # memory \/ task[w].tg \notin unlinked',
         NEW c \in Chats, NEW row \in Answers(c)'
  PROVE  \E old \in Answers(c) :
           Changed(row, old, c = ChatOf(w) /\ old.of = U(w).id, "tg", task[w].tg)
<1>1. ChatOf(w) \in Chats
  <2>1. worker[w] \in Busy
    BY BusyWorker DEF Record, On, TypeOK
  <2> QED BY <2>1 DEF Busy, Update, ChatOf
<1>2. PICK c0, t, field, value :
        c0 \in Chats /\ c0 = ChatOf(w) /\ t = U(w).id /\ field = "tg" /\ value = task[w].tg
  BY <1>1
<1>3. memory' = [memory EXCEPT ![c0] = WithRow(memory[c0], t, field, value)]
  BY <1>2 DEF Record
<1>4. c0 \in Chats /\ (field = "tg" \/ field = "ctx")
  BY <1>2
<1>5. \A d \in Chats : \A r \in Answers(d)' : \E old \in Answers(d) :
        Changed(r, old, d = c0 /\ old.of = t, field, value)
  BY <1>3, <1>4, ChangedAnswers
<1>6. PICK old \in Answers(c) : Changed(row, old, c = c0 /\ old.of = t, field, value)
  BY <1>5
<1> QED BY <1>2, <1>6

LEMMA NameRows ==
  ASSUME TypeOK, NEW k \in ReminderIds, Name(k),
         memory' # memory \/ reminder'[k].at = "named",
         NEW c \in Chats, NEW row \in Answers(c)'
  PROVE  \E old \in Answers(c) :
           Changed(row, old, c = reminder[k].chat /\ old.of = k, "tg", reminder[k].tg)
<1>1. reminder[k].chat \in Chats
  BY DEF Name, TypeOK, None, Delivery
<1>2. PICK c0, t, field, value :
        c0 \in Chats /\ c0 = reminder[k].chat /\ t = k /\ field = "tg" /\ value = reminder[k].tg
  BY <1>1
<1>3. memory' = [memory EXCEPT ![c0] = WithRow(memory[c0], t, field, value)]
  <2>1. CASE memory' # memory
    BY <1>2, <2>1 DEF Name
  <2>2. CASE reminder'[k].at = "named"
    <3>1. reminder' # [reminder EXCEPT ![k].at = "over"]
      BY <2>2 DEF Name, TypeOK, Delivery, None
    <3> QED BY <1>2, <3>1 DEF Name
  <2> QED BY <2>1, <2>2
<1>4. c0 \in Chats /\ (field = "tg" \/ field = "ctx")
  BY <1>2
<1>5. \A d \in Chats : \A r \in Answers(d)' : \E old \in Answers(d) :
        Changed(r, old, d = c0 /\ old.of = t, field, value)
  BY <1>3, <1>4, ChangedAnswers
<1>6. PICK old \in Answers(c) : Changed(row, old, c = c0 /\ old.of = t, field, value)
  BY <1>5
<1> QED BY <1>2, <1>6

LEMMA LinkRows ==
  ASSUME TypeOK, NEW k \in ReminderIds, Link(k), memory' # memory,
         NEW c \in Chats, NEW row \in Answers(c)'
  PROVE  \E old \in Answers(c) :
           Changed(row, old, c = reminder[k].chat /\ old.of = k, "ctx", k)
<1>1. reminder[k].chat \in Chats
  BY DEF Link, TypeOK, None, Delivery
<1>2. PICK c0, field : c0 \in Chats /\ c0 = reminder[k].chat /\ field = "ctx"
  BY <1>1
<1>3. memory' = [memory EXCEPT ![c0] = WithRow(memory[c0], k, field, k)]
  BY <1>2 DEF Link
<1>4. c0 \in Chats /\ (field = "tg" \/ field = "ctx")
  BY <1>2
<1>5. \A d \in Chats : \A r \in Answers(d)' : \E old \in Answers(d) :
        Changed(r, old, d = c0 /\ old.of = k, field, k)
  BY <1>3, <1>4, ChangedAnswers
<1>6. PICK old \in Answers(c) : Changed(row, old, c = c0 /\ old.of = k, field, k)
  BY <1>5
<1> QED BY <1>2, <1>6

LEMMA ContextRows ==
  ASSUME TypeOK, NEW u \in Updates, SaveContext(u), memory' # memory,
         NEW c \in Chats, NEW row \in Answers(c)'
  PROVE  \E old \in Answers(c) :
           Changed(row, old, c = request[u].chat /\ old.of = u, "ctx", request[u].ctx)
<1>1. request[u].chat \in Chats
  BY DEF SaveContext, TypeOK, None, Call
<1>2. PICK c0, field, value :
        c0 \in Chats /\ c0 = request[u].chat /\ field = "ctx" /\ value = request[u].ctx
  BY <1>1
<1>3. memory' = [memory EXCEPT ![c0] = WithRow(memory[c0], u, field, value)]
  BY <1>2 DEF SaveContext
<1>4. c0 \in Chats /\ (field = "tg" \/ field = "ctx")
  BY <1>2
<1>5. \A d \in Chats : \A r \in Answers(d)' : \E old \in Answers(d) :
        Changed(r, old, d = c0 /\ old.of = u, field, value)
  BY <1>3, <1>4, ChangedAnswers
<1>6. PICK old \in Answers(c) : Changed(row, old, c = c0 /\ old.of = u, field, value)
  BY <1>5
<1> QED BY <1>2, <1>6

LEMMA AcceptRows ==
  ASSUME TypeOK, NEW u \in Updates, Accept(u)
  PROVE  \A c \in Chats : \A row \in Answers(c)' : row \in Answers(c)
<1>1. request[u].chat \in Chats
  BY DEF Accept, TypeOK, None, Call
<1>2. PICK c0 \in Chats, new \in Row : c0 = request[u].chat /\ new = UserRow(u)
  <2>1. UserRow(u) \in Row
    BY NewRows DEF Texts
  <2> QED BY <1>1, <2>1
<1>3. new.role = "user"
  BY <1>2 DEF UserRow
<1>4. CASE memory' = memory
  BY <1>4, SameAnswers
<1>5. CASE memory' # memory
  <2>1. memory' = [memory EXCEPT ![c0] = Append(memory[c0], new)]
    BY <1>2, <1>5 DEF Accept
  <2>2. \A c \in Chats : \A row \in Answers(c)' :
          row \in Answers(c) \/ (c = c0 /\ row = new /\ new.role = "assistant")
    BY <2>1, AddedAnswers
  <2> QED BY <1>3, <2>2
<1> QED BY <1>4, <1>5

LEMMA TrimRows ==
  ASSUME TypeOK, NEW u \in Updates, Trim(u)
  PROVE  \A c \in Chats : \A row \in Answers(c)' : row \in Answers(c)
<1>1. request[u].chat \in Chats
  <2>1. request[u].at # "none"
    BY DEF Trim
  <2> QED BY <2>1 DEF TypeOK, None, Call
<1>2. PICK c0 \in Chats : c0 = request[u].chat
  BY <1>1
<1>3. memory \in [Chats -> Seq(Row)] /\ Range(Trimmed(memory[c0])) \subseteq Range(memory[c0])
  BY TrimmedRange DEF TypeOK
<1>4. CASE memory' = memory
  BY <1>4, SameAnswers
<1>5. CASE memory' # memory
  <2>1. memory' = [memory EXCEPT ![c0] = Trimmed(memory[c0])]
    BY <1>2, <1>5 DEF Trim
  <2>2. \A c \in Chats : Range(memory'[c]) \subseteq Range(memory[c])
    BY <1>3, <2>1
  <2> QED BY <2>2 DEF Answers
<1> QED BY <1>4, <1>5

LEMMA SaveRows ==
  ASSUME TypeOK, NEW u \in Updates, Save(u)
  PROVE  \A c \in Chats : \A row \in Answers(c)' :
           row \in Answers(c) \/ (row.of = u /\ row.tg = 0 /\ row.ctx = 0)
<1>1. request[u].chat \in Chats
  BY DEF Save, TypeOK, None, Call
<1>2. PICK c0 \in Chats, new \in Row : c0 = request[u].chat /\ new = AssistantRow(u)
  <2>1. AssistantRow(u) \in Row
    BY NewRows DEF Texts
  <2> QED BY <1>1, <2>1
<1>3. new.of = u /\ new.tg = 0 /\ new.ctx = 0
  BY <1>2 DEF AssistantRow
<1>4. CASE memory' = memory
  BY <1>4, SameAnswers
<1>5. CASE memory' # memory
  <2>1. memory' = [memory EXCEPT ![c0] = Append(memory[c0], new)]
    BY <1>2, <1>5 DEF Save
  <2>2. \A c \in Chats : \A row \in Answers(c)' :
          row \in Answers(c) \/ (c = c0 /\ row = new /\ new.role = "assistant")
    BY <2>1, AddedAnswers
  <2> QED BY <1>3, <2>2
<1> QED BY <1>4, <1>5

LEMMA RememberRows ==
  ASSUME TypeOK, NEW k \in ReminderIds, Remember(k)
  PROVE  \A c \in Chats : \A row \in Answers(c)' :
           row \in Answers(c) \/ (row.of = k /\ row.tg = 0 /\ row.ctx = 0)
<1>1. reminder[k].chat \in Chats
  BY DEF Remember, TypeOK, None, Delivery
<1>2. PICK c0 \in Chats, new \in Row : c0 = reminder[k].chat /\ new = AssistantRow(k)
  <2>1. AssistantRow(k) \in Row
    BY NewRows DEF Texts
  <2> QED BY <1>1, <2>1
<1>3. new.of = k /\ new.tg = 0 /\ new.ctx = 0
  BY <1>2 DEF AssistantRow
<1>4. CASE memory' = memory
  BY <1>4, SameAnswers
<1>5. CASE memory' # memory
  <2>1. memory' = [memory EXCEPT ![c0] = Append(memory[c0], new)]
    BY <1>2, <1>5 DEF Remember
  <2>2. \A c \in Chats : \A row \in Answers(c)' :
          row \in Answers(c) \/ (c = c0 /\ row = new /\ new.role = "assistant")
    BY <2>1, AddedAnswers
  <2> QED BY <1>3, <2>2
<1> QED BY <1>4, <1>5

-----------------------------------------------------------------------------
(* What stays in a step *)

LEMMA DisjointTexts == \A u \in Updates : u \notin ReminderIds /\ u \in Nat \ {0}
BY PoolAssumption, MemoryAssumption DEF Updates, ReminderIds

LEMMA Running ==
  ASSUME TypeOK, NEW w \in Workers, worker[w].pc = "running"
  PROVE  U(w).id \in Updates /\ ChatOf(w) \in Chats /\ U(w).re \in Nat /\ w \in Taken
<1>1. worker[w] \in Busy
  BY BusyWorker DEF TypeOK
<1> QED BY <1>1 DEF Busy, Update, U, ChatOf, Updates, Taken, At

LEMMA CallOf ==
  ASSUME TypeOK, NEW u \in Updates, request[u].at # "none"
  PROVE  request[u] \in Call
BY DEF TypeOK, None

(* A request is served to the next stage, or dropped; only a lookup gives  *)
(* it a context.                                                           *)
LEMMA Served ==
  ASSUME TypeOK, NEW u \in Updates, Serve(u)
  PROVE  /\ request[u] \in Call /\ request[u] # None
         /\ Fail(u) => request'[u] = None
         /\ ~Fail(u) => request'[u].chat = request[u].chat /\ request'[u].re = request[u].re
         /\ ~Fail(u) /\ ~Lookup(u) /\ ~LookupAnew(u) => request'[u].ctx = request[u].ctx
         /\ Accept(u) => request'[u].at = "kept" /\ request[u].at = "sent"
         /\ Trim(u) => \/ request'[u].at \in {"accepted", "names"} /\ request[u].at = "kept"
                       \/ request'[u].at = "trimmed" /\ request[u].at = "stored"
         /\ Lookup(u) \/ LookupAnew(u) => request'[u].at = "found" /\ request[u].at = "accepted"
         /\ Save(u) => request'[u].at = "stored" /\ request[u].at \in {"found", "names"}
         /\ SaveContext(u) => request'[u].at = "saved" /\ request[u].at = "trimmed"
<1>1. request[u] \in Call /\ request[u] # None /\ request \in [Updates -> {None} \union Call]
  <2>1. request[u].at # "none"
    BY DEF Serve, Accept, Trim, Lookup, LookupAnew, Save, SaveContext, Fail
  <2> QED BY <2>1, CallOf DEF None, TypeOK
<1>2. ASSUME NEW at, request' = [request EXCEPT ![u].at = at]
      PROVE  /\ request'[u].at = at /\ request'[u].chat = request[u].chat
             /\ request'[u].re = request[u].re /\ request'[u].ctx = request[u].ctx
  BY <1>1, <1>2 DEF Call
<1>3. ASSUME NEW ctx, request' = [request EXCEPT ![u].at = "found", ![u].ctx = ctx]
      PROVE  /\ request'[u].at = "found" /\ request'[u].chat = request[u].chat
             /\ request'[u].re = request[u].re
  BY <1>1, <1>3 DEF Call
<1>4. Accept(u) => request[u].at = "sent" /\ request' = [request EXCEPT ![u].at = "kept"]
  BY DEF Accept
<1>5. Trim(u) => \E at : /\ request' = [request EXCEPT ![u].at = at]
                        /\ \/ request[u].at = "kept" /\ at \in {"accepted", "names"}
                           \/ request[u].at = "stored" /\ at = "trimmed"
  BY TrimSteps
<1>6. Lookup(u) \/ LookupAnew(u) =>
        /\ request[u].at = "accepted"
        /\ \E ctx : request' = [request EXCEPT ![u].at = "found", ![u].ctx = ctx]
  BY DEF Lookup, LookupAnew
<1>7. Save(u) => /\ request[u].at \in {"found", "names"}
                 /\ request' = [request EXCEPT ![u].at = "stored"]
  BY DEF Save
<1>8. SaveContext(u) => /\ request[u].at = "trimmed"
                        /\ request' = [request EXCEPT ![u].at = "saved"]
  BY DEF SaveContext
<1>9. Fail(u) => request'[u] = None
  BY <1>1 DEF Fail
<1> QED BY <1>1, <1>2, <1>3, <1>4, <1>5, <1>6, <1>7, <1>8, <1>9 DEF Serve

LEMMA DeliveryOf ==
  ASSUME TypeOK, NEW k \in ReminderIds, reminder[k].at # "none"
  PROVE  reminder[k] \in Delivery
BY DEF TypeOK, None

LEMMA TaskStays ==
  ASSUME TypeOK, [Next]_vars, NEW w \in Workers
  PROVE  task'[w] = task[w] \/ Step(w) \/ StopBot
<1>1. ASSUME NEW v \in Workers, Work(v) PROVE task'[w] = task[w] \/ Step(w)
  <2>1. CASE Quiet(Take(v)) \/ Quiet(Enter(v))
    BY <2>1 DEF Quiet, chat
  <2>2. CASE Step(v) /\ v # w
    BY <2>2 DEF Step, Restart, Refuse, Ask, GiveUp, Receive, Show, Record, Finish, TypeOK
  <2> QED BY <1>1, <2>1, <2>2 DEF Work
<1>2. ASSUME NEW u \in Updates, Serve(u) PROVE task' = task
  BY <1>2, SMTT(30) DEF Serve, Accept, Trim, Lookup, LookupAnew, Save, SaveContext, Fail
<1>3. ASSUME NEW k \in ReminderIds,
             (\E c \in Chats : Remind(k, c)) \/ Remember(k) \/ TakeOver(k) \/ Name(k) \/ Link(k)
      PROVE  task' = task
  BY <1>3 DEF Remind, Remember, TakeOver, Name, Link
<1>4. ASSUME UNCHANGED chat PROVE task' = task
  BY <1>4 DEF chat
<1> QED BY <1>1, <1>2, <1>3, <1>4 DEF Next, Quiet, vars

LEMMA RequestStays ==
  ASSUME TypeOK, [Next]_vars, NEW u \in Updates
  PROVE  \/ request'[u] = request[u] \/ Serve(u)
         \/ \E w \in Workers : (Ask(w) \/ Receive(w)) /\ U(w).id = u
<1>1. ASSUME NEW v \in Workers, Work(v)
      PROVE  request'[u] = request[u] \/ ((Ask(v) \/ Receive(v)) /\ U(v).id = u)
  <2>1. CASE Quiet(Take(v)) \/ Quiet(Enter(v))
    BY <2>1 DEF Quiet, chat
  <2>2. CASE Restart(v) \/ Refuse(v) \/ GiveUp(v) \/ Show(v) \/ Record(v) \/ Finish(v)
    BY <2>2 DEF Restart, Refuse, GiveUp, Show, Record, Finish
  <2>3. CASE Ask(v) \/ Receive(v)
    BY <2>3 DEF Ask, Receive, TypeOK
  <2> QED BY <1>1, <2>1, <2>2, <2>3 DEF Work, Step
<1>2. ASSUME NEW v \in Updates, Serve(v), v # u PROVE request'[u] = request[u]
  BY <1>2 DEF Serve, Accept, Trim, Lookup, LookupAnew, Save, SaveContext, Fail, TypeOK
<1>3. ASSUME NEW k \in ReminderIds,
             (\E c \in Chats : Remind(k, c)) \/ Remember(k) \/ TakeOver(k) \/ Name(k) \/ Link(k)
      PROVE  request' = request
  BY <1>3 DEF Remind, Remember, TakeOver, Name, Link
<1>4. ASSUME UNCHANGED chat PROVE request' = request
  BY <1>4 DEF chat
<1>5. CASE StopBot
  BY <1>5 DEF StopBot
<1> QED BY <1>1, <1>2, <1>3, <1>4, <1>5 DEF Next, Quiet, vars

LEMMA ReminderStays ==
  ASSUME TypeOK, [Next]_vars, NEW k \in ReminderIds
  PROVE  \/ reminder'[k] = reminder[k] \/ \E c \in Chats : Remind(k, c)
         \/ Remember(k) \/ TakeOver(k) \/ Name(k) \/ Link(k)
<1>1. ASSUME NEW v \in Workers, Work(v) PROVE reminder' = reminder
  BY <1>1 DEF Work, Quiet, chat, Step, Restart, Refuse, Ask, GiveUp, Receive, Show, Record, Finish
<1>2. ASSUME NEW v \in Updates, Serve(v) PROVE reminder' = reminder
  BY <1>2 DEF Serve, Accept, Trim, Lookup, LookupAnew, Save, SaveContext, Fail
<1>3. ASSUME NEW l \in ReminderIds, l # k,
             (\E c \in Chats : Remind(l, c)) \/ Remember(l) \/ TakeOver(l) \/ Name(l) \/ Link(l)
      PROVE  reminder'[k] = reminder[k]
  BY <1>3 DEF Remind, Remember, TakeOver, Name, Link, TypeOK
<1>4. ASSUME UNCHANGED chat PROVE reminder' = reminder
  BY <1>4 DEF chat
<1>5. CASE StopBot
  BY <1>5 DEF StopBot
<1> QED BY <1>1, <1>2, <1>3, <1>4, <1>5 DEF Next, Quiet, vars

LEMMA ShownStays ==
  ASSUME TypeOK, [Next]_vars
  PROVE  /\ shown \subseteq shown'
         /\ \/ shown' = shown
            \/ \E w \in Workers : Show(w)
            \/ \E k \in ReminderIds, c \in Chats : Remind(k, c)
         /\ \A t : \/ ShownOf(t)' = ShownOf(t)
                   \/ \E w \in Workers : Show(w) /\ t = U(w).id
                   \/ \E k \in ReminderIds, c \in Chats : Remind(k, c) /\ t = k
<1>1. ASSUME shown' = shown PROVE \A t : ShownOf(t)' = ShownOf(t)
  BY <1>1 DEF ShownOf
<1>2. ASSUME NEW w \in Workers, Show(w)
      PROVE  shown \subseteq shown' /\ \A t : t # U(w).id => ShownOf(t)' = ShownOf(t)
  BY <1>2 DEF Show, Post, ShownOf
<1>3. ASSUME NEW k \in ReminderIds, NEW c \in Chats, Remind(k, c)
      PROVE  shown \subseteq shown' /\ \A t : t # k => ShownOf(t)' = ShownOf(t)
  BY <1>3 DEF Remind, Post, ShownOf
<1>4. ASSUME NEW v \in Workers, Work(v) PROVE shown' = shown \/ Show(v)
  BY <1>4 DEF Work, Quiet, chat, Step, Restart, Refuse, Ask, GiveUp, Receive, Record, Finish
<1>5. ASSUME NEW v \in Updates, Serve(v) PROVE shown' = shown
  BY <1>5 DEF Serve, Accept, Trim, Lookup, LookupAnew, Save, SaveContext, Fail
<1>6. ASSUME NEW k \in ReminderIds, Remember(k) \/ TakeOver(k) \/ Name(k) \/ Link(k)
      PROVE  shown' = shown
  BY <1>6 DEF Remember, TakeOver, Name, Link
<1>7. ASSUME UNCHANGED chat PROVE shown' = shown
  BY <1>7 DEF chat
<1>8. ASSUME StopBot PROVE shown' = shown
  BY <1>8 DEF StopBot
<1>9. \/ shown' = shown \/ \E w \in Workers : Show(w)
      \/ \E k \in ReminderIds, c \in Chats : Remind(k, c)
  BY <1>4, <1>5, <1>6, <1>7, <1>8 DEF Next, Quiet, vars
<1> QED BY <1>1, <1>2, <1>3, <1>9

(* A worker that has begun keeps its update until it is idle.              *)
LEMMA WorkerStays ==
  ASSUME TypeOK, TokenInv, StartInv, [Next]_vars, NEW w \in Workers
  PROVE  /\ task'[w].at # "start" => worker'[w] = worker[w] /\ worker[w].pc = "running"
         /\ worker'[w].pc # "idle" /\ task[w].at # "start" => task'[w].at # "start"
<1>1. CASE StopBot
  BY <1>1 DEF StopBot, Stop, Start, Idle
<1>2. CASE Step(w) /\ ~Finish(w)
  <2>1. worker' = worker /\ worker[w].pc = "running" /\ task'[w].at # "start"
    <3>1. task \in [Workers -> Task]
      BY DEF TypeOK
    <3>2. CASE Restart(w) \/ Refuse(w) \/ GiveUp(w) \/ Record(w)
      BY <3>1, <3>2 DEF Restart, Refuse, GiveUp, Record, On, Done, pool
    <3>3. CASE Ask(w) \/ Receive(w)
      BY <3>1, <3>3 DEF Ask, Receive, On, Task, pool
    <3>4. CASE Show(w)
      BY <3>1, <3>4 DEF Show, On, Task, Done, pool
    <3> QED BY <1>2, <3>2, <3>3, <3>4 DEF Step
  <2> QED BY <2>1
<1>3. CASE Finish(w)
  <2>1. worker[w].pc = "running" /\ task'[w] = Start /\ Leave(w)
    BY <1>3 DEF Finish, Leave, TypeOK
  <2>2. worker'[w].pc = "idle" \/ worker'[w] = worker[w] \/ Take(w)
    BY <2>1, UpdateKept, StepOfPool DEF TypeOK, TokenInv
  <2>3. worker'[w].pc = "idle"
    <3>1. CASE line[ChatOf(w)] = <<>>
      BY <2>1, <3>1 DEF Leave, TypeOK, PoolTypeOK, Idle
    <3>2. CASE line[ChatOf(w)] # <<>>
      <4> DEFINE h == Head(line[ChatOf(w)])
      <4>1. h \in Workers /\ h # w
        <5>1. ChatOf(w) \in Chats
          BY <2>1, Running
        <5>2. 1 \in DOMAIN line[ChatOf(w)] /\ h = line[ChatOf(w)][1] /\ h \in Workers
          BY <5>1, <3>2 DEF TypeOK, PoolTypeOK
        <5> QED BY <2>1, <5>1, <5>2 DEF TokenInv, LineWaits
      <4>2. worker' = [worker EXCEPT ![w] = Idle, ![h].pc = "running"]
        BY <2>1, <3>2 DEF Leave
      <4> HIDE DEF h
      <4>3. worker'[w] = Idle
        BY <4>1, <4>2 DEF TypeOK, PoolTypeOK
      <4> QED BY <4>3 DEF Idle
    <3> QED BY <3>1, <3>2
  <2> QED BY <2>1, <2>3 DEF Start
<1>4. CASE task'[w] = task[w] /\ task[w].at # "start" /\ ~StopBot /\ ~Finish(w)
  <2>1. worker[w].pc = "running"
    BY <1>4 DEF StartInv
  <2>2. worker'[w].pc # "idle"
    <3>1. ASSUME NEW v \in Workers, v # w, Finish(v) PROVE worker'[w].pc # "idle"
      <4>1. Leave(v)
        BY <3>1 DEF Finish
      <4>2. CASE line[ChatOf(v)] = <<>>
        BY <2>1, <3>1, <4>1, <4>2 DEF Leave, TypeOK, PoolTypeOK
      <4>3. CASE line[ChatOf(v)] # <<>>
        <5> DEFINE h == Head(line[ChatOf(v)])
        <5>1. worker' = [worker EXCEPT ![v] = Idle, ![h].pc = "running"]
          BY <4>1, <4>3 DEF Leave
        <5>2. h \in Workers /\ worker[h].pc = "waiting"
          <6>1. ChatOf(v) \in Chats
            BY <4>1, Running DEF Leave
          <6>2. 1 \in DOMAIN line[ChatOf(v)] /\ h = line[ChatOf(v)][1] /\ h \in Workers
            BY <6>1, <4>3 DEF TypeOK, PoolTypeOK
          <6> QED BY <6>1, <6>2 DEF TokenInv, LineWaits
        <5> HIDE DEF h
        <5>3. worker'[w] = worker[w]
          BY <2>1, <3>1, <5>1, <5>2 DEF TypeOK, PoolTypeOK
        <5> QED BY <2>1, <5>3
      <4> QED BY <4>2, <4>3
    <3>2. ASSUME NEW v \in Workers, Quiet(Take(v)) \/ Quiet(Enter(v)) PROVE worker'[w].pc # "idle"
      <4>1. v # w
        BY <2>1, <3>2 DEF Quiet, Take, Enter
      <4> QED BY <2>1, <3>2, <4>1 DEF Quiet, Take, Enter, TypeOK, PoolTypeOK
    <3>3. ASSUME NEW v \in Workers, Step(v), ~Finish(v) PROVE worker' = worker
      BY <3>3 DEF Step, Restart, Refuse, Ask, GiveUp, Receive, Show, Record, pool
    <3>4. ASSUME NEW c \in Chats, NEW kind \in Kinds, Quiet(Write(c, kind)) PROVE worker' = worker
      BY <3>4 DEF Quiet, Write, Send
    <3>5. CASE Quiet(Dispatch) \/ UNCHANGED vars
      BY <2>1, <3>5 DEF Quiet, Dispatch, vars, pool
    <3>6. ASSUME NEW u \in Updates, Serve(u) PROVE worker' = worker
      BY <3>6 DEF Serve, Accept, Trim, Lookup, LookupAnew, Save, SaveContext, Fail, pool
    <3>7. ASSUME NEW k \in ReminderIds,
                 (\E c \in Chats : Remind(k, c)) \/ Remember(k) \/ TakeOver(k) \/ Name(k) \/ Link(k)
          PROVE  worker' = worker
      BY <3>7 DEF Remind, Remember, TakeOver, Name, Link, pool
    <3> QED BY <1>4, <2>1, <3>1, <3>2, <3>3, <3>4, <3>5, <3>6, <3>7 DEF Next, Work
  <2>3. ~Take(w)
    BY <2>1 DEF Take
  <2> QED BY <1>4, <2>1, <2>2, <2>3, UpdateKept, StepOfPool DEF TypeOK, TokenInv
<1> QED BY <1>1, <1>2, <1>3, <1>4, TaskStays

(* The rows of a text are as they were, but for their message, unless the  *)
(* step makes the text's row or its context.                               *)
LEMMA TextsStay ==
  ASSUME TypeOK, [Next]_vars, NEW t,
         t \in Updates => ~Save(t) /\ ~SaveContext(t), t \in ReminderIds => ~Remember(t) /\ ~Link(t)
  PROVE  \A row \in AnswersOf(t)' : \E old \in AnswersOf(t) : old.ctx = row.ctx
<1> DEFINE Same == \A row \in AnswersOf(t)' : \E old \in AnswersOf(t) : old.ctx = row.ctx
<1>1. ASSUME TextsKept PROVE Same
  <2> TAKE row \in AnswersOf(t)'
  <2>1. PICK c \in Chats : row \in Answers(c)' /\ row.of = t
    BY DEF AnswersOf
  <2>2. PICK old \in Answers(c) : old.of = row.of /\ old.ctx = row.ctx
    BY <1>1, <2>1 DEF TextsKept
  <2> QED BY <2>1, <2>2 DEF AnswersOf
<1>2. ASSUME NEW u,
             \A c \in Chats : \A row \in Answers(c)' :
               \/ \E old \in Answers(c) : old.of = row.of /\ old.ctx = row.ctx
               \/ row.of = u,
             u # t
      PROVE  Same
  <2> TAKE row \in AnswersOf(t)'
  <2>1. PICK c \in Chats : row \in Answers(c)' /\ row.of = t
    BY DEF AnswersOf
  <2>2. PICK old \in Answers(c) : old.of = row.of /\ old.ctx = row.ctx
    BY <1>2, <2>1
  <2> QED BY <2>1, <2>2 DEF AnswersOf
<1> HIDE DEF Same
<1>3. memory' = memory => Same
  BY <1>1, SameAnswers
<1>4. ASSUME NEW w \in Workers, Work(w) PROVE Same
  <2>1. CASE Record(w) /\ memory' # memory
    <3>1. ASSUME NEW c \in Chats, NEW row \in Answers(c)'
          PROVE  \E old \in Answers(c) : old.of = row.of /\ old.ctx = row.ctx
      <4>1. PICK old \in Answers(c) :
              Changed(row, old, c = ChatOf(w) /\ old.of = U(w).id, "tg", task[w].tg)
        BY <2>1, <3>1, RecordRows
      <4> QED BY <4>1 DEF Changed
    <3> QED BY <1>1, <3>1 DEF TextsKept
  <2>2. ~Record(w) => memory' = memory
    BY <1>4 DEF Work, Quiet, chat, Step, Restart, Refuse, Ask, GiveUp, Receive, Show, Finish
  <2> QED BY <1>3, <2>1, <2>2
<1>5. ASSUME NEW u \in Updates, Serve(u) PROVE Same
  <2>1. CASE Accept(u)
    BY <1>1, <2>1, AcceptRows DEF TextsKept
  <2>2. CASE Save(u)
    <3>1. u # t /\ \A c \in Chats : \A row \in Answers(c)' : row \in Answers(c) \/ row.of = u
      BY <2>2, SaveRows
    <3> QED BY <1>2, <3>1
  <2>3. CASE Lookup(u) \/ LookupAnew(u) \/ Fail(u)
    BY <1>3, <2>3 DEF Lookup, LookupAnew, Fail
  <2>4. CASE Trim(u)
    BY <1>1, <2>4, TrimRows DEF TextsKept
  <2>5. CASE SaveContext(u) /\ memory' # memory
    <3>1. u # t
      BY <2>5
    <3>2. ASSUME NEW c \in Chats, NEW row \in Answers(c)'
          PROVE  \/ \E old \in Answers(c) : old.of = row.of /\ old.ctx = row.ctx
                 \/ row.of = u
      <4>1. PICK old \in Answers(c) :
              Changed(row, old, c = request[u].chat /\ old.of = u, "ctx", request[u].ctx)
        BY <2>5, <3>2, ContextRows
      <4> QED BY <4>1 DEF Changed
    <3> QED BY <1>2, <3>1, <3>2
  <2> QED BY <1>3, <1>5, <2>1, <2>2, <2>3, <2>4, <2>5 DEF Serve
<1>6. ASSUME NEW k \in ReminderIds, NEW c \in Chats, Remind(k, c) PROVE Same
  BY <1>3, <1>6 DEF Remind
<1>7. ASSUME NEW k \in ReminderIds, Remember(k) \/ TakeOver(k) \/ Name(k) \/ Link(k) PROVE Same
  <2>1. CASE Remember(k)
    <3>1. k # t /\ \A c \in Chats : \A row \in Answers(c)' : row \in Answers(c) \/ row.of = k
      BY <2>1, RememberRows
    <3> QED BY <1>2, <3>1
  <2>2. CASE TakeOver(k)
    <3>1. \A c \in Chats : \A row \in Answers(c)' : \E old \in Answers(c) :
            row = old \/ row = [old EXCEPT !.tg = reminder[k].tg]
      BY <2>2, TakenOverAnswers
    <3>2. \A c \in Chats : \A old \in Answers(c) :
            /\ [old EXCEPT !.tg = reminder[k].tg].of = old.of
            /\ [old EXCEPT !.tg = reminder[k].tg].ctx = old.ctx
      BY AnswerTypes DEF Row
    <3> QED BY <1>1, <3>1, <3>2 DEF TextsKept
  <2>3. CASE Name(k) /\ memory' # memory
    <3>1. ASSUME NEW c \in Chats, NEW row \in Answers(c)'
          PROVE  \E old \in Answers(c) : old.of = row.of /\ old.ctx = row.ctx
      <4>1. PICK old \in Answers(c) :
              Changed(row, old, c = reminder[k].chat /\ old.of = k, "tg", reminder[k].tg)
        BY <2>3, <3>1, NameRows
      <4> QED BY <4>1 DEF Changed
    <3> QED BY <1>1, <3>1 DEF TextsKept
  <2>4. CASE Link(k) /\ memory' # memory
    <3>1. k # t
      BY <2>4
    <3>2. ASSUME NEW c \in Chats, NEW row \in Answers(c)'
          PROVE  \/ \E old \in Answers(c) : old.of = row.of /\ old.ctx = row.ctx
                 \/ row.of = k
      <4>1. PICK old \in Answers(c) :
              Changed(row, old, c = reminder[k].chat /\ old.of = k, "ctx", k)
        BY <2>4, <3>2, LinkRows
      <4> QED BY <4>1 DEF Changed
    <3> QED BY <1>2, <3>1, <3>2
  <2> QED BY <1>3, <1>7, <2>1, <2>2, <2>3, <2>4
<1>8. ASSUME UNCHANGED chat PROVE Same
  BY <1>3, <1>8 DEF chat
<1>9. ASSUME StopBot PROVE Same
  BY <1>3, <1>9 DEF StopBot
<1>10. Same
  BY <1>4, <1>5, <1>6, <1>7, <1>8, <1>9 DEF Next, Quiet, vars
<1> QED BY <1>10 DEF Same

LEMMA UnseenStays ==
  ASSUME TypeOK, [Next]_vars, NEW t \in Texts, Unseen(t),
         t \in Updates => ~Save(t) /\ ~SaveContext(t) /\ \A w \in Workers : ~(Show(w) /\ U(w).id = t),
         t \in ReminderIds => ~Remember(t) /\ ~Link(t) /\ \A c \in Chats : ~Remind(t, c)
  PROVE  Unseen(t)'
<1>1. AnswersOf(t)' = {}
  BY TextsStay DEF Unseen
<1>2. \A w \in Workers : Show(w) => U(w).id \in Updates
  BY Running DEF Show, On
<1>3. ShownOf(t)' = ShownOf(t)
  BY <1>2, ShownStays, DisjointTexts DEF Texts
<1> QED BY <1>1, <1>3 DEF Unseen

-----------------------------------------------------------------------------
(* Each part of the invariant is preserved *)

LEMMA StartNext == ChatInv /\ [Next]_vars => StartInv'
BY WorkerStays DEF ChatInv, FollowInv, StartInv

LEMMA OrderStays ==
  ASSUME ChatInv, [Next]_vars
  PROVE  OrderInv' /\ \A u \in Updates : Past(u) => Past(u)'
<1>1. \A u \in Updates : u \in Nat
  BY DisjointTexts
<1> QED BY <1>1, StepOfPool, NextOrder DEF ChatInv, TypeOK, TokenInv

LEMMA AskedNext ==
  ASSUME ChatInv, [Next]_vars
  PROVE  AskedInv'
<1> SUFFICES ASSUME NEW u \in Updates, request'[u] # None \/ ~Unseen(u)'
             PROVE  /\ Past(u)'
                    /\ \A w \in Taken' : worker'[w].update.id = u => task'[w].at # "start"
  BY DEF AskedInv, U
<1>0. TypeOK /\ TokenInv /\ OrderInv /\ StartInv /\ AskedInv /\ [PoolNext]_pool
  BY StepOfPool DEF ChatInv, FollowInv
<1>1. \/ request[u] # None \/ ~Unseen(u)
      \/ \E w \in Workers : (Ask(w) \/ Show(w)) /\ U(w).id = u
  <2> SUFFICES ASSUME request[u] = None, Unseen(u),
                      \A w \in Workers : ~(Show(w) /\ U(w).id = u)
               PROVE  \E w \in Workers : Ask(w) /\ U(w).id = u
    OBVIOUS
  <2>1. request[u].at = "none"
    BY DEF None
  <2>2. ~Serve(u) /\ ~Save(u) /\ ~SaveContext(u)
    BY <2>1 DEF Serve, Accept, Trim, Lookup, LookupAnew, Save, SaveContext, Fail
  <2>3. Unseen(u)'
    BY <1>0, <2>2, UnseenStays, DisjointTexts DEF Texts
  <2>4. request'[u] # request[u]
    BY <2>3
  <2>5. \A w \in Workers : ~(Receive(w) /\ U(w).id = u)
    BY <2>1 DEF Receive
  <2> QED BY <1>0, <2>2, <2>4, <2>5, RequestStays
<1>2. CASE request[u] # None \/ ~Unseen(u)
  <2>1. Past(u) /\ \A w \in Taken : U(w).id = u => task[w].at # "start"
    BY <1>0, <1>2 DEF AskedInv
  <2>2. ASSUME NEW w \in Taken', worker'[w].update.id = u
        PROVE  task'[w].at # "start"
    <3>1. w \in Workers /\ worker'[w].pc # "idle"
      BY <2>2 DEF Taken, At
    <3>2. ~Take(w)
      <4> SUFFICES ASSUME Take(w) PROVE FALSE
        OBVIOUS
      <4>1. queue \in Seq(Update) /\ queue # <<>> /\ worker'[w].update = Head(queue)
        BY <1>0, <3>1 DEF Take, TypeOK, PoolTypeOK
      <4>2. 1 \in DOMAIN queue /\ Head(queue) = queue[1]
        BY <4>1
      <4>3. u < queue[1].id /\ u \in Nat
        BY <2>1, <4>2, DisjointTexts DEF Past
      <4> QED BY <2>2, <4>1, <4>2, <4>3
    <3>3. worker[w].pc # "idle" /\ worker[w].update.id = u
      BY <1>0, <2>2, <3>1, <3>2, UpdateKept DEF TypeOK, TokenInv
    <3>4. task[w].at # "start"
      BY <2>1, <3>1, <3>3 DEF Taken, At, U
    <3> QED BY <1>0, <3>1, <3>4, WorkerStays
  <2> QED BY <2>1, <2>2, OrderStays
<1>3. ASSUME NEW v \in Workers, Ask(v) \/ Show(v), U(v).id = u
      PROVE  /\ Past(u)'
             /\ \A w \in Taken' : worker'[w].update.id = u => task'[w].at # "start"
  <2>1. worker' = worker /\ worker[v].pc = "running" /\ task'[v].at # "start"
    <3>1. CASE Ask(v)
      BY <1>0, <3>1 DEF Ask, On, pool, TypeOK
    <3>2. CASE Show(v)
      BY <1>0, <3>2 DEF Show, On, pool, TypeOK, Task, Done
    <3> QED BY <1>3, <3>1, <3>2
  <2>2. v \in Taken /\ Taken' = Taken /\ Past(u)
    BY <1>0, <1>3, <2>1, Running DEF OrderInv, U, Taken, At
  <2>3. \A w \in Taken : worker[w].update.id = u => w = v
    BY <1>0, <1>3, <2>2 DEF OrderInv, U
  <2> QED BY <2>1, <2>2, <2>3, OrderStays
<1> QED BY <1>1, <1>2, <1>3

LEMMA ReplyNext ==
  ASSUME ChatInv, [Next]_vars
  PROVE  ReplyInv'
<1>1. TypeOK /\ TokenInv /\ ReplyInv /\ [PoolNext]_pool /\ PoolTypeOK'
  BY StepOfPool, NextTypes DEF ChatInv, FollowInv, TokenInv, TypeOK
<1>2. shown \subseteq shown'
  BY <1>1, ShownStays
<1>3. incoming \in Seq(Update) /\ queue \in Seq(Update)
      /\ incoming' \in Seq(Update) /\ queue' \in Seq(Update)
  BY <1>1 DEF TypeOK, PoolTypeOK
<1>4. /\ \A i \in DOMAIN incoming' : Replyable(incoming'[i].re)
      /\ \A i \in DOMAIN queue' : Replyable(queue'[i].re)
  <2> DEFINE Good == /\ \A i \in DOMAIN incoming' : Replyable(incoming'[i].re)
                     /\ \A i \in DOMAIN queue' : Replyable(queue'[i].re)
  <2>1. ASSUME incoming' = incoming, queue' = queue \/ queue' = <<>> PROVE Good
    BY <1>1, <2>1 DEF ReplyInv
  <2>2. ASSUME NEW c \in Chats, NEW kind \in Kinds, Quiet(Write(c, kind)) PROVE Good
    <3>1. PICK re \in {0} \union {x.tg : x \in {y \in shown : y.chat = c}} : Send(c, kind, re)
      BY <2>2 DEF Quiet, Write
    <3>2. Replyable(re) /\ queue' = queue
      BY <3>1 DEF Replyable, Send
    <3>3. PICK new : incoming' = Append(incoming, new) /\ new.re = re
      BY <3>1 DEF Send
    <3>4. \A i \in DOMAIN incoming' : \/ i \in DOMAIN incoming /\ incoming'[i] = incoming[i]
                                      \/ incoming'[i] = new
      BY <1>3, <3>3
    <3> QED BY <1>1, <3>2, <3>3, <3>4 DEF ReplyInv
  <2>3. ASSUME Quiet(Dispatch) PROVE Good
    <3>1. incoming # <<>> /\ incoming' = Tail(incoming)
          /\ (queue' = queue \/ queue' = Append(queue, Head(incoming)))
      BY <2>3 DEF Quiet, Dispatch
    <3>2. \A i \in DOMAIN incoming' : i + 1 \in DOMAIN incoming /\ incoming'[i] = incoming[i + 1]
      BY <1>3, <3>1
    <3>3. 1 \in DOMAIN incoming /\ Head(incoming) = incoming[1]
      BY <1>3, <3>1
    <3>4. \A i \in DOMAIN queue' : \/ i \in DOMAIN queue /\ queue'[i] = queue[i]
                                   \/ queue'[i] = incoming[1]
      BY <1>3, <3>1, <3>3, SMTT(30)
    <3> QED BY <1>1, <3>2, <3>3, <3>4 DEF ReplyInv
  <2>4. ASSUME NEW w \in Workers, Quiet(Take(w)) PROVE Good
    <3>1. incoming' = incoming /\ queue # <<>> /\ queue' = Tail(queue)
      BY <2>4 DEF Quiet, Take
    <3>2. \A i \in DOMAIN queue' : i + 1 \in DOMAIN queue /\ queue'[i] = queue[i + 1]
      BY <1>3, <3>1
    <3> QED BY <1>1, <3>1, <3>2 DEF ReplyInv
  <2>5. ASSUME NEW w \in Workers, Quiet(Enter(w)) \/ Step(w) PROVE Good
    BY <2>1, <2>5 DEF Quiet, Enter, Step, Restart, Refuse, Ask, GiveUp, Receive, Show, Record,
                      Finish, Leave, pool
  <2>6. ASSUME NEW u \in Updates, Serve(u) PROVE Good
    BY <2>1, <2>6 DEF Serve, Accept, Trim, Lookup, LookupAnew, Save, SaveContext, Fail, pool
  <2>7. ASSUME NEW k \in ReminderIds,
               (\E c \in Chats : Remind(k, c)) \/ Remember(k) \/ TakeOver(k) \/ Name(k) \/ Link(k)
        PROVE  Good
    BY <2>1, <2>7 DEF Remind, Remember, TakeOver, Name, Link, pool
  <2>8. ASSUME StopBot \/ UNCHANGED vars PROVE Good
    BY <2>1, <2>8 DEF StopBot, Stop, vars, pool
  <2> HIDE DEF Good
  <2>9. Good
    BY <2>2, <2>3, <2>4, <2>5, <2>6, <2>7, <2>8 DEF Next, Work
  <2> QED BY <2>9 DEF Good
<1>5. \A w \in Taken' : Replyable(worker'[w].update.re)
  <2> TAKE w \in Taken'
  <2>1. w \in Workers /\ worker'[w].pc # "idle"
    BY DEF Taken, At
  <2>2. CASE Take(w)
    <3>1. queue # <<>> /\ worker'[w].update = Head(queue)
      BY <1>1, <2>1, <2>2 DEF Take, TypeOK, PoolTypeOK
    <3>2. 1 \in DOMAIN queue /\ Head(queue) = queue[1]
      BY <1>3, <3>1
    <3> QED BY <1>1, <3>1, <3>2 DEF ReplyInv
  <2>3. CASE ~Take(w)
    <3>1. worker[w].pc # "idle" /\ worker'[w].update = worker[w].update
      BY <1>1, <2>1, <2>3, UpdateKept DEF TypeOK, TokenInv
    <3> QED BY <1>1, <2>1, <3>1 DEF ReplyInv, Taken, At, U
  <2> QED BY <2>2, <2>3
<1>6. \A u \in Updates : request'[u] # None => Replyable(request'[u].re)
  <2> TAKE u \in Updates
  <2> HAVE request'[u] # None
  <2>1. CASE request'[u] = request[u]
    BY <1>1, <2>1 DEF ReplyInv
  <2>2. ASSUME NEW w \in Workers, Ask(w), U(w).id = u PROVE Replyable(request'[u].re)
    <3>1. w \in Taken
      BY <1>1, <2>2, Running DEF Ask, On
    <3>2. request'[u].re = U(w).re
      BY <1>1, <2>2 DEF Ask, TypeOK
    <3> QED BY <1>1, <3>1, <3>2 DEF ReplyInv
  <2>3. ASSUME NEW w \in Workers, Receive(w), U(w).id = u PROVE FALSE
    BY <1>1, <2>3 DEF Receive, TypeOK
  <2>4. CASE Serve(u)
    <3>1. request[u] # None /\ request'[u].re = request[u].re
      BY <1>1, <2>4, Served
    <3> QED BY <1>1, <3>1 DEF ReplyInv
  <2> QED BY <1>1, <2>1, <2>2, <2>3, <2>4, RequestStays
<1> QED BY <1>2, <1>4, <1>5, <1>6 DEF ReplyInv, Replyable, U

LEMMA NumberNext ==
  ASSUME ChatInv, [Next]_vars
  PROVE  NumberInv'
<1>1. TypeOK /\ NumberInv /\ posted \in Nat
  BY DEF ChatInv, FollowInv, TypeOK
<1>2. ASSUME UNCHANGED <<shown, posted>> PROVE NumberInv'
  BY <1>1, <1>2 DEF NumberInv
<1>3. ASSUME NEW t, NEW c, NEW ctx, NEW learned \in Nat, Post(t, c, ctx, learned) PROVE NumberInv'
  <2>1. PICK ids \in SUBSET Nat :
          /\ posted' \in Nat /\ posted <= posted'
          /\ \A id \in ids : posted < id /\ id <= posted'
          /\ shown' = shown \union Parts(ids, t, c, ctx)
    BY <1>1, <1>3, Posted
  <2>2. \A x \in shown' : \/ x \in shown
                          \/ /\ x.tg \in ids
                             /\ x = [tg |-> x.tg, chat |-> c, of |-> t, ctx |-> ctx]
    BY <2>1, PartsOf
  <2>3. /\ \A x \in shown : x.tg \in 1..posted'
        /\ \A id \in ids : id \in 1..posted'
        /\ \A x \in shown : x.tg \notin ids
    BY <1>1, <2>1 DEF NumberInv
  <2>4. \A x \in shown' : x.tg \in 1..posted'
    BY <2>2, <2>3
  <2>5. ASSUME NEW x \in shown', NEW y \in shown', x.tg = y.tg PROVE x = y
    BY <1>1, <2>2, <2>3, <2>5 DEF NumberInv
  <2> QED BY <2>4, <2>5 DEF NumberInv
<1>4. ASSUME NEW w \in Workers, Step(w) PROVE NumberInv'
  <2>1. CASE Show(w)
    BY <1>1, <1>3, <2>1 DEF Show
  <2>2. CASE ~Show(w)
    BY <1>2, <1>4, <2>2 DEF Step, Restart, Refuse, Ask, GiveUp, Receive, Record, Finish
  <2> QED BY <2>1, <2>2
<1>5. ASSUME NEW k \in ReminderIds, NEW c \in Chats, Remind(k, c) PROVE NumberInv'
  BY <1>1, <1>3, <1>5 DEF Remind
<1>6. ASSUME NEW u \in Updates, Serve(u) PROVE NumberInv'
  BY <1>2, <1>6 DEF Serve, Accept, Trim, Lookup, LookupAnew, Save, SaveContext, Fail
<1>7. ASSUME NEW k \in ReminderIds, Remember(k) \/ TakeOver(k) \/ Name(k) \/ Link(k)
      PROVE  NumberInv'
  BY <1>2, <1>7 DEF Remember, TakeOver, Name, Link
<1>8. ASSUME UNCHANGED chat \/ StopBot PROVE NumberInv'
  BY <1>2, <1>8 DEF chat, StopBot
<1> QED BY <1>4, <1>5, <1>6, <1>7, <1>8 DEF Next, Work, Quiet, vars

LEMMA ShownStaysOf ==
  ASSUME TypeOK, [Next]_vars, NEW u \in Updates, \A w \in Workers : ~(Show(w) /\ U(w).id = u)
  PROVE  ShownOf(u)' = ShownOf(u)
BY ShownStays, DisjointTexts

(* Whoever asks has asked nothing before; nobody shows what is asked.      *)
LEMMA OneHandles ==
  ASSUME ChatInv, NEW w \in Workers, NEW v \in Workers,
         worker[w].pc = "running", worker[v].pc = "running", U(v).id = U(w).id
  PROVE  v = w
<1>1. v \in Taken /\ w \in Taken
  BY Running DEF ChatInv
<1> QED BY <1>1 DEF ChatInv, OrderInv, U

LEMMA AskIsFirst ==
  ASSUME ChatInv, NEW w \in Workers, Ask(w), NEW u \in Updates, U(w).id = u
  PROVE  request[u] = None /\ Unseen(u) /\ \A v \in Workers : ~(Show(v) /\ U(v).id = u)
<1>1. w \in Taken /\ worker[w].pc = "running" /\ task[w].at = "start"
  BY Running DEF Ask, On, ChatInv
<1>2. request[u] = None /\ Unseen(u)
  BY <1>1 DEF ChatInv, FollowInv, AskedInv
<1>3. ASSUME NEW v \in Workers, Show(v), U(v).id = u PROVE FALSE
  <2>1. v = w
    BY <1>1, <1>3, OneHandles DEF Show, On
  <2> QED BY <1>1, <1>3, <2>1 DEF Show, On
<1> QED BY <1>2, <1>3

LEMMA AskedIsNotShown ==
  ASSUME ChatInv, NEW u \in Updates, request[u].at # "none", NEW w \in Workers, Show(w)
  PROVE  U(w).id # u
<1>1. task[w].at = "answered"
  BY DEF Show, On
<1>2. request[U(w).id] = None
  BY <1>1 DEF ChatInv, FollowInv, StageInv
<1> QED BY <1>2 DEF None

(* A request goes through its stages one by one. *)
LEMMA RequestSteps ==
  ASSUME TypeOK, [Next]_vars, NEW u \in Updates
  PROVE  /\ request'[u].at = "sent" =>
              request'[u] = request[u] \/ \E w \in Workers : Ask(w) /\ U(w).id = u
         /\ request'[u].at = "kept" => request'[u] = request[u] \/ Accept(u)
         /\ request'[u].at \in {"accepted", "names", "trimmed"} =>
              request'[u] = request[u] \/ Trim(u)
         /\ request'[u].at = "found" =>
              request'[u] = request[u] \/ Lookup(u) \/ LookupAnew(u)
         /\ request'[u].at = "stored" => request'[u] = request[u] \/ Save(u)
         /\ request'[u].at = "saved" => request'[u] = request[u] \/ SaveContext(u)
         /\ request'[u] = None =>
              \/ request[u] = None \/ Fail(u)
              \/ \E w \in Workers : Receive(w) /\ U(w).id = u
<1>1. ASSUME NEW w \in Workers, Ask(w), U(w).id = u PROVE request'[u].at = "sent"
  BY <1>1 DEF Ask, TypeOK
<1>2. ASSUME NEW w \in Workers, Receive(w), U(w).id = u PROVE request'[u].at = "none"
  BY <1>2 DEF Receive, TypeOK, None
<1>3. None.at = "none"
  BY DEF None
<1> DEFINE to == request'[u].at
<1>4. Serve(u) => /\ Accept(u) => to = "kept"
                  /\ Trim(u) => to \in {"accepted", "names", "trimmed"}
                  /\ Lookup(u) \/ LookupAnew(u) => to = "found"
                  /\ Save(u) => to = "stored"
                  /\ SaveContext(u) => to = "saved"
                  /\ Fail(u) => to = "none"
  BY <1>3, Served
<1>5. request'[u] = request[u] \/ Serve(u) \/ \E w \in Workers : (Ask(w) \/ Receive(w)) /\ U(w).id = u
  BY RequestStays
<1> QED BY <1>1, <1>2, <1>3, <1>4, <1>5 DEF Serve

LEMMA StageNext ==
  ASSUME ChatInv, [Next]_vars
  PROVE  StageInv'
<1>1. TypeOK /\ TokenInv /\ OrderInv /\ StartInv /\ StageInv
  BY DEF ChatInv, FollowInv
<1>2. ASSUME NEW u \in Updates, request'[u].at \in {"sent", "kept", "accepted", "names", "found"}
      PROVE  Unseen(u)'
  <2>1. /\ Unseen(u) /\ ~Save(u) /\ ~SaveContext(u) /\ \A w \in Workers : ~(Show(w) /\ U(w).id = u)
    <3>1. CASE \E w \in Workers : Ask(w) /\ U(w).id = u
      <4>1. PICK w \in Workers : Ask(w) /\ U(w).id = u
        BY <3>1
      <4>2. request[u] = None /\ Unseen(u) /\ \A v \in Workers : ~(Show(v) /\ U(v).id = u)
        BY <4>1, AskIsFirst
      <4> QED BY <4>2 DEF Save, SaveContext, None
    <3>2. CASE ~\E w \in Workers : Ask(w) /\ U(w).id = u
      <4>1. request[u].at \in {"sent", "kept", "accepted", "names", "found"}
        <5>1. Accept(u) => request[u].at = "sent"
          BY DEF Accept
        <5>2. Trim(u) => request[u].at = "kept" \/ request'[u].at = "trimmed"
          BY <1>1, Served DEF Serve
        <5>3. Lookup(u) \/ LookupAnew(u) => request[u].at = "accepted"
          BY DEF Lookup, LookupAnew
        <5> QED BY <1>1, <1>2, <3>2, <5>1, <5>2, <5>3, RequestSteps
      <4>2. ~Save(u) /\ ~SaveContext(u)
        BY <1>1, <1>2, Served DEF Serve
      <4> QED BY <1>1, <4>1, <4>2, AskedIsNotShown DEF StageInv
    <3> QED BY <3>1, <3>2
  <2> QED BY <1>1, <2>1, UnseenStays, DisjointTexts DEF Texts
<1>3. ASSUME NEW u \in Updates, request'[u].at \in {"stored", "trimmed", "saved"}
      PROVE  ShownOf(u)' = {} /\ \A row \in AnswersOf(u)' : row.ctx \in {0, request'[u].ctx}
  <2> DEFINE Told0 == ShownOf(u) = {} /\ \A row \in AnswersOf(u) : row.ctx \in {0, request[u].ctx}
  <2>0. /\ request[u].at # "none"
        /\ request'[u] = request[u] \/ Trim(u) \/ Save(u) \/ SaveContext(u)
    <3>1. request'[u] = request[u] \/ Trim(u) \/ Save(u) \/ SaveContext(u)
      BY <1>1, <1>3, RequestSteps
    <3> QED BY <1>3, <3>1 DEF Trim, Save, SaveContext
  <2>1. ShownOf(u)' = ShownOf(u)
    BY <1>1, <2>0, AskedIsNotShown, ShownStaysOf
  <2>2. CASE (request'[u] = request[u] \/ Trim(u)) /\ ~Save(u) /\ ~SaveContext(u)
    <3>1. request[u].at \in {"stored", "trimmed", "saved"} /\ request'[u].ctx = request[u].ctx
      <4>1. CASE Trim(u)
        <5>1. ~Fail(u) /\ ~Lookup(u) /\ ~LookupAnew(u)
          BY <4>1 DEF Trim, Fail, Lookup, LookupAnew
        <5> QED BY <1>1, <1>3, <4>1, <5>1, Served DEF Serve
      <4> QED BY <1>3, <2>2, <4>1
    <3>2. Told0
      BY <1>1, <3>1 DEF StageInv
    <3>3. \A row \in AnswersOf(u)' : \E old \in AnswersOf(u) : old.ctx = row.ctx
      BY <1>1, <2>2, TextsStay, DisjointTexts
    <3> QED BY <2>1, <3>1, <3>2, <3>3
  <2>3. CASE Save(u)
    <3>1. Unseen(u)
      BY <1>1, <2>3 DEF StageInv, Save
    <3>2. ASSUME NEW row \in AnswersOf(u)' PROVE row.ctx = 0
      <4>1. PICK c \in Chats : row \in Answers(c)' /\ row.of = u
        BY <3>2 DEF AnswersOf
      <4>2. row \notin Answers(c)
        BY <3>1, <4>1 DEF Unseen, AnswersOf
      <4> QED BY <1>1, <2>3, <4>1, <4>2, SaveRows
    <3> QED BY <2>1, <3>1, <3>2 DEF Unseen
  <2>4. CASE SaveContext(u)
    <3>1. Told0
      BY <1>1, <2>4 DEF StageInv, SaveContext
    <3>2. request'[u].ctx = request[u].ctx
      <4>1. ~Fail(u) /\ ~Lookup(u) /\ ~LookupAnew(u)
        BY <2>4 DEF SaveContext, Fail, Lookup, LookupAnew
      <4> QED BY <1>1, <2>4, <4>1, Served DEF Serve
    <3>3. ASSUME NEW row \in AnswersOf(u)' PROVE row.ctx \in {0, request[u].ctx}
      <4>1. PICK c \in Chats : row \in Answers(c)' /\ row.of = u
        BY <3>3 DEF AnswersOf
      <4>2. CASE memory' = memory
        BY <3>1, <3>3, <4>2, SameAnswers
      <4>3. CASE memory' # memory
        <5>1. PICK old \in Answers(c) :
                Changed(row, old, c = request[u].chat /\ old.of = u, "ctx", request[u].ctx)
          BY <1>1, <2>4, <4>1, <4>3, ContextRows
        <5>2. row.ctx = request[u].ctx \/ (old \in AnswersOf(u) /\ row.ctx = old.ctx)
          BY <4>1, <5>1 DEF Changed, AnswersOf
        <5> QED BY <3>1, <5>2
      <4> QED BY <4>2, <4>3
    <3> QED BY <2>1, <3>1, <3>2, <3>3
  <2> QED BY <2>0, <2>2, <2>3, <2>4
<1>4. ASSUME NEW w \in Workers, task'[w].at = "answered", NEW u, u = worker'[w].update.id
      PROVE  /\ request'[u] = None /\ ShownOf(u)' = {}
             /\ \A row \in AnswersOf(u)' : row.ctx \in {0, task'[w].ctx}
  <2>1. worker'[w] = worker[w] /\ worker[w].pc = "running" /\ U(w).id = u /\ u \in Updates
    <3>1. worker'[w] = worker[w] /\ worker[w].pc = "running"
      BY <1>1, <1>4, WorkerStays
    <3> QED BY <1>1, <1>4, <3>1, Running DEF U
  <2>2. CASE task'[w] = task[w] /\ ~Show(w)
    <3>1. /\ request[u] = None /\ request[u].at = "none" /\ ShownOf(u) = {}
          /\ \A row \in AnswersOf(u) : row.ctx \in {0, task[w].ctx}
      BY <1>1, <1>4, <2>1, <2>2 DEF StageInv, None
    <3>2. \A v \in Workers : ~(Show(v) /\ U(v).id = u)
      BY <2>1, <2>2, OneHandles DEF Show, On
    <3>3. \A v \in Workers : ~((Ask(v) \/ Receive(v)) /\ U(v).id = u)
      <4>1. ASSUME NEW v \in Workers, Ask(v), U(v).id = u PROVE FALSE
        <5>1. v = w
          BY <2>1, <4>1, OneHandles DEF Ask, On
        <5> QED BY <1>4, <2>2, <4>1, <5>1 DEF Ask, On
      <4> QED BY <3>1, <4>1 DEF Receive
    <3>4. ~Serve(u) /\ ~Save(u) /\ ~SaveContext(u)
      BY <3>1 DEF Serve, Accept, Trim, Lookup, LookupAnew, Save, SaveContext, Fail
    <3>5. request'[u] = request[u]
      BY <1>1, <2>1, <3>3, <3>4, RequestStays
    <3>6. ShownOf(u)' = {}
      BY <1>1, <2>1, <3>1, <3>2, ShownStaysOf
    <3>7. \A row \in AnswersOf(u)' : \E old \in AnswersOf(u) : old.ctx = row.ctx
      BY <1>1, <2>1, <3>4, TextsStay, DisjointTexts
    <3> QED BY <2>2, <3>1, <3>5, <3>6, <3>7
  <2>3. CASE Receive(w)
    <3>1. request[u].at = "saved" /\ memory' = memory /\ shown' = shown
          /\ request'[u] = None /\ task'[w].ctx = request[u].ctx
      BY <1>1, <2>1, <2>3 DEF Receive, TypeOK, Task
    <3>2. ShownOf(u)' = ShownOf(u)
      BY <3>1 DEF ShownOf
    <3>3. AnswersOf(u)' = AnswersOf(u)
      BY <3>1, SameAnswers
    <3> QED BY <1>1, <2>1, <3>1, <3>2, <3>3 DEF StageInv
  <2>4. Show(w) => task'[w].at # "answered"
    BY <1>1 DEF Show, TypeOK, Task, Done
  <2>5. ~StopBot
    BY <1>4 DEF StopBot, Start
  <2>6. Step(w) => Receive(w)
    BY <1>1, <1>4, <2>4 DEF Step, Restart, Refuse, Ask, GiveUp, Record, Finish, Start, Done,
                            TypeOK, Task
  <2> QED BY <1>1, <1>4, <2>2, <2>3, <2>4, <2>5, <2>6, TaskStays
<1> QED BY <1>2, <1>3, <1>4 DEF StageInv, U, AnswersOf, Answers, ShownOf

(* A reminder goes through its stages one by one. *)
LEMMA ReminderSteps ==
  ASSUME TypeOK, [Next]_vars, NEW k \in ReminderIds
  PROVE  \/ /\ reminder'[k] = reminder[k]
            /\ ~Remember(k) /\ ~TakeOver(k) /\ ~Name(k) /\ ~Link(k)
            /\ \A c \in Chats : ~Remind(k, c)
         \/ \E c \in Chats : Remind(k, c)
         \/ /\ reminder[k].at # "none" /\ \A c \in Chats : ~Remind(k, c)
            /\ reminder'[k].chat = reminder[k].chat /\ reminder'[k].tg = reminder[k].tg
            /\ \/ Remember(k) /\ reminder'[k].at \in {"stored", "over"}
               \/ TakeOver(k) /\ reminder'[k].at = "over"
               \/ Name(k) /\ reminder'[k].at \in {"named", "over"}
               \/ Link(k) /\ reminder'[k].at = "over"
<1>1. ASSUME NEW at, reminder' = [reminder EXCEPT ![k].at = at], reminder[k].at # "none"
      PROVE  /\ reminder'[k].at = at
             /\ reminder'[k].chat = reminder[k].chat /\ reminder'[k].tg = reminder[k].tg
  BY <1>1, DeliveryOf DEF TypeOK, Delivery
<1>2. \A c \in Chats : Remind(k, c) => reminder[k].at = "none"
  BY DEF Remind
<1>3. Remember(k) => reminder[k].at = "posted" /\ \E at \in {"stored", "over"} :
                       reminder' = [reminder EXCEPT ![k].at = at]
  BY DEF Remember
<1>4. TakeOver(k) => reminder[k].at = "posted" /\ reminder' = [reminder EXCEPT ![k].at = "over"]
  BY DEF TakeOver
<1>5. Name(k) => reminder[k].at = "stored" /\ \E at \in {"named", "over"} :
                   reminder' = [reminder EXCEPT ![k].at = at]
  BY DEF Name
<1>6. Link(k) => reminder[k].at = "named" /\ reminder' = [reminder EXCEPT ![k].at = "over"]
  BY DEF Link
<1> QED BY <1>1, <1>2, <1>3, <1>4, <1>5, <1>6, ReminderStays

LEMMA UnlinkedGrows ==
  ASSUME [Next]_vars
  PROVE  unlinked \subseteq unlinked'
<1>1. ASSUME NEW w \in Workers, Work(w) PROVE unlinked \subseteq unlinked'
  BY <1>1 DEF Work, Quiet, chat, Step, Restart, Refuse, Ask, GiveUp, Receive, Show, Record, Finish,
                    Post
<1>2. ASSUME NEW u \in Updates, Serve(u) PROVE unlinked \subseteq unlinked'
  BY <1>2 DEF Serve, Accept, Trim, Lookup, LookupAnew, Save, SaveContext, Fail
<1>3. ASSUME NEW k \in ReminderIds,
             (\E c \in Chats : Remind(k, c)) \/ Remember(k) \/ TakeOver(k) \/ Name(k) \/ Link(k)
      PROVE  unlinked \subseteq unlinked'
  BY <1>3 DEF Remind, Post, Remember, TakeOver, Name, Link
<1>4. ASSUME UNCHANGED chat \/ StopBot PROVE unlinked \subseteq unlinked'
  BY <1>4 DEF chat, StopBot
<1> QED BY <1>1, <1>2, <1>3, <1>4 DEF Next, Quiet, vars

LEMMA ReminderMessage ==
  ASSUME ReminderInv, NEW k \in ReminderIds
  PROVE  /\ reminder[k].at \in {"posted", "stored", "named"} =>
              \E x \in ShownOf(k) : x.tg = reminder[k].tg
         /\ \A x \in ShownOf(k) : /\ x.chat = reminder[k].chat /\ x.ctx = k
                                 /\ (x.tg = reminder[k].tg \/ x.tg \in unlinked)
BY DEF ReminderInv

(* One of its messages is remembered, or the reminder is over.             *)
LEMMA RemindShows ==
  ASSUME ChatInv, NEW k \in ReminderIds, NEW c \in Chats, Remind(k, c)
  PROVE  /\ reminder[k].at = "none" /\ memory' = memory /\ AnswersOf(k) = {} /\ AnswersOf(k)' = {}
         /\ reminder'[k].at \in {"posted", "over"} /\ reminder'[k].chat = c
         /\ reminder'[k].at = "posted" => \E x \in ShownOf(k)' : x.tg = reminder'[k].tg
         /\ \A x \in ShownOf(k)' : /\ x.chat = c /\ x.ctx = k
                                  /\ (x.tg = reminder'[k].tg \/ x.tg \in unlinked')
<1>1. TypeOK /\ ReminderInv /\ posted \in Nat
  BY DEF ChatInv, FollowInv, TypeOK
<1>2. PICK learned \in {0, posted + 1} :
        /\ Post(k, c, k, learned)
        /\ reminder' = [reminder EXCEPT ![k] =
             [at |-> IF learned = 0 THEN "over" ELSE "posted", chat |-> c, tg |-> learned]]
  BY DEF Remind
<1>3. /\ reminder'[k].chat = c /\ reminder'[k].tg = learned
      /\ reminder'[k].at = IF learned = 0 THEN "over" ELSE "posted"
  BY <1>1, <1>2 DEF TypeOK
<1>4. learned \in Nat
  BY <1>1
<1>5. PICK ids \in SUBSET Nat :
        /\ learned # 0 => learned \in ids
        /\ shown' = shown \union Parts(ids, k, c, k)
        /\ unlinked' = unlinked \union (ids \ {learned})
  BY <1>1, <1>2, <1>4, Posted
<1>6. reminder[k].at = "none" /\ memory' = memory
  BY DEF Remind
<1>7. AnswersOf(k) = {} /\ ShownOf(k) = {}
  BY <1>1, <1>6 DEF ReminderInv
<1>8. AnswersOf(k)' = {}
  BY <1>6, <1>7, SameAnswers
<1>9. ShownOf(k)' = Parts(ids, k, c, k)
  <2>1. PICK new : new = Parts(ids, k, c, k)
    OBVIOUS
  <2>2. shown' = shown \union new /\ \A x \in new : x.of = k
    BY <1>5, <2>1, PartsOf
  <2>3. ShownOf(k)' = new
    BY <1>7, <2>2 DEF ShownOf
  <2> QED BY <2>1, <2>3
<1>10. \A id \in ids : \E x \in ShownOf(k)' : x.tg = id
  BY <1>9, PartsOf
<1>11. \A x \in ShownOf(k)' : x.chat = c /\ x.ctx = k /\ x.tg \in ids
  BY <1>9, PartsOf
<1> QED BY <1>3, <1>5, <1>6, <1>7, <1>8, <1>10, <1>11

(* Before a reminder is sent nothing of it is there; a message of its other *)
(* than the one it remembers is known not to be linked.                    *)
LEMMA ReminderNext ==
  ASSUME ChatInv, [Next]_vars
  PROVE  ReminderInv'
<1>1. TypeOK /\ ReminderInv
  BY DEF ChatInv, FollowInv
<1> SUFFICES ASSUME NEW k \in ReminderIds
             PROVE  /\ reminder'[k].at \in {"none", "posted"} => AnswersOf(k)' = {}
                    /\ reminder'[k].at = "none" => ShownOf(k)' = {}
                    /\ reminder'[k].at \in {"posted", "stored", "named"} =>
                         \E x \in ShownOf(k)' : x.tg = reminder'[k].tg
                    /\ \A x \in ShownOf(k)' :
                         /\ x.chat = reminder'[k].chat /\ x.ctx = k
                         /\ (x.tg = reminder'[k].tg \/ x.tg \in unlinked')
  BY DEF ReminderInv
<1>2. \A w \in Workers : Show(w) => U(w).id # k
  BY <1>1, Running, DisjointTexts DEF Show, On
<1>3. (\A c \in Chats : ~Remind(k, c)) => ShownOf(k)' = ShownOf(k)
  BY <1>1, <1>2, ShownStays
<1>4. unlinked \subseteq unlinked'
  BY UnlinkedGrows
<1>5. CASE /\ reminder'[k] = reminder[k] /\ \A c \in Chats : ~Remind(k, c)
           /\ ~Remember(k) /\ ~Link(k)
  <2>1. \A row \in AnswersOf(k)' : \E old \in AnswersOf(k) : old.ctx = row.ctx
    BY <1>1, <1>5, TextsStay, DisjointTexts
  <2>2. /\ reminder[k].at \in {"none", "posted"} => AnswersOf(k) = {}
        /\ reminder[k].at = "none" => ShownOf(k) = {}
    BY <1>1 DEF ReminderInv
  <2> QED BY <1>1, <1>3, <1>4, <1>5, <2>1, <2>2, ReminderMessage
<1>6. CASE \E c \in Chats : Remind(k, c)
  BY <1>6, RemindShows
<1>7. CASE /\ reminder[k].at # "none" /\ \A c \in Chats : ~Remind(k, c)
           /\ reminder'[k].chat = reminder[k].chat /\ reminder'[k].tg = reminder[k].tg
           /\ \/ Remember(k) /\ reminder'[k].at \in {"stored", "over"}
              \/ TakeOver(k) /\ reminder'[k].at = "over"
              \/ Name(k) /\ reminder'[k].at \in {"named", "over"}
              \/ Link(k) /\ reminder'[k].at = "over"
  <2>1. reminder'[k].at # "over" => reminder[k].at \in {"posted", "stored"}
    BY <1>7 DEF Remember, Name
  <2>2. reminder'[k].at \in {"stored", "named", "over"}
    BY <1>7
  <2> QED BY <1>1, <1>3, <1>4, <1>7, <2>1, <2>2, ReminderMessage
<1> QED BY <1>1, <1>5, <1>6, <1>7, ReminderSteps

(* Where a row comes from. *)
LEMMA RowSteps ==
  ASSUME TypeOK, [Next]_vars, NEW c \in Chats, NEW row \in Answers(c)'
  PROVE  \/ \E old \in Answers(c) : old.of = row.of /\ old.tg = row.tg /\ old.ctx = row.ctx
         \/ \E w \in Workers : /\ Record(w) /\ row.of = U(w).id /\ row.tg = task[w].tg
                               /\ \E old \in Answers(c) : old.of = row.of /\ old.ctx = row.ctx
         \/ \E k \in ReminderIds : /\ Name(k) /\ row.of = k /\ row.tg = reminder[k].tg
                                   /\ \E old \in Answers(c) : old.of = row.of /\ old.ctx = row.ctx
         \/ \E k \in ReminderIds : /\ Link(k) /\ row.of = k /\ row.ctx = k
                                   /\ \E old \in Answers(c) : old.of = row.of /\ old.tg = row.tg
         \/ \E u \in Updates : Save(u) /\ row.of = u /\ row.tg = 0 /\ row.ctx = 0
         \/ \E u \in Updates : /\ SaveContext(u) /\ row.of = u /\ row.ctx = request[u].ctx
                               /\ \E old \in Answers(c) : old.of = row.of /\ old.tg = row.tg
         \/ \E k \in ReminderIds : Remember(k) /\ row.of = k /\ row.tg = 0 /\ row.ctx = 0
         \/ \E k \in ReminderIds : /\ TakeOver(k) /\ row.tg = reminder[k].tg
                                   /\ \E old \in Answers(c) : /\ old.of = row.of /\ old.ctx = row.ctx
                                                              /\ old.tg \in unlinked'
<1> DEFINE Kept0 == \E old \in Answers(c) :
                      old.of = row.of /\ old.tg = row.tg /\ old.ctx = row.ctx
<1>1. CASE memory' = memory
  BY <1>1, SameAnswers
<1>2. CASE row \in Answers(c)
  BY <1>2
<1>3. ASSUME NEW w \in Workers, Record(w), memory' # memory
      PROVE  \/ Kept0
             \/ /\ row.of = U(w).id /\ row.tg = task[w].tg
                /\ \E old \in Answers(c) : old.of = row.of /\ old.ctx = row.ctx
  <2>1. PICK old \in Answers(c) :
          Changed(row, old, c = ChatOf(w) /\ old.of = U(w).id, "tg", task[w].tg)
    BY <1>3, RecordRows
  <2> QED BY <2>1 DEF Changed
<1>4. ASSUME NEW k \in ReminderIds, Name(k), memory' # memory
      PROVE  \/ Kept0
             \/ /\ row.of = k /\ row.tg = reminder[k].tg
                /\ \E old \in Answers(c) : old.of = row.of /\ old.ctx = row.ctx
  <2>1. PICK old \in Answers(c) :
          Changed(row, old, c = reminder[k].chat /\ old.of = k, "tg", reminder[k].tg)
    BY <1>4, NameRows
  <2> QED BY <2>1 DEF Changed
<1>5. ASSUME NEW k \in ReminderIds, Link(k), memory' # memory
      PROVE  \/ Kept0
             \/ /\ row.of = k /\ row.ctx = k
                /\ \E old \in Answers(c) : old.of = row.of /\ old.tg = row.tg
  <2>1. PICK old \in Answers(c) :
          Changed(row, old, c = reminder[k].chat /\ old.of = k, "ctx", k)
    BY <1>5, LinkRows
  <2> QED BY <2>1 DEF Changed
<1>6. ASSUME NEW k \in ReminderIds, TakeOver(k)
      PROVE  \/ row \in Answers(c)
             \/ /\ row.tg = reminder[k].tg
                /\ \E old \in Answers(c) : /\ old.of = row.of /\ old.ctx = row.ctx
                                           /\ old.tg \in unlinked'
  <2> SUFFICES ASSUME row \notin Answers(c)
               PROVE  /\ row.tg = reminder[k].tg
                      /\ \E old \in Answers(c) : /\ old.of = row.of /\ old.ctx = row.ctx
                                                 /\ old.tg \in unlinked'
    OBVIOUS
  <2>1. PICK old \in Answers(c) : row = [old EXCEPT !.tg = reminder[k].tg] /\ old.tg \in unlinked'
    BY <1>6, TakenOverAnswers
  <2>2. old \in Row
    BY AnswerTypes
  <2>3. row.tg = reminder[k].tg /\ row.of = old.of /\ row.ctx = old.ctx
    BY <2>1, <2>2 DEF Row
  <2> QED BY <2>1, <2>3
<1>7. ASSUME NEW w \in Workers, Work(w), ~Record(w) PROVE memory' = memory
  BY <1>7 DEF Work, Quiet, chat, Step, Restart, Refuse, Ask, GiveUp, Receive, Show, Finish
<1>8. ASSUME NEW u \in Updates, Serve(u)
      PROVE  memory' = memory \/ row \in Answers(c) \/ Save(u) \/ SaveContext(u)
  BY <1>8, AcceptRows, TrimRows DEF Serve, Lookup, LookupAnew, Fail
<1>9. ASSUME NEW k \in ReminderIds, NEW d \in Chats, Remind(k, d) PROVE memory' = memory
  BY <1>9 DEF Remind
<1>10. ASSUME UNCHANGED chat \/ StopBot PROVE memory' = memory
  BY <1>10 DEF chat, StopBot
<1>11. ASSUME NEW u \in Updates, Save(u)
       PROVE  row \in Answers(c) \/ (row.of = u /\ row.tg = 0 /\ row.ctx = 0)
  BY <1>11, SaveRows
<1>12. ASSUME NEW k \in ReminderIds, Remember(k)
       PROVE  row \in Answers(c) \/ (row.of = k /\ row.tg = 0 /\ row.ctx = 0)
  BY <1>12, RememberRows
<1>13. \/ memory' = memory \/ row \in Answers(c)
       \/ \E w \in Workers : Record(w)
       \/ \E u \in Updates : Save(u) \/ SaveContext(u)
       \/ \E k \in ReminderIds : Remember(k) \/ TakeOver(k) \/ Name(k) \/ Link(k)
  BY <1>7, <1>8, <1>9, <1>10 DEF Next, Quiet, vars
<1>14. ASSUME NEW u \in Updates, SaveContext(u), memory' # memory
       PROVE  \/ Kept0
              \/ /\ row.of = u /\ row.ctx = request[u].ctx
                 /\ \E old \in Answers(c) : old.of = row.of /\ old.tg = row.tg
  <2>1. PICK old \in Answers(c) :
          Changed(row, old, c = request[u].chat /\ old.of = u, "ctx", request[u].ctx)
    BY <1>14, ContextRows
  <2> QED BY <2>1 DEF Changed
<1> QED BY <1>1, <1>2, <1>3, <1>4, <1>5, <1>6, <1>11, <1>12, <1>13, <1>14

LEMMA TakenOverStays ==
  ASSUME TypeOK, [Next]_vars, NEW t, TakenOver(t)
  PROVE  TakenOver(t)'
<1>1. t \in ReminderIds /\ reminder[t].at = "over" /\ AnswersOf(t) = {}
  BY DEF TakenOver
<1>2. ~Remember(t) /\ ~TakeOver(t) /\ ~Name(t) /\ ~Link(t) /\ \A c \in Chats : ~Remind(t, c)
  BY <1>1 DEF Remember, TakeOver, Name, Link, Remind
<1>3. reminder'[t] = reminder[t]
  BY <1>1, <1>2, ReminderStays
<1>4. AnswersOf(t)' = {}
  BY <1>1, <1>2, TextsStay, DisjointTexts
<1> QED BY <1>1, <1>3, <1>4 DEF TakenOver

(* The message tg shows the text t, or a reminder without a row.           *)
Shows(tg, t) == tg = 0 \/ \E x \in shown : x.tg = tg /\ (x.of = t \/ TakenOver(x.of))

LEMMA ShowsStays ==
  ASSUME TypeOK, [Next]_vars, NEW tg, NEW t, Shows(tg, t)
  PROVE  Shows(tg, t)'
<1>1. CASE tg = 0
  BY <1>1 DEF Shows
<1>2. ASSUME NEW x \in shown, x.tg = tg, x.of = t \/ TakenOver(x.of)
      PROVE  Shows(tg, t)'
  <2>1. PICK o : o = x.of
    OBVIOUS
  <2>2. CASE o = t
    BY <1>2, <2>1, <2>2, ShownStays DEF Shows
  <2>3. CASE TakenOver(o)
    <3>1. TakenOver(o)'
      BY <2>3, TakenOverStays
    <3>2. TakenOver(x.of)'
      BY <2>1, <3>1 DEF TakenOver, AnswersOf, Answers
    <3>3. x \in shown'
      BY ShownStays
    <3> QED BY <1>2, <3>2, <3>3 DEF Shows
  <2> QED BY <1>2, <2>1, <2>2, <2>3
<1> QED BY <1>1, <1>2 DEF Shows

LEMMA RowNext ==
  ASSUME ChatInv, [Next]_vars
  PROVE  RowInv'
<1>1. TypeOK /\ StageInv /\ ReminderInv /\ RowInv /\ ShowInv
  BY DEF ChatInv, FollowInv
<1>2. \A c \in Chats : \A old \in Answers(c) : Shows(old.tg, old.of)
  BY <1>1 DEF RowInv, Shows
<1>3. ASSUME NEW c \in Chats, NEW row \in Answers(c)', NEW tg, tg = row.tg, NEW t, t = row.of
      PROVE  Shows(tg, t)'
  <2>1. ASSUME NEW old \in Answers(c), old.of = t, old.tg = tg PROVE Shows(tg, t)'
    BY <1>1, <1>2, <2>1, ShowsStays
  <2>2. ASSUME tg = 0 PROVE Shows(tg, t)'
    BY <2>2 DEF Shows
  <2>3. ASSUME NEW w \in Workers, Record(w), t = U(w).id, tg = task[w].tg PROVE Shows(tg, t)'
    <3>1. \E x \in ShownOf(t) : x.tg = tg
      BY <1>1, <2>3 DEF ShowInv, Record, On
    <3>2. Shows(tg, t)
      BY <3>1 DEF Shows, ShownOf
    <3> QED BY <1>1, <3>2, ShowsStays
  <2>4. ASSUME NEW k \in ReminderIds, Name(k), t = k, tg = reminder[k].tg PROVE Shows(tg, t)'
    <3>1. \E x \in ShownOf(k) : x.tg = tg
      BY <1>1, <2>4, ReminderMessage DEF Name
    <3>2. Shows(tg, t)
      BY <2>4, <3>1 DEF Shows, ShownOf
    <3> QED BY <1>1, <3>2, ShowsStays
  <2>5. ASSUME NEW k \in ReminderIds, TakeOver(k), tg = reminder[k].tg PROVE Shows(tg, t)'
    <3>1. reminder[k].at = "posted" /\ reminder' = [reminder EXCEPT ![k].at = "over"]
          /\ shown' = shown
      BY <2>5 DEF TakeOver
    <3>2. reminder'[k].at = "over"
      BY <1>1, <3>1, DeliveryOf DEF TypeOK, Delivery
    <3>3. AnswersOf(k) = {} /\ \E x \in ShownOf(k) : x.tg = tg
      <4>1. AnswersOf(k) = {}
        BY <1>1, <2>5, <3>1 DEF ReminderInv
      <4>2. \E x \in ShownOf(k) : x.tg = tg
        BY <1>1, <2>5, <3>1, ReminderMessage
      <4> QED BY <4>1, <4>2
    <3>4. ASSUME NEW d \in Chats, NEW r \in Answers(d)' PROVE r.of # k
      <4>1. \A old \in Answers(d) : old.of # k /\ old \in Row
        BY <1>1, <3>3, AnswerTypes DEF AnswersOf
      <4>2. r \in Answers(d) \/ \E old \in Answers(d) : r = [old EXCEPT !.tg = reminder[k].tg]
        BY <1>1, <2>5, <3>4, TakenOverAnswers
      <4> QED BY <4>1, <4>2 DEF Row
    <3>5. AnswersOf(k)' = {}
      BY <3>4 DEF AnswersOf
    <3>6. PICK x \in shown' : x.tg = tg /\ x.of = k
      BY <3>1, <3>3 DEF ShownOf
    <3>7. TakenOver(k)'
      BY <3>2, <3>5 DEF TakenOver
    <3>8. TakenOver(x.of)'
      BY <3>6, <3>7 DEF TakenOver, AnswersOf, Answers
    <3> QED BY <3>6, <3>8 DEF Shows
  <2> QED BY <1>1, <1>3, <2>1, <2>2, <2>3, <2>4, <2>5, RowSteps
<1>4. ASSUME NEW c \in Chats, NEW row \in Answers(c)', NEW t, t = row.of, NEW x \in ShownOf(t)'
      PROVE  row.ctx \in {0, x.ctx}
  <2>1. CASE shown' = shown
    <3>1. x \in ShownOf(t)
      BY <2>1 DEF ShownOf
    <3>2. \A old \in Answers(c) : old.of = t => old.ctx \in {0, x.ctx}
      BY <1>1, <3>1 DEF RowInv
    <3>3. ASSUME NEW k \in ReminderIds, Link(k), t = k, row.ctx = k PROVE row.ctx = x.ctx
      BY <1>1, <3>1, <3>3, ReminderMessage DEF Link
    <3>4. ASSUME NEW u \in Updates, Save(u) \/ SaveContext(u), t = u PROVE FALSE
      BY <1>1, <3>1, <3>4 DEF StageInv, Save, SaveContext, Unseen
    <3> QED BY <1>1, <1>4, <3>2, <3>3, <3>4, RowSteps
  <2>2. ASSUME NEW w \in Workers, Show(w) PROVE row.ctx \in {0, x.ctx}
    <3>1. row \in Answers(c) /\ task[w].at = "answered"
      BY <2>2, SameAnswers DEF Show, On
    <3>2. x \in ShownOf(t) \/ (t = U(w).id /\ x.ctx = task[w].ctx)
      BY <2>2 DEF Show, Post, ShownOf
    <3>3. t = U(w).id => row.ctx \in {0, task[w].ctx}
      BY <1>1, <1>4, <3>1 DEF StageInv, AnswersOf
    <3> QED BY <1>1, <1>4, <3>1, <3>2, <3>3 DEF RowInv
  <2>3. ASSUME NEW k \in ReminderIds, NEW d \in Chats, Remind(k, d) PROVE row.ctx \in {0, x.ctx}
    <3>1. row \in Answers(c) /\ AnswersOf(k) = {}
      BY <1>1, <2>3, SameAnswers DEF Remind, ReminderInv
    <3>2. t # k
      BY <1>4, <3>1 DEF AnswersOf
    <3>3. x \in ShownOf(t)
      BY <2>3, <3>2 DEF Remind, Post, ShownOf
    <3> QED BY <1>1, <1>4, <3>1, <3>3 DEF RowInv
  <2> QED BY <1>1, <2>1, <2>2, <2>3, ShownStays
<1> SUFFICES ASSUME NEW c \in Chats, NEW row \in Answers(c)'
             PROVE  /\ row.tg # 0 => (\E x \in shown : x.tg = row.tg /\ (x.of = row.of \/ TakenOver(x.of)))'
                    /\ \A x \in ShownOf(row.of)' : row.ctx \in {0, x.ctx}
  BY DEF RowInv
<1>5. PICK tg, t : tg = row.tg /\ t = row.of
  OBVIOUS
<1>6. Shows(tg, t)' /\ \A x \in ShownOf(t)' : row.ctx \in {0, x.ctx}
  BY <1>3, <1>4, <1>5
<1> QED BY <1>5, <1>6 DEF Shows, ShownOf

(* A message is being recorded until it is, or is known not to be.         *)
LEMMA RecordingStays ==
  ASSUME ChatInv, [Next]_vars, NEW x, BeingRecorded(x)
  PROVE  \/ x.tg \in unlinked' \/ BeingRecorded(x)'
         \/ \E w \in Workers : /\ Record(w) /\ task[w].tg = x.tg
                               /\ U(w).id = x.of /\ ChatOf(w) = x.chat
<1>1. TypeOK /\ TokenInv /\ StartInv
  BY DEF ChatInv, FollowInv
<1>2. PICK w \in Workers : /\ task[w].at = "shown" /\ task[w].tg = x.tg
                           /\ U(w).id = x.of /\ ChatOf(w) = x.chat
  BY DEF BeingRecorded
<1>3. CASE StopBot
  BY <1>2, <1>3 DEF StopBot
<1>4. CASE task'[w] = task[w]
  <2>1. worker'[w] = worker[w]
    BY <1>1, <1>2, <1>4, WorkerStays
  <2> QED BY <1>2, <1>4, <2>1 DEF BeingRecorded, U, ChatOf
<1>5. CASE Step(w)
  <2>1. Record(w)
    BY <1>2, <1>5 DEF Step, Restart, Refuse, Ask, GiveUp, Receive, Show, Finish, On
  <2> QED BY <1>2, <2>1
<1> QED BY <1>1, <1>3, <1>4, <1>5, TaskStays

LEMMA RecordedRow ==
  ASSUME TypeOK, NEW w \in Workers, Record(w), task[w].tg \notin unlinked',
         NEW c \in Chats, c = ChatOf(w), NEW row \in Answers(c)', row.of = U(w).id
  PROVE  row.tg = task[w].tg
<1>1. PICK old \in Answers(c) :
        Changed(row, old, c = ChatOf(w) /\ old.of = U(w).id, "tg", task[w].tg)
  BY RecordRows
<1> QED BY <1>1 DEF Changed

LEMMA NamedRow ==
  ASSUME TypeOK, NEW k \in ReminderIds, Name(k), reminder'[k].at = "named",
         NEW c \in Chats, c = reminder[k].chat, NEW row \in Answers(c)', row.of = k
  PROVE  row.tg = reminder[k].tg
<1>1. PICK old \in Answers(c) :
        Changed(row, old, c = reminder[k].chat /\ old.of = k, "tg", reminder[k].tg)
  BY NameRows
<1> QED BY <1>1 DEF Changed

LEMMA LinkNext ==
  ASSUME ChatInv, [Next]_vars
  PROVE  LinkInv'
<1>1. TypeOK /\ TokenInv /\ StartInv /\ StageInv /\ ReminderInv /\ LinkInv /\ ShowInv
      /\ shown \subseteq Message
  BY DEF ChatInv, FollowInv, TypeOK
<1>2. unlinked \subseteq unlinked'
  BY UnlinkedGrows
<1> SUFFICES ASSUME NEW x \in shown', NEW c \in Chats, c = x.chat, NEW row \in Answers(c)',
                    row.of = x.of, x.tg \notin unlinked', row.tg # x.tg, ~BeingRecorded(x)'
             PROVE  x.of \in ReminderIds /\ reminder'[x.of].at # "named" /\ row.ctx = 0
  <2>1. TypeOK'
    BY <1>1, NextTyped DEF TokenInv
  <2>2. \A x \in shown' : x.chat \in Chats
    BY <2>1 DEF TypeOK, Message
  <2> QED BY <2>2 DEF LinkInv, Answers
<1>3. ASSUME NEW w \in Workers, Show(w), x \notin shown PROVE FALSE
  <2>1. PICK learned \in {0, posted + 1} :
          /\ Post(U(w).id, ChatOf(w), task[w].ctx, learned)
          /\ task' = IF learned = 0 THEN [task EXCEPT ![w] = Done]
                                    ELSE [task EXCEPT ![w].at = "shown", ![w].tg = learned]
    BY <1>3 DEF Show
  <2>2. posted \in Nat /\ learned \in Nat
    BY <1>1 DEF TypeOK
  <2>3. PICK ids \in SUBSET Nat :
          /\ shown' = shown \union Parts(ids, U(w).id, ChatOf(w), task[w].ctx)
          /\ unlinked' = unlinked \union (ids \ {learned})
    BY <2>1, <2>2, Posted
  <2>4. x.tg \in ids /\ x.chat = ChatOf(w) /\ x.of = U(w).id
    BY <1>3, <2>3, PartsOf
  <2>5. x.tg = learned
    BY <2>3, <2>4
  <2>6. x.tg # 0
    <3>1. \A id \in ids : id \in Nat /\ NumberInv'
      BY NumberNext
    <3> QED BY <2>4, <3>1 DEF NumberInv
  <2>7. task'[w].at = "shown" /\ task'[w].tg = x.tg /\ worker' = worker
    BY <1>1, <1>3, <2>1, <2>5, <2>6 DEF Show, pool, TypeOK, Task
  <2> QED BY <2>4, <2>7 DEF BeingRecorded, U, ChatOf
<1>4. ASSUME NEW k \in ReminderIds, NEW d \in Chats, Remind(k, d), x \notin shown PROVE FALSE
  <2>1. x.of = k
    BY <1>4 DEF Remind, Post
  <2>2. row \in AnswersOf(k)'
    BY <2>1 DEF AnswersOf
  <2>3. AnswersOf(k)' = {}
    BY <1>4, RemindShows
  <2> QED BY <2>2, <2>3
<1>5. x \in shown
  BY <1>1, <1>3, <1>4, ShownStays
<1>6. ASSUME NEW k \in ReminderIds, x.of = k
      PROVE  /\ ~Name(k) \/ reminder'[k].at # "named"
             /\ reminder[k].at # "none" /\ x.tg = reminder[k].tg
  <2>1. x \in ShownOf(k)
    BY <1>5, <1>6 DEF ShownOf
  <2>2. reminder[k].at # "none"
    BY <1>1, <2>1 DEF ReminderInv
  <2>3. x.tg = reminder[k].tg /\ x.chat = reminder[k].chat
    BY <1>1, <1>2, <2>1, ReminderMessage
  <2>4. ASSUME Name(k), reminder'[k].at = "named" PROVE FALSE
    BY <1>1, <1>6, <2>3, <2>4, NamedRow
  <2> QED BY <2>2, <2>3, <2>4
(* An old row that was not linked was the row of a reminder. *)
<1>7. ASSUME NEW old \in Answers(c), old.of = row.of, old.tg # x.tg
      PROVE  x.of \in ReminderIds /\ reminder[x.of].at # "named" /\ old.ctx = 0
  <2>1. \/ x.tg \in unlinked \/ old.tg = x.tg \/ BeingRecorded(x)
        \/ x.of \in ReminderIds /\ reminder[x.of].at # "named" /\ old.ctx = 0
    BY <1>1, <1>5, <1>7 DEF LinkInv
  <2>2. ASSUME BeingRecorded(x) PROVE FALSE
    <3>1. PICK w \in Workers : /\ Record(w) /\ task[w].tg = x.tg
                               /\ U(w).id = x.of /\ ChatOf(w) = x.chat
      BY <2>2, RecordingStays
    <3>2. row.tg = task[w].tg
      BY <1>1, <3>1, RecordedRow
    <3> QED BY <3>1, <3>2
  <2> QED BY <1>2, <1>7, <2>1, <2>2
<1>8. ASSUME x.of \in ReminderIds, reminder[x.of].at # "named"
      PROVE  reminder'[x.of].at # "named"
  <2>1. PICK k \in ReminderIds : k = x.of
    BY <1>8
  <2>2. ~Name(k) \/ reminder'[k].at # "named"
    BY <1>6, <2>1
  <2>3. ASSUME NEW d \in Chats, Remind(k, d) PROVE FALSE
    BY <1>6, <2>1, <2>3 DEF Remind
  <2> QED BY <1>1, <1>8, <2>1, <2>2, <2>3, ReminderSteps
<1>9. ASSUME NEW old \in Answers(c), old.of = row.of, old.tg = row.tg, old.ctx = row.ctx
      PROVE  x.of \in ReminderIds /\ reminder'[x.of].at # "named" /\ row.ctx = 0
  BY <1>7, <1>8, <1>9
<1>10. ASSUME NEW w \in Workers, Record(w), row.of = U(w).id, row.tg = task[w].tg PROVE FALSE
  <2>1. x \in ShownOf(U(w).id)
    BY <1>5, <1>10 DEF ShownOf
  <2> QED BY <1>1, <1>2, <1>10, <2>1 DEF ShowInv, Record, On
<1>11. ASSUME NEW k \in ReminderIds, Name(k), row.of = k, row.tg = reminder[k].tg PROVE FALSE
  BY <1>6, <1>11
<1>12. ASSUME NEW k \in ReminderIds, Link(k), row.of = k,
              NEW old \in Answers(c), old.of = row.of, old.tg = row.tg
       PROVE  FALSE
  BY <1>7, <1>12 DEF Link
<1>13. ASSUME NEW u \in Updates, Save(u) \/ SaveContext(u), row.of = u PROVE FALSE
  <2>1. x \in ShownOf(u)
    BY <1>5, <1>13 DEF ShownOf
  <2> QED BY <1>1, <1>13, <2>1 DEF StageInv, Save, SaveContext, Unseen
<1>14. ASSUME NEW k \in ReminderIds, Remember(k), row.of = k, row.ctx = 0
       PROVE  x.of \in ReminderIds /\ reminder'[x.of].at # "named" /\ row.ctx = 0
  BY <1>8, <1>14 DEF Remember
<1>15. ASSUME NEW k \in ReminderIds, TakeOver(k),
              NEW old \in Answers(c), old.of = row.of, old.ctx = row.ctx, old.tg \in unlinked'
       PROVE  x.of \in ReminderIds /\ reminder'[x.of].at # "named" /\ row.ctx = 0
  <2>1. old.tg # x.tg
    BY <1>15
  <2> QED BY <1>7, <1>8, <1>15, <2>1
<1> QED BY <1>1, <1>9, <1>10, <1>11, <1>12, <1>13, <1>14, <1>15, RowSteps

LEMMA ShowNext ==
  ASSUME ChatInv, [Next]_vars
  PROVE  ShowInv'
<1>1. TypeOK /\ TokenInv /\ OrderInv /\ StartInv /\ NumberInv /\ ReplyInv /\ StageInv /\ ShowInv
      /\ OneAtATime
  BY DEF ChatInv, FollowInv, TokenInv
<1>2. shown \subseteq shown' /\ unlinked \subseteq unlinked'
  BY <1>1, ShownStays, UnlinkedGrows
<1> SUFFICES ASSUME NEW w \in Workers, task'[w].at = "shown", NEW t, t = worker'[w].update.id
             PROVE  /\ \E x \in ShownOf(t)' : x.tg = task'[w].tg
                    /\ \A x \in ShownOf(t)' : x.tg = task'[w].tg \/ x.tg \in unlinked'
                    /\ \A u \in Updates :
                         request'[u].at \in {"sent", "kept", "accepted"}
                         /\ request'[u].chat = worker'[w].update.chat
                           => request'[u].re # task'[w].tg
  BY DEF ShowInv, ShownOf, U, ChatOf
<1>3. worker'[w] = worker[w] /\ worker[w].pc = "running" /\ U(w).id = t /\ t \in Updates
      /\ worker'[w].update.chat = ChatOf(w)
  <2>1. worker'[w] = worker[w] /\ worker[w].pc = "running"
    BY <1>1, WorkerStays
  <2> QED BY <1>1, <2>1, Running DEF U, ChatOf
<1>4. ASSUME task'[w] = task[w], ~Show(w)
      PROVE  /\ \E x \in ShownOf(t)' : x.tg = task'[w].tg
             /\ \A x \in ShownOf(t)' : x.tg = task'[w].tg \/ x.tg \in unlinked'
             /\ \A u \in Updates :
                  request'[u].at \in {"sent", "kept", "accepted"}
                  /\ request'[u].chat = ChatOf(w)
                    => request'[u].re # task'[w].tg
  <2>1. \A v \in Workers : ~(Show(v) /\ U(v).id = t)
    BY <1>3, <1>4, OneHandles DEF Show, On
  <2>2. ShownOf(t)' = ShownOf(t)
    BY <1>1, <1>3, <2>1, ShownStaysOf
  <2>3. /\ \E x \in ShownOf(t) : x.tg = task[w].tg
        /\ \A x \in ShownOf(t) : x.tg = task[w].tg \/ x.tg \in unlinked
        /\ \A u \in Updates :
             request[u].at \in {"sent", "kept", "accepted"} /\ request[u].chat = ChatOf(w)
               => request[u].re # task[w].tg
    BY <1>1, <1>3, <1>4 DEF ShowInv
  <2>4. ASSUME NEW u \in Updates, request'[u].at \in {"sent", "kept", "accepted"},
               request'[u].chat = ChatOf(w)
        PROVE  request'[u].re # task'[w].tg
    <3>1. ASSUME NEW v \in Workers, Ask(v), U(v).id = u PROVE FALSE
      <4>1. request'[u].chat = ChatOf(v) /\ worker[v].pc = "running" /\ task[v].at = "start"
        BY <1>1, <3>1 DEF Ask, On, TypeOK
      <4>2. v = w
        BY <1>1, <1>3, <2>4, <4>1 DEF OneAtATime, At
      <4> QED BY <1>4, <4>1, <4>2
    <3>2. CASE Accept(u) \/ Trim(u)
      <4>1. /\ request[u].at \in {"sent", "kept"}
            /\ request'[u].chat = request[u].chat /\ request'[u].re = request[u].re
        <5>1. ~Fail(u)
          BY <1>1, <2>4 DEF Fail, TypeOK, None
        <5> QED BY <1>1, <2>4, <3>2, <5>1, Served DEF Serve
      <4> QED BY <1>4, <2>3, <2>4, <4>1
    <3>3. CASE request'[u] = request[u]
      BY <1>4, <2>3, <2>4, <3>3
    <3> QED BY <1>1, <2>4, <3>1, <3>2, <3>3, RequestSteps
  <2> QED BY <1>2, <1>4, <2>2, <2>3, <2>4
<1>5. ASSUME Show(w)
      PROVE  /\ \E x \in ShownOf(t)' : x.tg = task'[w].tg
             /\ \A x \in ShownOf(t)' : x.tg = task'[w].tg \/ x.tg \in unlinked'
             /\ \A u \in Updates :
                  request'[u].at \in {"sent", "kept", "accepted"}
                  /\ request'[u].chat = ChatOf(w)
                    => request'[u].re # task'[w].tg
  <2>1. PICK learned \in {0, posted + 1} :
          /\ Post(t, ChatOf(w), task[w].ctx, learned)
          /\ task' = IF learned = 0 THEN [task EXCEPT ![w] = Done]
                                    ELSE [task EXCEPT ![w].at = "shown", ![w].tg = learned]
    BY <1>3, <1>5 DEF Show
  <2>2. posted \in Nat /\ learned \in Nat /\ learned # 0
    BY <1>1, <2>1 DEF TypeOK, Done
  <2>3. task'[w].tg = learned
    BY <1>1, <2>1, <2>2 DEF TypeOK, Task
  <2>4. PICK ids \in SUBSET Nat :
          /\ learned \in ids
          /\ shown' = shown \union Parts(ids, t, ChatOf(w), task[w].ctx)
          /\ unlinked' = unlinked \union (ids \ {learned})
    BY <2>1, <2>2, Posted
  <2>5. ShownOf(t) = {}
    BY <1>1, <1>3, <1>5 DEF StageInv, Show, On
  <2>6. \A x \in ShownOf(t)' : x.tg \in ids
    BY <2>4, <2>5, PartsOf DEF ShownOf
  <2>7. \E x \in ShownOf(t)' : x.tg = learned
    <3>1. PICK new : new = [tg |-> learned, chat |-> ChatOf(w), of |-> t, ctx |-> task[w].ctx]
      OBVIOUS
    <3>2. new \in shown' /\ new.of = t /\ new.tg = learned
      BY <2>4, <3>1 DEF Parts
    <3> QED BY <3>2 DEF ShownOf
  <2>8. ~Replyable(learned)
    BY <1>1, <2>1, <2>2 DEF NumberInv, Replyable
  <2>9. ASSUME NEW u \in Updates, request'[u].at \in {"sent", "kept", "accepted"}
        PROVE  request'[u].re # learned
    <3>1. request'[u] = request[u] /\ request[u] # None
      BY <1>5, <2>9 DEF Show, None
    <3>2. Replyable(request[u].re)
      BY <1>1, <3>1 DEF ReplyInv
    <3>3. PICK re : re = request[u].re
      OBVIOUS
    <3> QED BY <2>8, <3>1, <3>2, <3>3
  <2> QED BY <2>3, <2>4, <2>6, <2>7, <2>9
<1>6. task'[w] = task[w] \/ Show(w)
  <2>1. ~StopBot
    BY DEF StopBot, Start
  <2>2. Step(w) => Show(w)
    BY <1>1 DEF Step, Restart, Refuse, Ask, GiveUp, Receive, Record, Finish, Start, Done, TypeOK,
                Task
  <2> QED BY <1>1, <2>1, <2>2, TaskStays
<1> QED BY <1>3, <1>4, <1>5, <1>6

LEMMA ChatInvNext == ChatInv /\ [Next]_vars => ChatInv'
<1> SUFFICES ASSUME ChatInv, [Next]_vars PROVE ChatInv'
  OBVIOUS
<1>1. TypeOK' /\ TokenInv'
  BY NextTyped, StepOfPool, NextToken DEF ChatInv, TypeOK, TokenInv
<1>2. FollowInv'
  BY StartNext, AskedNext, NumberNext, ReplyNext, StageNext, ReminderNext, RowNext, LinkNext,
     ShowNext DEF FollowInv
<1> QED BY <1>1, <1>2, OrderStays DEF ChatInv

(* The context found is that of the text replied to. *)
LEMMA LookupFollows ==
  ASSUME ChatInv, [Next]_vars, NEW u \in Updates,
         request[u].at = "accepted", request'[u].at = "found",
         NEW x \in shown, x.tg = request[u].re, x.chat = request[u].chat,
         Kept(x), x.tg \notin unlinked'
  PROVE  request'[u].ctx = x.ctx
<1>1. /\ TypeOK /\ NumberInv /\ RowInv /\ LinkInv /\ ShowInv
      /\ x.tg \notin unlinked /\ request[u] \in Call
  BY UnlinkedGrows, CallOf DEF ChatInv, FollowInv
<1>2. PICK c \in Chats : c = x.chat
  BY <1>1 DEF Call
<1>3. Lookup(u)
  <2>1. ~LookupAnew(u)
    BY DEF LookupAnew
  <2>2. request'[u] # request[u]
    OBVIOUS
  <2> QED BY <1>1, <2>1, <2>2, RequestSteps
<1>4. PICK ctx \in IF Stored(c, x.tg) = {} THEN {u} ELSE {row.ctx : row \in Stored(c, x.tg)} :
        request'[u].ctx = ctx
  <2>1. PICK ctx \in IF Stored(c, x.tg) = {} THEN {u} ELSE {row.ctx : row \in Stored(c, x.tg)} :
          request' = [request EXCEPT ![u].at = "found", ![u].ctx = ctx]
    BY <1>2, <1>3 DEF Lookup
  <2>2. request'[u].ctx = ctx
    BY <1>1, <2>1 DEF TypeOK, Call
  <2> QED BY <2>1, <2>2
(* Its row is still there, and has its message. *)
<1>5. PICK kept \in Answers(c) : kept.of = x.of /\ kept.ctx # 0
  BY <1>2 DEF Kept, Answers
<1>6. kept.tg = x.tg
  <2>1. ~BeingRecorded(x)
    <3> SUFFICES ASSUME NEW w \in Workers, task[w].at = "shown", task[w].tg = x.tg,
                        ChatOf(w) = x.chat
                 PROVE  FALSE
      BY DEF BeingRecorded
    <3>1. request[u].re # task[w].tg
      BY <1>1 DEF ShowInv
    <3> QED BY <3>1
  <2> QED BY <1>1, <1>2, <1>5, <2>1 DEF LinkInv
<1>7. x.tg # 0
  BY <1>1 DEF NumberInv, TypeOK
<1>8. Stored(c, x.tg) # {}
  <2>1. kept \in Stored(c, x.tg)
    BY <1>5, <1>6, <1>7 DEF Stored, Answers
  <2> QED BY <2>1
(* Every row with this message is one of the text. *)
<1>9. ASSUME NEW row \in Stored(c, x.tg) PROVE row.ctx = x.ctx
  <2>1. row \in Answers(c) /\ row.tg = x.tg /\ row.tg # 0 /\ row.ctx # 0
    BY <1>9 DEF Stored, Answers
  <2>2. PICK y \in shown : y.tg = row.tg /\ (y.of = row.of \/ TakenOver(y.of))
    BY <1>1, <2>1 DEF RowInv
  <2>3. y = x
    BY <1>1, <2>1, <2>2 DEF NumberInv
  <2>4. ~TakenOver(x.of)
    BY <1>5 DEF TakenOver, AnswersOf
  <2>5. x \in ShownOf(row.of)
    BY <2>2, <2>3, <2>4 DEF ShownOf
  <2> QED BY <1>1, <2>1, <2>5 DEF RowInv
<1> QED BY <1>4, <1>8, <1>9

(* Behind the theorem: what links messages, rows and requests holds for    *)
(* ever, because one worker at a time has an update and holds the chat.    *)
LEMMA FollowInvariant == Spec => []ChatInv
<1>1. Init => ChatInv
  BY InitTyped, InitToken, InitFollow DEF Init, ChatInv
<1> QED BY <1>1, ChatInvNext, PTL DEF Spec

(* For every number of chats, workers, messages, reminders and faults, a   *)
(* reply is answered from the context of the text replied to, as long as   *)
(* that text's row is in the memory and its message was recorded, and the  *)
(* reply is not one that is answered from a list.                          *)
THEOREM FollowUpHolds == Spec => FollowUpKeepsContext
<1> DEFINE Follows ==
      \A u \in Updates :
        request[u].at = "accepted" /\ request'[u].at = "found" =>
          \A x \in shown :
            x.tg = request[u].re /\ x.chat = request[u].chat /\ Kept(x) /\ x.tg \notin unlinked'
              => request'[u].ctx = x.ctx
<1>1. ChatInv /\ [Next]_vars => [Follows]_vars
  BY LookupFollows
<1> HIDE DEF Follows
<1>2. Spec => [][Follows]_vars
  BY <1>1, FollowInvariant, PTL DEF Spec
<1> QED BY <1>2 DEF FollowUpKeepsContext, Follows

(* Behind the theorems: types and token are preserved together, since a    *)
(* reply names a message shown, and the token goes to a worker in line.    *)
LEMMA ChatInvariant == Spec => [](TypeOK /\ TokenInv)
<1>1. Init => TypeOK /\ TokenInv
  BY InitTyped, InitToken DEF Init
<1>2. TypeOK /\ TokenInv /\ [Next]_vars => (TypeOK /\ TokenInv)'
  BY NextTyped, StepOfPool, NextToken DEF TokenInv, TypeOK
<1> QED BY <1>1, <1>2, PTL DEF Spec

(* Every reachable state of the chat is well typed.                        *)
THEOREM TypeCorrect == Spec => []TypeOK
BY ChatInvariant, PTL

(* Whatever memory, reminders and failing calls do, the chat's bot is the  *)
(* update pool: what holds of the pool holds here.                         *)
THEOREM ImplementsPool == Spec => PoolSpec
<1>1. Init => PoolInit
  BY DEF Init
<1>2. TypeOK /\ [Next]_vars => [PoolNext]_pool
  BY StepOfPool
<1> QED BY <1>1, <1>2, TypeCorrect, PTL DEF Spec, PoolSpec

(* Two workers never handle messages of one chat at the same time, so that *)
(* a session is read and written for one question at a time.               *)
THEOREM OneMessageAtATime == Spec => []OneAtATime
BY ImplementsPool, OneWorkerPerChat, PTL

-----------------------------------------------------------------------------
(* What users are promised *)

(* A context is none, the update's own, or that of a message shown with    *)
(* number re, or the message is a reminder's.                              *)
Sourced(ctx, u, re) ==
  \/ ctx = 0 \/ ctx = u
  \/ \E x \in shown : x.tg = re /\ (ctx = x.ctx \/ (x.of \in ReminderIds /\ ctx \in Contexts))

(* A worker that asks has a question, is given the answer to the reply it  *)
(* has, and the context found for it is one the reply may be answered from.*)
SourceInv ==
  /\ \A u \in Updates : request[u] # None => Sourced(request[u].ctx, u, request[u].re)
  /\ \A w \in Workers :
       /\ task[w].at \in {"asked", "answered"} => U(w).kind = "question"
       /\ task[w].at = "asked" /\ request[U(w).id] # None => request[U(w).id].re = U(w).re
       /\ task[w].at = "answered" => Sourced(task[w].ctx, U(w).id, U(w).re)

(* Every row with the message replied to is the text's or a reminder's.    *)
LEMMA LookupSources ==
  ASSUME ChatInv, NEW u \in Updates, Lookup(u)
  PROVE  /\ request'[u].re = request[u].re
         /\ Sourced(request'[u].ctx, u, request[u].re)
<1> DEFINE stored == Stored(request[u].chat, request[u].re)
<1>1. TypeOK /\ RowInv /\ request[u] \in Call
  BY CallOf DEF Lookup, ChatInv, FollowInv
<1>2. PICK ctx \in IF stored = {} THEN {u} ELSE {row.ctx : row \in stored} :
        request' = [request EXCEPT ![u].at = "found", ![u].ctx = ctx]
  BY DEF Lookup
<1>3. request'[u].re = request[u].re /\ request'[u].ctx = ctx
  BY <1>1, <1>2 DEF TypeOK, Call
<1>4. CASE stored = {}
  BY <1>2, <1>3, <1>4 DEF Sourced
<1>5. CASE stored # {}
  <2>1. PICK row \in stored : ctx = row.ctx
    BY <1>2, <1>5
  <2>2. PICK c \in Chats : c = request[u].chat
    BY <1>1 DEF Call
  <2>3. row \in Answers(c) /\ row.tg = request[u].re /\ row.tg # 0 /\ row.ctx # 0
    BY <2>1, <2>2 DEF Stored, Answers
  <2>4. PICK x \in shown : x.tg = row.tg /\ (x.of = row.of \/ TakenOver(x.of))
    BY <1>1, <2>3 DEF RowInv
  <2>5. row.ctx \in Contexts
    BY <1>1, <2>2, <2>3, AnswerTypes DEF Row
  <2>6. x.of = row.of => row.ctx = x.ctx
    BY <1>1, <2>2, <2>3, <2>4 DEF RowInv, ShownOf
  <2> QED BY <1>3, <2>1, <2>3, <2>4, <2>5, <2>6 DEF Sourced, TakenOver
<1> QED BY <1>3, <1>4, <1>5

LEMMA RequestSources ==
  ASSUME ChatInv, SourceInv, [Next]_vars, NEW u \in Updates, request'[u] # None
  PROVE  Sourced(request'[u].ctx, u, request'[u].re)
<1>1. TypeOK
  BY DEF ChatInv
<1>2. CASE request'[u] = request[u]
  BY <1>2 DEF SourceInv
<1>3. CASE Lookup(u)
  BY <1>3, LookupSources
<1>4. CASE LookupAnew(u)
  <2>1. request'[u].ctx = u
    BY <1>1, <1>4, CallOf DEF LookupAnew, TypeOK, Call
  <2> QED BY <2>1 DEF Sourced
<1>5. CASE Serve(u) /\ ~Lookup(u) /\ ~LookupAnew(u)
  <2>1. ~Fail(u) /\ request[u] # None
    BY <1>1, <1>5, Served
  <2>2. request'[u].ctx = request[u].ctx /\ request'[u].re = request[u].re
    BY <1>1, <1>5, <2>1, Served
  <2> QED BY <2>1, <2>2 DEF SourceInv
<1>6. ASSUME NEW w \in Workers, Ask(w), U(w).id = u PROVE Sourced(request'[u].ctx, u, request'[u].re)
  <2>1. request'[u].ctx = 0
    BY <1>1, <1>6 DEF Ask, TypeOK
  <2> QED BY <2>1 DEF Sourced
<1>7. ASSUME NEW w \in Workers, Receive(w), U(w).id = u PROVE FALSE
  BY <1>1, <1>7 DEF Receive, TypeOK
<1> QED BY <1>1, <1>2, <1>3, <1>4, <1>5, <1>6, <1>7, RequestStays

(* Only its worker asks a question, and what serves it keeps the reply.    *)
LEMMA AskedReply ==
  ASSUME ChatInv, SourceInv, [Next]_vars, NEW w \in Workers,
         task'[w] = task[w], task[w].at = "asked", worker[w].pc = "running",
         request'[U(w).id] # None
  PROVE  request'[U(w).id].re = U(w).re
<1> DEFINE u == U(w).id
<1>1. TypeOK /\ u \in Updates
  BY Running DEF ChatInv
<1>2. CASE request'[u] = request[u]
  BY <1>2 DEF SourceInv
<1>3. CASE Serve(u)
  <2>1. request[u] # None /\ request'[u].re = request[u].re
    BY <1>1, <1>3, Served
  <2> QED BY <2>1 DEF SourceInv
<1>4. ASSUME NEW v \in Workers, Ask(v) \/ Receive(v), U(v).id = u
      PROVE  FALSE
  <2>1. v = w
    BY <1>4, OneHandles DEF Ask, Receive, On
  <2>2. task'[w].at # "asked" \/ Ask(w)
    BY <1>1, <1>4, <2>1 DEF Receive, TypeOK, Task
  <2> QED BY <2>2 DEF Ask, On
<1> QED BY <1>1, <1>2, <1>3, <1>4, RequestStays

LEMMA SourceNext ==
  ASSUME ChatInv, SourceInv, [Next]_vars
  PROVE  SourceInv'
<1>1. TypeOK /\ TokenInv /\ StartInv
  BY DEF ChatInv, FollowInv
<1>2. ASSUME NEW u \in Updates, request'[u] # None
      PROVE  Sourced(request[u].ctx, u, request[u].re)'
  <2>1. PICK ctx, re : ctx = request'[u].ctx /\ re = request'[u].re
    OBVIOUS
  <2>2. Sourced(ctx, u, re)
    BY <1>2, <2>1, RequestSources
  <2>3. shown \subseteq shown'
    BY <1>1, ShownStays
  <2> QED BY <2>1, <2>2, <2>3 DEF Sourced
<1>3. ASSUME NEW w \in Workers, task'[w].at \in {"asked", "answered"}
      PROVE  /\ worker'[w].update.kind = "question"
             /\ task'[w].at = "asked" /\ request'[worker'[w].update.id] # None
                  => request'[worker'[w].update.id].re = worker'[w].update.re
             /\ task'[w].at = "answered" => Sourced(task[w].ctx, U(w).id, U(w).re)'
  <2>1. worker'[w] = worker[w] /\ worker[w].pc = "running" /\ U(w).id \in Updates
    <3>1. worker'[w] = worker[w] /\ worker[w].pc = "running"
      BY <1>1, <1>3, WorkerStays
    <3> QED BY <1>1, <3>1, Running
  <2>2. CASE task'[w] = task[w]
    <3>1. U(w).kind = "question"
      BY <1>3, <2>2 DEF SourceInv
    <3>2. task[w].at = "asked" /\ request'[U(w).id] # None => request'[U(w).id].re = U(w).re
      BY <2>1, <2>2, AskedReply
    <3>3. ASSUME task[w].at = "answered" PROVE Sourced(task[w].ctx, U(w).id, U(w).re)'
      <4>1. PICK ctx, u, re : ctx = task[w].ctx /\ u = U(w).id /\ re = U(w).re
        OBVIOUS
      <4>2. Sourced(ctx, u, re)
        BY <3>3, <4>1 DEF SourceInv
      <4>3. shown \subseteq shown'
        BY <1>1, ShownStays
      <4> QED BY <2>1, <2>2, <4>1, <4>2, <4>3 DEF Sourced, U
    <3> QED BY <2>1, <2>2, <3>1, <3>2, <3>3 DEF U
  <2>3. CASE Ask(w)
    <3>1. task'[w].at = "asked" /\ U(w).kind = "question"
      BY <1>1, <2>3 DEF Ask, TypeOK
    <3>2. request'[U(w).id].re = U(w).re
      BY <1>1, <2>1, <2>3 DEF Ask, TypeOK
    <3> QED BY <2>1, <3>1, <3>2 DEF U
  <2>4. CASE Receive(w)
    <3>1. /\ task[w].at = "asked" /\ request[U(w).id].at = "saved" /\ request[U(w).id] # None
          /\ task'[w].at = "answered" /\ task'[w].ctx = request[U(w).id].ctx /\ shown' = shown
      BY <1>1, <2>4 DEF Receive, On, None, TypeOK, Task
    <3>2. U(w).kind = "question" /\ request[U(w).id].re = U(w).re
      BY <3>1 DEF SourceInv
    <3>3. Sourced(request[U(w).id].ctx, U(w).id, request[U(w).id].re)
      BY <2>1, <3>1 DEF SourceInv
    <3>4. Sourced(task[w].ctx, U(w).id, U(w).re)'
      BY <2>1, <3>1, <3>2, <3>3 DEF Sourced, U
    <3> QED BY <2>1, <3>1, <3>2, <3>4 DEF U
  <2>5. ~StopBot
    BY <1>3 DEF StopBot, Start
  <2>6. Step(w) => Ask(w) \/ Receive(w) \/ task'[w] = task[w]
    <3>1. Show(w) => task'[w].at \in {"shown", "done"}
      BY <1>1 DEF Show, Done, TypeOK, Task
    <3>2. Restart(w) \/ Refuse(w) \/ GiveUp(w) \/ Record(w) => task'[w] = Done
      BY <1>1 DEF Restart, Refuse, GiveUp, Record, TypeOK
    <3>3. Finish(w) => task'[w] = Start
      BY <1>1 DEF Finish, TypeOK
    <3> QED BY <1>3, <3>1, <3>2, <3>3 DEF Step, Start, Done
  <2> QED BY <1>1, <2>2, <2>3, <2>4, <2>5, <2>6, TaskStays
<1> QED BY <1>2, <1>3 DEF SourceInv, U, Sourced

-----------------------------------------------------------------------------
(* The refinement *)

(* The pool's steps only close updates, but for Send. *)
LEMMA UnhandledShrinks ==
  ASSUME PoolTypeOK, LineWaits, [PoolNext]_pool, incoming' = incoming \/ Dispatch
  PROVE  Unhandled' \subseteq Unhandled
<1>1. incoming \in Seq(Update) /\ queue \in Seq(Update)
  BY DEF PoolTypeOK
<1>2. Range(incoming') \subseteq Range(incoming)
  <2>1. CASE Dispatch
    <3>1. incoming # <<>> /\ incoming' = Tail(incoming)
      BY <2>1 DEF Dispatch
    <3>2. \A i \in DOMAIN incoming' : i + 1 \in DOMAIN incoming /\ incoming'[i] = incoming[i + 1]
      BY <1>1, <3>1
    <3> QED BY <3>2 DEF Range
  <2> QED BY <2>1
<1>3. ASSUME NEW i \in DOMAIN queue'
      PROVE  queue'[i] \in Range(queue) \union Range(incoming)
  <2>1. CASE Dispatch
    <3>1. incoming # <<>> /\ (queue' = queue \/ queue' = Append(queue, Head(incoming)))
      BY <2>1 DEF Dispatch
    <3>2. Head(incoming) \in Range(incoming)
      BY <1>1, <3>1 DEF Range
    <3>3. (i \in DOMAIN queue /\ queue'[i] = queue[i]) \/ queue'[i] = Head(incoming)
      BY <1>1, <1>3, <3>1
    <3> QED BY <3>2, <3>3 DEF Range
  <2>2. ASSUME NEW w \in Workers, Take(w)
        PROVE  queue'[i] \in Range(queue) \union Range(incoming)
    <3>1. queue # <<>> /\ queue' = Tail(queue)
      BY <2>2 DEF Take
    <3>2. i + 1 \in DOMAIN queue /\ queue'[i] = queue[i + 1]
      BY <1>1, <1>3, <3>1
    <3> QED BY <3>2 DEF Range
  <2>3. CASE Stop
    BY <1>3, <2>3 DEF Stop
  <2>4. CASE queue' = queue
    BY <1>3, <2>4 DEF Range
  <2>5. \/ queue' = queue \/ Dispatch \/ Stop \/ \E w \in Workers : Take(w)
    BY DEF PoolNext, Send, Enter, Leave, pool
  <2> QED BY <2>1, <2>2, <2>3, <2>4, <2>5
<1>4. ASSUME NEW w \in Workers, worker'[w].pc # "idle"
      PROVE  \/ worker'[w].update \in Range(queue)
             \/ worker[w].pc # "idle" /\ worker'[w].update = worker[w].update
  <2>1. CASE Take(w)
    <3>1. queue # <<>> /\ worker'[w].update = Head(queue)
      BY <2>1 DEF Take, PoolTypeOK
    <3>2. 1 \in DOMAIN queue /\ Head(queue) = queue[1]
      BY <1>1, <3>1
    <3> QED BY <3>1, <3>2 DEF Range
  <2> QED BY <1>4, <2>1, UpdateKept
<1>5. Range(queue') \subseteq Range(queue) \union Range(incoming)
  BY <1>3 DEF Range
<1>6. \A w \in Workers \ At("idle")' :
        worker'[w].update \in Range(queue) \union {worker[v].update : v \in Workers \ At("idle")}
  BY <1>4 DEF At
<1> QED BY <1>2, <1>5, <1>6 DEF Unhandled

LEMMA WriteTalks ==
  ASSUME TypeOK, NEW c \in Chats, NEW kind \in Kinds, Quiet(Write(c, kind))
  PROVE  Talk!Next
<1>1. PICK re \in {0} \union {x.tg : x \in {y \in shown : y.chat = c}} : Send(c, kind, re)
  BY DEF Quiet, Write
<1> DEFINE u == [id |-> sent', chat |-> c, kind |-> kind, re |-> re]
<1>2. /\ sent' = sent + 1 /\ incoming' = Append(incoming, u)
      /\ queue' = queue /\ worker' = worker /\ shown' = shown
  BY <1>1 DEF Send, Quiet, chat
<1>3. u.id = sent' /\ u.re = re /\ u.chat = c
  OBVIOUS
<1> HIDE DEF u
<1>4. Range(incoming') = Range(incoming) \union {u}
  <2>1. incoming \in Seq(Update) /\ Len(incoming) \in Nat /\ DOMAIN incoming = 1..Len(incoming)
    BY DEF TypeOK, PoolTypeOK
  <2>2. /\ DOMAIN incoming' = 1..Len(incoming) + 1 /\ incoming'[Len(incoming) + 1] = u
        /\ \A i \in 1..Len(incoming) : incoming'[i] = incoming[i]
    BY <1>2, <2>1, AppendProperties
  <2> QED BY <2>1, <2>2 DEF Range
<1>5. Unhandled' = Unhandled \union {u}
  BY <1>2, <1>4 DEF Unhandled, At
<1>6. re = 0 \/ \E x \in shown : x.tg = re /\ x.chat = c
  BY <1>1
<1>7. Talk!Write(u)
  BY <1>2, <1>3, <1>5, <1>6 DEF Talk!Write
<1>8. u \in Unhandled'
  BY <1>5
<1> QED BY <1>7, <1>8 DEF Talk!Next

(* What is told for the first time, by messages that show nothing else. *)
LEMMA Told ==
  ASSUME NEW t, NEW c, NEW ctx, NEW tgs, UNCHANGED <<sent, Unhandled>>,
         shown' = shown \union Parts(tgs, t, c, ctx),
         ShownOf(t) = {}, \A x \in shown : x.tg \notin tgs
  PROVE  Talk!Tell(t, c, ctx, tgs) /\ tgs = {x.tg : x \in shown' \ shown}
<1>1. Talk!Tell(t, c, ctx, tgs)
  BY DEF Talk!Tell, ShownOf, Parts
<1>2. shown' \ shown = Parts(tgs, t, c, ctx)
  <2>1. \A x \in Parts(tgs, t, c, ctx) : x \notin shown
    BY PartsOf DEF ShownOf
  <2> QED BY <2>1
<1>3. \A x \in shown' \ shown : x.tg \in tgs
  BY <1>2, PartsOf
<1>4. \A tg \in tgs : \E x \in shown' \ shown : x.tg = tg
  BY <1>2, PartsOf
<1> QED BY <1>1, <1>3, <1>4

LEMMA ShowTalks ==
  ASSUME ChatInv, SourceInv, NEW w \in Workers, Show(w)
  PROVE  [Talk!Next]_(Talk!vars)
<1>1. /\ TypeOK /\ NumberInv /\ StageInv /\ worker[w].pc = "running" /\ task[w].at = "answered"
      /\ UNCHANGED <<sent, Unhandled>> /\ U(w) \in Unhandled
  <2>1. /\ TypeOK /\ NumberInv /\ StageInv /\ worker[w].pc = "running" /\ task[w].at = "answered"
        /\ UNCHANGED pool
    BY DEF Show, On, ChatInv, FollowInv
  <2>2. UNCHANGED <<sent, Unhandled>>
    BY <2>1 DEF pool, Unhandled, At
  <2>3. U(w) \in Unhandled
    BY <2>1 DEF Unhandled, U, At
  <2> QED BY <2>1, <2>2, <2>3
<1>2. PICK learned \in {0, posted + 1} : Post(U(w).id, ChatOf(w), task[w].ctx, learned)
  BY DEF Show
<1>3. PICK t, c, ctx : t = U(w).id /\ c = ChatOf(w) /\ ctx = task[w].ctx
  OBVIOUS
<1>4. posted \in Nat /\ learned \in Nat
  BY <1>1 DEF TypeOK
<1>5. PICK ids \in SUBSET Nat :
        /\ \A id \in ids : posted < id
        /\ shown' = shown \union Parts(ids, t, c, ctx)
  BY <1>2, <1>3, <1>4, Posted
<1>6. \A x \in shown : x.tg \notin ids
  BY <1>1, <1>4, <1>5 DEF NumberInv
<1>7. ShownOf(t) = {} /\ Sourced(ctx, t, U(w).re) /\ U(w).kind = "question"
  BY <1>1, <1>3 DEF StageInv, SourceInv
<1>8. Talk!Tell(t, c, ctx, ids) /\ ids = {x.tg : x \in shown' \ shown}
  <2>1. UNCHANGED <<sent, Unhandled>> /\ ShownOf(t) = {}
    BY <1>1, <1>7
  <2>2. shown' = shown \union Parts(ids, t, c, ctx)
    BY <1>5
  <2> QED BY <1>6, <2>1, <2>2, Told
<1>9. ctx \in Talk!Sources(U(w))
  BY <1>3, <1>7 DEF Sourced, Talk!Sources, Talk!RepliedTo, Talk!ReminderIds, ReminderIds,
                    Talk!Contexts, Contexts
<1>10. Talk!Answer(U(w), ids)
  BY <1>3, <1>7, <1>8, <1>9 DEF Talk!Answer, ChatOf, U
<1> QED BY <1>1, <1>8, <1>10 DEF Talk!Next

LEMMA RemindTalks ==
  ASSUME ChatInv, NEW k \in ReminderIds, NEW c \in Chats, Remind(k, c)
  PROVE  Talk!Next
<1>1. /\ TypeOK /\ NumberInv /\ ReminderInv /\ reminder[k].at = "none"
      /\ UNCHANGED <<sent, Unhandled>>
  BY DEF Remind, ChatInv, FollowInv, pool, Unhandled, At
<1>2. PICK learned \in {0, posted + 1} : Post(k, c, k, learned)
  BY DEF Remind
<1>3. posted \in Nat /\ learned \in Nat
  BY <1>1 DEF TypeOK
<1>4. PICK ids \in SUBSET Nat :
        /\ \A id \in ids : posted < id
        /\ shown' = shown \union Parts(ids, k, c, k)
  BY <1>2, <1>3, Posted
<1>5. \A x \in shown : x.tg \notin ids
  BY <1>1, <1>3, <1>4 DEF NumberInv
<1>6. ShownOf(k) = {}
  BY <1>1 DEF ReminderInv
<1>7. Talk!Tell(k, c, k, ids) /\ ids = {x.tg : x \in shown' \ shown}
  <2>1. shown' = shown \union Parts(ids, k, c, k)
    BY <1>4
  <2> QED BY <1>1, <1>5, <1>6, <2>1, Told
<1>8. Talk!Remind(k, ids)
  BY <1>7 DEF Talk!Remind
<1>9. k \in Talk!ReminderIds
  BY DEF Talk!ReminderIds, ReminderIds
<1> QED BY <1>7, <1>8, <1>9 DEF Talk!Next

LEMMA TalkStep == ChatInv /\ SourceInv /\ [Next]_vars => [Talk!Next]_(Talk!vars)
<1> SUFFICES ASSUME ChatInv, SourceInv, [Next]_vars PROVE [Talk!Next]_(Talk!vars)
  OBVIOUS
<1>1. TypeOK /\ PoolTypeOK /\ LineWaits /\ [PoolNext]_pool
  BY StepOfPool DEF ChatInv, TypeOK, TokenInv
<1>2. ASSUME shown' = shown, sent' = sent, incoming' = incoming \/ Dispatch
      PROVE  [Talk!Next]_(Talk!vars)
  <2>1. Unhandled' \subseteq Unhandled
    BY <1>1, <1>2, UnhandledShrinks
  <2> QED BY <1>2, <2>1 DEF Talk!Next, Talk!Close
<1>3. CASE shown' = shown
  <2>1. ASSUME NEW c \in Chats, NEW kind \in Kinds, Quiet(Write(c, kind))
        PROVE  [Talk!Next]_(Talk!vars)
    BY <1>1, <2>1, WriteTalks
  <2>2. \/ \E c \in Chats, kind \in Kinds : Quiet(Write(c, kind))
        \/ sent' = sent /\ (incoming' = incoming \/ Dispatch)
    <3>1. CASE Quiet(Dispatch) \/ StopBot \/ UNCHANGED vars
      BY <3>1 DEF Quiet, Dispatch, StopBot, Stop, vars, pool
    <3>2. ASSUME NEW w \in Workers, Work(w) PROVE sent' = sent /\ incoming' = incoming
      BY <3>2 DEF Work, Quiet, Take, Enter, Step, Restart, Refuse, Ask, GiveUp, Receive, Show,
                  Record, Finish, Leave, pool
    <3>3. ASSUME NEW u \in Updates, Serve(u) PROVE sent' = sent /\ incoming' = incoming
      BY <3>3 DEF Serve, Accept, Trim, Lookup, LookupAnew, Save, SaveContext, Fail, pool
    <3>4. ASSUME NEW k \in ReminderIds,
                 (\E c \in Chats : Remind(k, c)) \/ Remember(k) \/ TakeOver(k) \/ Name(k) \/ Link(k)
          PROVE  sent' = sent /\ incoming' = incoming
      BY <3>4 DEF Remind, Remember, TakeOver, Name, Link, pool
    <3> QED BY <3>1, <3>2, <3>3, <3>4 DEF Next
  <2> QED BY <1>2, <1>3, <2>1, <2>2
<1>4. ASSUME NEW w \in Workers, Show(w) PROVE [Talk!Next]_(Talk!vars)
  BY <1>4, ShowTalks
<1>5. ASSUME NEW k \in ReminderIds, NEW c \in Chats, Remind(k, c) PROVE [Talk!Next]_(Talk!vars)
  BY <1>5, RemindTalks
<1> QED BY <1>1, <1>3, <1>4, <1>5, ShownStays

(* For every number of chats, workers, messages, reminders and faults, the *)
(* bot, mcp-proxy and the memory keep the promises of a conversation: each *)
(* question answered at most once, in its chat, from a context of its own  *)
(* or of the message replied to, or from none.                             *)
THEOREM ImplementsConversation == Spec => KeepsConversation
<1>1. Init => Talk!Init
  BY DEF Init, PoolInit, Talk!Init, Unhandled, Range, At, Idle
<1>2. Init => SourceInv
  BY DEF Init, SourceInv, None, Start
<1>3. Spec => []SourceInv
  BY <1>2, SourceNext, FollowInvariant, PTL DEF Spec
<1> QED BY <1>1, <1>3, TalkStep, FollowInvariant, PTL DEF Spec, KeepsConversation, Talk!Spec

(* A row of the memory never names a message that shows another text, but  *)
(* for a reminder that took the row over, nor keeps another's context.     *)
THEOREM MemoryNamesItsTexts == Spec => []RowsNameTheirText
<1>1. ChatInv => RowsNameTheirText
  <2> SUFFICES ASSUME ChatInv, NEW c \in Chats, NEW row \in Range(memory[c]), row.role = "assistant"
               PROVE  /\ row.tg # 0 => \E x \in shown : x.tg = row.tg /\ (x.of = row.of \/ Over(x.of))
                      /\ \A x \in shown : x.of = row.of => row.ctx \in {0, x.ctx}
    BY DEF RowsNameTheirText
  <2>1. row \in Answers(c) /\ RowInv
    BY DEF Answers, ChatInv, FollowInv
  <2> QED BY <2>1 DEF RowInv, ShownOf, TakenOver, Over
<1> QED BY <1>1, FollowInvariant, PTL

(* A chat never falls silent: whatever memory, reminders and failing calls *)
(* do, its token is with a worker that runs, and every other is in line.   *)
THEOREM NobodyIsStranded == Spec => []NobodyStranded
BY ImplementsPool, NoWorkerStranded, PTL
-----------------------------------------------------------------------------
(* What was said *)

(* What a conversation promises for good: a Telegram message shows one     *)
(* text, and a text was made from one context, for one chat.               *)
SaidOnce ==
  \A x, y \in shown :
    /\ x.tg = y.tg => x = y
    /\ x.of = y.of => x.chat = y.chat /\ x.ctx = y.ctx

(* No message of Telegram ever stands for two texts, and no text is shown  *)
(* in two chats or with two contexts, whatever is edited and posted again. *)
THEOREM EachIsSaidOnce == Spec => []SaidOnce
<1>1. Talk!Init => SaidOnce
  BY DEF Talk!Init, SaidOnce
<1>2. SaidOnce /\ [Talk!Next]_(Talk!vars) => SaidOnce'
  <2> SUFFICES ASSUME SaidOnce, [Talk!Next]_(Talk!vars) PROVE SaidOnce'
    OBVIOUS
  <2>1. ASSUME shown' = shown PROVE SaidOnce'
    BY <2>1 DEF SaidOnce
  <2>2. ASSUME NEW t, NEW c, NEW ctx, NEW tgs, Talk!Tell(t, c, ctx, tgs) PROVE SaidOnce'
    <3> DEFINE new == Parts(tgs, t, c, ctx)
    <3>1. shown' = shown \union new /\ \A x \in shown : x.of # t /\ x.tg \notin tgs
      BY <2>2 DEF Talk!Tell, Parts
    <3>2. \A x \in new : x.of = t /\ x.tg \in tgs /\ x.chat = c /\ x.ctx = ctx
      BY PartsOf
    <3>3. \A x, y \in new : x.tg = y.tg => x = y
      BY DEF Parts
    <3> HIDE DEF new
    <3> QED BY <3>1, <3>2, <3>3 DEF SaidOnce
  <2>3. CASE Talk!Close \/ (\E u \in Unhandled' : Talk!Write(u)) \/ UNCHANGED Talk!vars
    BY <2>1, <2>3 DEF Talk!Close, Talk!Write, Talk!vars
  <2>4. ASSUME NEW u, NEW tgs, Talk!Answer(u, tgs) PROVE SaidOnce'
    BY <2>2, <2>4 DEF Talk!Answer
  <2>5. ASSUME NEW k, NEW tgs, Talk!Remind(k, tgs) PROVE SaidOnce'
    BY <2>2, <2>5 DEF Talk!Remind
  <2> QED BY <2>3, <2>4, <2>5 DEF Talk!Next
<1> QED BY <1>1, <1>2, ImplementsConversation, PTL DEF KeepsConversation, Talk!Spec
=============================================================================
