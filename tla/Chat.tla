-------------------------------- MODULE Chat --------------------------------
(***************************************************************************)
(* A question's way through the chat: tg-bot posts a placeholder and calls *)
(* mcp-proxy, which keeps the question, finds its context, calls the LLM   *)
(* and keeps the answer; tg-bot shows the answer and records in chat.messages *)
(* which Telegram message shows it, so that a reply to that message can be *)
(* answered from the same context.  Delivered reminders join the memory.   *)
(* A context is named by the question or reminder it was first made for.   *)
(***************************************************************************)
EXTENDS Bot, SequencesExt

CONSTANTS
  Reminders,    \* bound of the reminders delivered; numbered after the updates
  MaxInflight,  \* MAX_INFLIGHT_LLM
  Keep,         \* ChatHistoryMaxMessages
  MaxBefore,    \* at so many rows the memory is trimmed to Keep
  MaxParts,     \* bound of the messages one text is shown in
  MaxFaults     \* bound of the steps that fail, of the texts that are too long
                \* for one message, and of the times tg-bot is stopped

ASSUME MemoryAssumption ==
  /\ Reminders \in Nat /\ MaxInflight \in Nat \ {0} /\ MaxFaults \in Nat
  /\ Keep \in Nat \ {0} /\ MaxBefore \in Nat /\ MaxBefore > Keep
  /\ MaxParts \in Nat \ {0}

VARIABLES
  memory,    \* per chat, the rows of chat.messages with their answer_context
  request,   \* per update, its POST /chat in mcp-proxy
  task,      \* per worker, how far it is with its update; the message it posted
  posted,    \* message ids Telegram has given out to the bot
  shown,     \* answers and reminders shown: id, chat, whose text, its context
  reminder,  \* per reminder, its POST /scheduler/deliver in mcp-proxy
  unlinked,  \* history: messages whose id was not recorded, was overwritten, or
             \* whose document is gone
  faults

chat == <<memory, request, task, posted, shown, reminder, unlinked, faults>>
vars == <<pool, chat>>

Updates     == 1..MaxUpdates
ReminderIds == MaxUpdates + 1 .. MaxUpdates + Reminders
Texts       == Updates \union ReminderIds
Contexts    == 0..MaxUpdates + Reminders    \* 0: none
Start == [at |-> "start", tg |-> 0, ctx |-> 0]
Done  == [at |-> "done", tg |-> 0, ctx |-> 0]
None  == [at |-> "none"]

UserRow(u)      == [role |-> "user", of |-> u, tg |-> 0, ctx |-> 0]
AssistantRow(t) == [role |-> "assistant", of |-> t, tg |-> 0, ctx |-> 0]

Trimmed(rows) ==
  IF Len(rows) < MaxBefore THEN rows ELSE SubSeq(rows, Len(rows) - Keep + 1, Len(rows))

\* UPDATE of the assistant row of u; none when it was trimmed
WithRow(rows, u, field, value) ==
  [i \in DOMAIN rows |->
     IF rows[i].role = "assistant" /\ rows[i].of = u
       THEN [rows[i] EXCEPT ![field] = value] ELSE rows[i]]

Init ==
  /\ PoolInit
  /\ memory = [c \in Chats |-> <<>>]
  /\ request = [u \in Updates |-> None]
  /\ task = [w \in Workers |-> Start]
  /\ posted = 0 /\ shown = {}
  /\ reminder = [k \in ReminderIds |-> None]
  /\ unlinked = {} /\ faults = 0

\* one more call fails
Fault == faults < MaxFaults /\ faults' = faults + 1
Fine  == UNCHANGED faults

-----------------------------------------------------------------------------
(* The bot's worker *)

On(w, at) == worker[w].pc = "running" /\ task[w].at = at
U(w)      == worker[w].update

\* the one statement of DeleteSession is refused, and its error ignored: it
\* holds four commands and has parameters
Restart(w) ==
  /\ On(w, "start") /\ U(w).kind = "restart"
  /\ task' = [task EXCEPT ![w] = Done]
  /\ UNCHANGED <<pool, memory, request, posted, shown, reminder, unlinked, faults>>

\* rate limit or no session: no word to the user
Refuse(w) ==
  /\ On(w, "start") /\ U(w).kind = "question"
  /\ task' = [task EXCEPT ![w] = Done]
  /\ UNCHANGED <<pool, memory, request, posted, shown, reminder, unlinked, faults>>

\* mcp-proxy is called; the placeholder shows no text yet, and counts as posted
\* when the answer is edited into it
Ask(w) ==
  /\ On(w, "start") /\ U(w).kind = "question"
  /\ task' = [task EXCEPT ![w].at = "asked"]
  /\ request' = [request EXCEPT ![U(w).id] =
                   [at |-> "sent", chat |-> ChatOf(w), re |-> U(w).re, ctx |-> 0]]
  /\ UNCHANGED <<pool, memory, posted, shown, reminder, unlinked, faults>>

\* an error or hint from mcp-proxy, a timeout, a lost connection: a hint is shown
GiveUp(w) ==
  /\ On(w, "asked")
  /\ IF request[U(w).id] = None THEN Fine ELSE Fault
  /\ task' = [task EXCEPT ![w] = Done]
  /\ UNCHANGED <<pool, memory, request, posted, shown, reminder, unlinked>>

Receive(w) ==
  /\ On(w, "asked") /\ request[U(w).id].at = "saved"
  /\ task' = [task EXCEPT ![w].at = "answered", ![w].ctx = request[U(w).id].ctx]
  /\ request' = [request EXCEPT ![U(w).id] = None]
  /\ UNCHANGED <<pool, memory, posted, shown, reminder, unlinked, faults>>

\* the text t is shown in n messages: further parts of a long text, and those
\* whose posting or editing was taken for a failure, so that the next way was
\* tried; the id of one is learned, or of none (0).  The ids are new, and it may
\* as well be the first.
Post(t, c, ctx, learned) ==
  \E n \in 0..MaxParts :
    LET ids == posted + 1 .. posted + n IN
    /\ learned \in {0} \union ids
    /\ IF ids = {learned} THEN Fine ELSE Fault
    /\ posted' = posted + n
    /\ shown' = shown \union {[tg |-> id, chat |-> c, of |-> t, ctx |-> ctx] : id \in ids}
    /\ unlinked' = unlinked \union (ids \ {learned})

\* a photo and its text, posted by mcp-proxy; when that fails or none is due, an
\* edit of the placeholder; when that fails or there is none, a new message
Show(w) ==
  /\ On(w, "answered")
  /\ \E learned \in {0, posted + 1} :
       /\ Post(U(w).id, ChatOf(w), task[w].ctx, learned)
       /\ task' = IF learned = 0 THEN [task EXCEPT ![w] = Done]
                                 ELSE [task EXCEPT ![w].at = "shown", ![w].tg = learned]
  /\ UNCHANGED <<pool, memory, request, reminder>>

\* faulty: the chat's last answer, rather than the message_id of the reply
RecordOnLast(w) ==
  LET rows == memory[ChatOf(w)]
      answers == {i \in DOMAIN rows : rows[i].role = "assistant"} IN
  /\ On(w, "shown")
  /\ memory' = [memory EXCEPT ![ChatOf(w)] =
                  [i \in DOMAIN rows |->
                     IF i \in answers /\ \A j \in answers : j <= i
                       THEN [rows[i] EXCEPT !.tg = task[w].tg] ELSE rows[i]]]
  /\ task' = [task EXCEPT ![w] = Done]
  /\ UNCHANGED <<pool, request, posted, shown, reminder, unlinked, faults>>

\* UpdateMessageTelegramID, its error ignored
Record(w) ==
  /\ On(w, "shown")
  /\ \/ /\ memory' = [memory EXCEPT ![ChatOf(w)] = WithRow(@, U(w).id, "tg", task[w].tg)]
        /\ Fine /\ UNCHANGED unlinked
     \/ Fault /\ unlinked' = unlinked \union {task[w].tg} /\ UNCHANGED memory
  /\ task' = [task EXCEPT ![w] = Done]
  /\ UNCHANGED <<pool, request, posted, shown, reminder>>

Finish(w) ==
  /\ task[w].at = "done" /\ Leave(w)
  /\ task' = [task EXCEPT ![w] = Start]
  /\ UNCHANGED <<memory, request, posted, shown, reminder, unlinked, faults>>

-----------------------------------------------------------------------------
(* HandleChat in mcp-proxy.  It outlives a bot that gave up or stopped     *)
(* until it sees that the connection is closed.                            *)

Inflight == {u \in Updates : request[u].at \in {"kept", "accepted", "names", "found", "stored", "trimmed"}}

Accept(u) ==
  /\ request[u].at = "sent" /\ Cardinality(Inflight) < MaxInflight
  /\ request' = [request EXCEPT ![u].at = "kept"]
  /\ \/ Fine /\ memory' = [memory EXCEPT ![request[u].chat] = Append(@, UserRow(u))]
     \/ Fault /\ UNCHANGED memory
  /\ UNCHANGED <<pool, task, posted, shown, reminder, unlinked>>

\* after the question and after the answer, its error dropped.  A question for
\* the angels' names, or their number, is then answered from a list, without a
\* look at the text it replies to
Trim(u) ==
  LET c == request[u].chat IN
  /\ \E at \in CASE request[u].at = "kept"   -> {"accepted", "names"}
               [] request[u].at = "stored" -> {"trimmed"}
               [] OTHER -> {} :
       request' = [request EXCEPT ![u].at = at]
  /\ \/ Fine /\ memory' = [memory EXCEPT ![c] = Trimmed(@)]
     \/ Fault /\ Trimmed(memory[c]) # memory[c] /\ UNCHANGED memory
  /\ UNCHANGED <<pool, task, posted, shown, reminder, unlinked>>

\* faulty: a message that replies to nothing finds the rows without a message
StoredUnnamed(c, tg) ==
  {row \in Range(memory[c]) : row.role = "assistant" /\ row.tg = tg /\ row.ctx # 0}

Stored(c, tg) ==
  {row \in Range(memory[c]) : row.role = "assistant" /\ row.tg = tg /\ tg # 0 /\ row.ctx # 0}

\* the context of the answer replied to, or a new one
Lookup(u) ==
  LET stored == Stored(request[u].chat, request[u].re) IN
  /\ request[u].at = "accepted"
  /\ \E ctx \in IF stored = {} THEN {u} ELSE {row.ctx : row \in stored} :
       request' = [request EXCEPT ![u].at = "found", ![u].ctx = ctx]
  /\ UNCHANGED <<pool, memory, task, posted, shown, reminder, unlinked, faults>>

\* the stored reference names a document that is gone
LookupAnew(u) ==
  /\ request[u].at = "accepted" /\ Stored(request[u].chat, request[u].re) # {}
  /\ request' = [request EXCEPT ![u].at = "found", ![u].ctx = u]
  /\ unlinked' = unlinked \union {request[u].re}
  /\ Fault /\ UNCHANGED <<pool, memory, task, posted, shown, reminder>>

\* the LLM answers, and the answer becomes a row, or the statement fails
Save(u) ==
  /\ request[u].at \in {"found", "names"}
  /\ request' = [request EXCEPT ![u].at = "stored"]
  /\ \/ Fine /\ memory' = [memory EXCEPT ![request[u].chat] = Append(@, AssistantRow(u))]
     \/ Fault /\ UNCHANGED memory
  /\ UNCHANGED <<pool, task, posted, shown, reminder, unlinked>>

\* SaveAnswerContext, its error ignored
SaveContext(u) ==
  /\ request[u].at = "trimmed"
  /\ request' = [request EXCEPT ![u].at = "saved"]
  /\ \/ Fine /\ memory' = [memory EXCEPT ![request[u].chat] = WithRow(@, u, "ctx", request[u].ctx)]
     \/ Fault /\ UNCHANGED memory
  /\ UNCHANGED <<pool, task, posted, shown, reminder, unlinked>>

\* rate limit, an LLM that fails or takes too long, a closed connection
Fail(u) ==
  /\ request[u].at \in {"sent", "accepted", "found"}
  /\ request' = [request EXCEPT ![u] = None]
  /\ UNCHANGED <<pool, memory, task, posted, shown, reminder, unlinked, faults>>

-----------------------------------------------------------------------------
(* HandleSchedulerDeliver in mcp-proxy *)

\* a photo, or when that fails or there is none, the text; an error on the way,
\* and the reminder is not remembered
Remind(k, c) ==
  /\ reminder[k].at = "none"
  /\ \E learned \in {0, posted + 1} :
       /\ Post(k, c, k, learned)
       /\ reminder' = [reminder EXCEPT ![k] =
            [at |-> IF learned = 0 THEN "over" ELSE "posted", chat |-> c, tg |-> learned]]
  /\ UNCHANGED <<pool, memory, request, task>>

\* a row of its own, or none when it failed
Remember(k) ==
  LET c == reminder[k].chat IN
  /\ reminder[k].at = "posted"
  /\ \/ /\ memory' = [memory EXCEPT ![c] = Append(@, AssistantRow(k))]
        /\ Fine /\ reminder' = [reminder EXCEPT ![k].at = "stored"]
     \/ Fault /\ reminder' = [reminder EXCEPT ![k].at = "over"] /\ UNCHANGED memory
  /\ UNCHANGED <<pool, request, task, posted, shown, unlinked>>

\* the last row is a recent answer with the same text: it becomes the reminder's
TakeOver(k) ==
  LET c == reminder[k].chat IN
  /\ reminder[k].at = "posted"
  /\ memory[c] # <<>> /\ Last(memory[c]).role = "assistant"
  /\ memory' = [memory EXCEPT ![c][Len(memory[c])].tg = reminder[k].tg]
  /\ unlinked' = unlinked \union {Last(memory[c]).tg}
  /\ reminder' = [reminder EXCEPT ![k].at = "over"]
  /\ UNCHANGED <<pool, request, task, posted, shown, faults>>

Name(k) ==
  LET c == reminder[k].chat IN
  /\ reminder[k].at = "stored"
  /\ \/ /\ memory' = [memory EXCEPT ![c] = WithRow(@, k, "tg", reminder[k].tg)]
        /\ Fine /\ reminder' = [reminder EXCEPT ![k].at = "named"]
     \/ Fault /\ reminder' = [reminder EXCEPT ![k].at = "over"] /\ UNCHANGED memory
  /\ UNCHANGED <<pool, request, task, posted, shown, unlinked>>

Link(k) ==
  LET c == reminder[k].chat IN
  /\ reminder[k].at = "named"
  /\ \/ Fine /\ memory' = [memory EXCEPT ![c] = WithRow(@, k, "ctx", k)]
     \/ Fault /\ UNCHANGED memory
  /\ reminder' = [reminder EXCEPT ![k].at = "over"]
  /\ UNCHANGED <<pool, request, task, posted, shown, unlinked>>

-----------------------------------------------------------------------------

\* tg-bot is stopped and started again
StopBot ==
  /\ Stop /\ Fault
  /\ task' = [w \in Workers |-> Start]
  /\ unlinked' = unlinked \union {task[w].tg : w \in {w \in Workers : task[w].at = "shown"}}
  /\ UNCHANGED <<memory, request, posted, shown, reminder>>

Quiet(A) == A /\ UNCHANGED chat

Write(c, kind) ==
  \E re \in {0} \union {x.tg : x \in {y \in shown : y.chat = c}} :
    (kind = "restart" => re = 0) /\ Send(c, kind, re)

Step(w) ==
  \/ Restart(w) \/ Refuse(w) \/ Ask(w) \/ GiveUp(w) \/ Receive(w)
  \/ Show(w) \/ Record(w) \/ Finish(w)

Serve(u) ==
  \/ Accept(u) \/ Trim(u) \/ Lookup(u) \/ LookupAnew(u) \/ Save(u) \/ SaveContext(u) \/ Fail(u)

Work(w) == Quiet(Take(w)) \/ Quiet(Enter(w)) \/ Step(w)

Next ==
  \/ \E c \in Chats, kind \in Kinds : Quiet(Write(c, kind))
  \/ Quiet(Dispatch)
  \/ \E w \in Workers : Work(w)
  \/ \E u \in Updates : Serve(u)
  \/ \E k \in ReminderIds, c \in Chats : Remind(k, c)
  \/ \E k \in ReminderIds : Remember(k) \/ TakeOver(k) \/ Name(k) \/ Link(k)
  \/ StopBot

Spec == Init /\ [][Next]_vars

\* every goroutine runs on, and every call of Telegram, PostgreSQL and mcp-proxy
\* ends: with an answer, an error or a timeout
Fairness ==
  /\ WF_vars(Quiet(Dispatch))
  /\ \A w \in Workers : WF_vars(Work(w))
  /\ \A u \in Updates : WF_vars(Serve(u))

FairSpec == Spec /\ Fairness

-----------------------------------------------------------------------------
(* Properties *)

Row      == [role : {"user", "assistant"}, of : Texts, tg : Nat, ctx : Contexts]
Call     == [at : {"sent", "kept", "accepted", "names", "found", "stored", "trimmed", "saved"},
             chat : Chats, re : Nat, ctx : Contexts]
Task     == [at : {"start", "asked", "answered", "shown", "done"}, tg : Nat, ctx : Contexts]
Message  == [tg : Nat, chat : Chats, of : Texts, ctx : Contexts]
Delivery == [at : {"posted", "stored", "named", "over"}, chat : Chats, tg : Nat]

TypeOK ==
  /\ PoolTypeOK
  /\ memory \in [Chats -> Seq(Row)]
  /\ request \in [Updates -> {None} \union Call]
  /\ task \in [Workers -> Task]
  /\ posted \in Nat /\ shown \subseteq Message
  /\ reminder \in [ReminderIds -> {None} \union Delivery]
  /\ unlinked \subseteq Nat /\ faults \in 0..MaxFaults

Kept(x) ==
  \E row \in Range(memory[x.chat]) : row.role = "assistant" /\ row.of = x.of /\ row.ctx # 0

(* A reply to an answer or a reminder is answered from the context that    *)
(* text was made from, whatever happened in between, as long as the row    *)
(* and its context are in the memory and its message was recorded.  (One   *)
(* that asks for the angels' names, or their number, is never looked up:   *)
(* the text replied to does not matter to the list it is answered with.)   *)
FollowUpKeepsContext ==
  [][\A u \in Updates :
       request[u].at = "accepted" /\ request'[u].at = "found" =>
         \A x \in shown :
           x.tg = request[u].re /\ x.chat = request[u].chat /\ Kept(x) /\ x.tg \notin unlinked'
             => request'[u].ctx = x.ctx]_vars

Unhandled == Range(incoming) \union Range(queue) \union {worker[w].update : w \in Workers \ At("idle")}
Open      == {update.id : update \in Unhandled}

(* Every message is handled or lost: none waits for ever in the queue or   *)
(* for its chat's token, whatever mcp-proxy does with the question.        *)
EveryUpdateSettles == \A u \in Updates : u \in Open ~> u \notin Open

(* The chat keeps what a conversation promises: a question is answered at  *)
(* most once, in its chat, from a context of its own or that of the        *)
(* message it replies to, and no message ever shows two texts.             *)
Talk == INSTANCE Conversation WITH open <- Unhandled, said <- shown
KeepsConversation == Talk!Spec

Over(t) == t \in ReminderIds /\ reminder[t].at = "over"

(* The message a row of the memory names shows the row's text, or that of  *)
(* a reminder which took the row over; and the row's context, once there,  *)
(* is the one its text was made from.                                      *)
RowsNameTheirText ==
  \A c \in Chats : \A row \in Range(memory[c]) : row.role = "assistant" =>
    /\ row.tg # 0 =>
         \E x \in shown : x.tg = row.tg /\ (x.of = row.of \/ Over(x.of))
    /\ \A x \in shown : x.of = row.of => row.ctx \in {0, x.ctx}

(* What session.go:33 and the reply to /restart say: the chat's memory is  *)
(* deleted before the user is told so.                                     *)
RestartForgets == [][\A w \in Workers : Restart(w) => memory'[ChatOf(w)] = <<>>]_vars
=============================================================================
