---------------------------- MODULE Conversation ----------------------------
(***************************************************************************)
(* What the bot promises its users, whatever its workers, mcp-proxy and    *)
(* the memory do: a question is answered at most once, in its chat, while  *)
(* it is being handled; a Telegram message shows one text; and an answer   *)
(* is made from a context of its own, that of the message replied to, or   *)
(* none.  A reminder that took over the row of an answer with the same     *)
(* text stands for that answer, which is not known here.                   *)
(***************************************************************************)
EXTENDS Naturals

CONSTANTS Chats, MaxUpdates, Reminders

VARIABLES
  sent,  \* messages users have written
  open,  \* those that may still be answered
  said   \* what the bot has shown: message, chat, text, its context

vars == <<sent, open, said>>

ReminderIds == MaxUpdates + 1 .. MaxUpdates + Reminders
Contexts    == 0..MaxUpdates + Reminders

Init == sent = 0 /\ open = {} /\ said = {}

\* a user writes, perhaps in reply to a message of the chat
Write(u) ==
  /\ sent' = sent + 1 /\ u.id = sent'
  /\ u.re = 0 \/ \E x \in said : x.tg = u.re /\ x.chat = u.chat
  /\ open' = open \union {u}
  /\ UNCHANGED said

\* messages are handled, dropped, or lost with the bot
Close == open' \subseteq open /\ UNCHANGED <<sent, said>>

RepliedTo(re) == {x \in said : x.tg = re}

Sources(u) ==
  {0, u.id} \union {x.ctx : x \in RepliedTo(u.re)}
    \union {ctx \in Contexts : \E x \in RepliedTo(u.re) : x.of \in ReminderIds}

\* by several messages when it is long, or when one seemed to fail
Tell(t, c, ctx, tgs) ==
  /\ \A x \in said : x.of # t /\ x.tg \notin tgs
  /\ said' = said \union {[tg |-> tg, chat |-> c, of |-> t, ctx |-> ctx] : tg \in tgs}
  /\ UNCHANGED <<sent, open>>

Answer(u, tgs) ==
  /\ u.kind = "question"
  /\ \E ctx \in Sources(u) : Tell(u.id, u.chat, ctx, tgs)

Remind(k, tgs) == \E c \in Chats : Tell(k, c, k, tgs)

Next ==
  \/ \E u \in open' : Write(u)
  \/ Close
  \/ LET tgs == {x.tg : x \in said' \ said} IN
       \/ \E u \in open : Answer(u, tgs)
       \/ \E k \in ReminderIds : Remind(k, tgs)

Spec == Init /\ [][Next]_vars
=============================================================================
