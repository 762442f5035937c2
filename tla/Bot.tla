--------------------------------- MODULE Bot ---------------------------------
(***************************************************************************)
(* The update pool of tg-bot: one goroutine moves the updates fetched from *)
(* Telegram into a bounded channel, worker goroutines take them from it,   *)
(* and SerializedChat lets one of them at a time into a chat by a channel  *)
(* that holds one token.  Updates without a message are left out.          *)
(***************************************************************************)
EXTENDS Naturals, Sequences, FiniteSets

CONSTANTS
  Chats,
  Workers,     \* WORKER_CONCURRENCY goroutines
  Capacity,    \* of updatesCh: 512
  MaxUpdates   \* bound of the messages users send

ASSUME PoolAssumption ==
  Capacity \in Nat \ {0} /\ MaxUpdates \in Nat

VARIABLES
  sent,      \* messages sent so far; the n-th has id n
  incoming,  \* updates Telegram holds for the bot
  queue,     \* updatesCh
  worker,    \* per worker, what it does and the update it has
  token,     \* per chat, its channel in ChatMu
  line       \* per chat, the workers blocked on that channel, first come first served

pool == <<sent, incoming, queue, worker, token, line>>

Kinds  == {"question", "restart"}
Update == [id : 1..MaxUpdates, chat : Chats, kind : Kinds, re : Nat]
Idle   == [pc |-> "idle"]
At(pc) == {w \in Workers : worker[w].pc = pc}
ChatOf(w) == worker[w].update.chat

PoolInit ==
  /\ sent = 0 /\ incoming = <<>> /\ queue = <<>>
  /\ worker = [w \in Workers |-> Idle]
  /\ token = [c \in Chats |-> "free"]
  /\ line = [c \in Chats |-> <<>>]

-----------------------------------------------------------------------------

\* a user writes in chat c, in reply to the message re (0: to none)
Send(c, kind, re) ==
  /\ sent < MaxUpdates /\ sent' = sent + 1
  /\ incoming' = Append(incoming, [id |-> sent', chat |-> c, kind |-> kind, re |-> re])
  /\ UNCHANGED <<queue, worker, token, line>>

\* faulty: one more than the channel holds
DispatchOneMore ==
  /\ incoming # <<>> /\ incoming' = Tail(incoming)
  /\ IF Len(queue) <= Capacity
       THEN queue' = Append(queue, Head(incoming))
       ELSE UNCHANGED queue
  /\ UNCHANGED <<sent, worker, token, line>>

\* the update is fetched and queued, or dropped when the queue is full
Dispatch ==
  /\ incoming # <<>> /\ incoming' = Tail(incoming)
  /\ \/ Len(queue) < Capacity /\ queue' = Append(queue, Head(incoming))
     \/ Len(queue) = Capacity /\ UNCHANGED queue
  /\ UNCHANGED <<sent, worker, token, line>>

Take(w) ==
  /\ worker[w].pc = "idle" /\ queue # <<>>
  /\ queue' = Tail(queue)
  /\ worker' = [worker EXCEPT ![w] = [pc |-> "taken", update |-> Head(queue)]]
  /\ UNCHANGED <<sent, incoming, token, line>>

\* faulty: every update makes a channel of its own
EnterAnyway(w) ==
  /\ worker[w].pc = "taken"
  /\ worker' = [worker EXCEPT ![w].pc = "running"]
  /\ token' = [token EXCEPT ![ChatOf(w)] = "held"]
  /\ UNCHANGED <<sent, incoming, queue, line>>

\* the worker receives the chat's token (the first one makes it) or blocks
Enter(w) ==
  LET c == ChatOf(w) IN
  /\ worker[w].pc = "taken"
  /\ \/ /\ token[c] = "free" /\ token' = [token EXCEPT ![c] = "held"]
        /\ worker' = [worker EXCEPT ![w].pc = "running"]
        /\ UNCHANGED line
     \/ /\ token[c] = "held" /\ line' = [line EXCEPT ![c] = Append(@, w)]
        /\ worker' = [worker EXCEPT ![w].pc = "waiting"]
        /\ UNCHANGED token
  /\ UNCHANGED <<sent, incoming, queue>>

\* faulty: the token is not handed on when nobody waits
LeaveWithToken(w) ==
  LET c == ChatOf(w) IN
  /\ worker[w].pc = "running"
  /\ \/ line[c] = <<>> /\ worker' = [worker EXCEPT ![w] = Idle] /\ UNCHANGED line
     \/ /\ line[c] # <<>> /\ line' = [line EXCEPT ![c] = Tail(@)]
        /\ worker' = [worker EXCEPT ![w] = Idle, ![Head(line[c])].pc = "running"]
  /\ UNCHANGED <<sent, incoming, queue, token>>

\* the token goes to the worker that waits longest, or back to the channel
Leave(w) ==
  LET c == ChatOf(w) IN
  /\ worker[w].pc = "running"
  /\ \/ /\ line[c] = <<>> /\ token' = [token EXCEPT ![c] = "free"]
        /\ worker' = [worker EXCEPT ![w] = Idle]
        /\ UNCHANGED line
     \/ /\ line[c] # <<>> /\ line' = [line EXCEPT ![c] = Tail(@)]
        /\ worker' = [worker EXCEPT ![w] = Idle, ![Head(line[c])].pc = "running"]
        /\ UNCHANGED token
  /\ UNCHANGED <<sent, incoming, queue>>

\* main returns on SIGTERM without waiting for anybody, and is started again
Stop ==
  /\ queue' = <<>>
  /\ worker' = [w \in Workers |-> Idle]
  /\ token' = [c \in Chats |-> "free"]
  /\ line' = [c \in Chats |-> <<>>]
  /\ UNCHANGED <<sent, incoming>>

PoolNext ==
  \/ \E c \in Chats, kind \in Kinds, re \in Nat : Send(c, kind, re)
  \/ Dispatch \/ Stop
  \/ \E w \in Workers : Take(w) \/ Enter(w) \/ Leave(w)

PoolSpec == PoolInit /\ [][PoolNext]_pool

-----------------------------------------------------------------------------
(* Properties *)

Busy == [pc : {"taken", "waiting", "running"}, update : Update]

PoolTypeOK ==
  /\ sent \in 0..MaxUpdates /\ incoming \in Seq(Update)
  /\ queue \in Seq(Update) /\ Len(queue) <= Capacity
  /\ worker \in [Workers -> {Idle} \union Busy]
  /\ token \in [Chats -> {"free", "held"}]
  /\ line \in [Chats -> Seq(Workers)]

(* Two workers never handle updates of the same chat at the same time.     *)
OneAtATime ==
  \A v, w \in At("running") : ChatOf(v) = ChatOf(w) => v = w

(* Whoever runs in a chat holds its token.                                 *)
HeldByRunning == \A w \in At("running") : token[ChatOf(w)] = "held"

(* Those in line wait for that chat's token, which is held; each once.     *)
LineWaits ==
  \A c \in Chats :
    /\ line[c] # <<>> => token[c] = "held"
    /\ \A i \in DOMAIN line[c] :
         /\ worker[line[c][i]].pc = "waiting" /\ ChatOf(line[c][i]) = c
         /\ \A j \in DOMAIN line[c] : line[c][i] = line[c][j] => i = j

(* The inductive invariant behind OneAtATime.                              *)
TokenInv == OneAtATime /\ HeldByRunning /\ LineWaits

(* A chat never falls silent: its token, once taken, is with a worker that *)
(* runs and will hand it on, and whoever waits for it stands in its line.  *)
NobodyStranded ==
  /\ \A c \in Chats : token[c] = "held" => \E w \in At("running") : ChatOf(w) = c
  /\ \A w \in At("waiting") : \E i \in DOMAIN line[ChatOf(w)] : line[ChatOf(w)][i] = w
=============================================================================
