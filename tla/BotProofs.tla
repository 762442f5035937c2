------------------------------ MODULE BotProofs ------------------------------
(***************************************************************************)
(* What holds of the update pool for every set of chats and workers and    *)
(* every capacity of the queue: its types, and that a chat's messages are  *)
(* handled one at a time.                                                  *)
(***************************************************************************)
EXTENDS Bot, SequenceTheorems, TLAPS

(* A busy worker has an update of some chat. *)
LEMMA BusyWorker ==
  ASSUME PoolTypeOK, NEW w \in Workers, worker[w].pc # "idle"
  PROVE  worker[w] \in Busy /\ ChatOf(w) \in Chats
<1>1. worker[w] \in {Idle} \union Busy
  BY DEF PoolTypeOK
<1>2. worker[w] # Idle
  BY DEF Idle
<1> QED BY <1>1, <1>2 DEF Busy, Update, ChatOf

LEMMA InitTypes == PoolInit => PoolTypeOK
BY PoolAssumption DEF PoolInit, PoolTypeOK, Idle

(* Leave hands the token to a worker that waits, by LineWaits. *)
LEMMA NextTypes == PoolTypeOK /\ LineWaits /\ [PoolNext]_pool => PoolTypeOK'
<1> SUFFICES ASSUME PoolTypeOK, LineWaits, [PoolNext]_pool PROVE PoolTypeOK'
  OBVIOUS
<1> USE PoolAssumption
<1>1. ASSUME NEW c \in Chats, NEW kind \in Kinds, NEW re \in Nat, Send(c, kind, re)
      PROVE  PoolTypeOK'
  <2>1. sent' \in 1..MaxUpdates
    BY <1>1 DEF Send, PoolTypeOK
  <2>2. incoming' \in Seq(Update)
    BY <1>1, <2>1 DEF Send, PoolTypeOK, Update
  <2> QED BY <1>1, <2>1, <2>2 DEF Send, PoolTypeOK
<1>2. CASE Dispatch
  <2>1. Head(incoming) \in Update /\ incoming' \in Seq(Update)
    BY <1>2 DEF Dispatch, PoolTypeOK
  <2>2. queue \in Seq(Update) /\ Len(queue) <= Capacity
    BY DEF PoolTypeOK
  <2>3. queue' \in Seq(Update) /\ Len(queue') <= Capacity
    <3>1. CASE Len(queue) < Capacity /\ queue' = Append(queue, Head(incoming))
      <4>1. queue' \in Seq(Update) /\ Len(queue') = Len(queue) + 1
        BY <3>1, <2>1, <2>2, AppendProperties
      <4> QED BY <3>1, <4>1, <2>2
    <3>2. CASE queue' = queue
      BY <3>2, <2>2
    <3> QED BY <1>2, <3>1, <3>2 DEF Dispatch
  <2> QED BY <1>2, <2>1, <2>3 DEF Dispatch, PoolTypeOK
<1>3. CASE Stop
  BY <1>3 DEF Stop, PoolTypeOK
<1>4. ASSUME NEW w \in Workers, Take(w)
      PROVE  PoolTypeOK'
  <2>1. Head(queue) \in Update /\ queue' \in Seq(Update) /\ Len(queue') <= Capacity
    BY <1>4 DEF Take, PoolTypeOK
  <2>2. worker' \in [Workers -> {Idle} \union Busy]
    BY <1>4, <2>1 DEF Take, PoolTypeOK, Busy
  <2> QED BY <1>4, <2>1, <2>2 DEF Take, PoolTypeOK
<1>5. ASSUME NEW w \in Workers, Enter(w)
      PROVE  PoolTypeOK'
  <2>1. worker[w] \in Busy /\ ChatOf(w) \in Chats
    BY <1>5, BusyWorker DEF Enter
  <2>2. worker' \in [Workers -> {Idle} \union Busy]
    <3>1. \A pc \in {"waiting", "running"} : [worker[w] EXCEPT !.pc = pc] \in Busy
      BY <2>1 DEF Busy
    <3>2. PICK pc \in {"waiting", "running"} : worker' = [worker EXCEPT ![w].pc = pc]
      BY <1>5 DEF Enter
    <3> QED BY <3>1, <3>2 DEF PoolTypeOK
  <2>3. token' \in [Chats -> {"free", "held"}]
    BY <1>5 DEF Enter, PoolTypeOK
  <2>4. line' \in [Chats -> Seq(Workers)]
    <3>1. \A c \in Chats : Append(line[c], w) \in Seq(Workers)
      BY DEF PoolTypeOK
    <3>2. line' = line \/ line' = [line EXCEPT ![ChatOf(w)] = Append(line[ChatOf(w)], w)]
      BY <1>5 DEF Enter
    <3>3. line \in [Chats -> Seq(Workers)]
      BY DEF PoolTypeOK
    <3> QED BY <3>1, <3>2, <3>3, <2>1
  <2> QED BY <1>5, <2>2, <2>3, <2>4 DEF Enter, PoolTypeOK
<1>6. ASSUME NEW w \in Workers, Leave(w)
      PROVE  PoolTypeOK'
  <2>1. ChatOf(w) \in Chats
    BY <1>6, BusyWorker DEF Leave
  <2>2. token' \in [Chats -> {"free", "held"}]
    BY <1>6 DEF Leave, PoolTypeOK
  <2>3. CASE line[ChatOf(w)] = <<>>
    BY <1>6, <2>2, <2>3 DEF Leave, PoolTypeOK
  <2>4. CASE line[ChatOf(w)] # <<>>
    <3>1. /\ Head(line[ChatOf(w)]) \in Workers
          /\ Tail(line[ChatOf(w)]) \in Seq(Workers)
      BY <2>1, <2>4 DEF PoolTypeOK
    <3>2. line' \in [Chats -> Seq(Workers)]
      BY <1>6, <2>4, <3>1 DEF Leave, PoolTypeOK
    <3>3. worker' \in [Workers -> {Idle} \union Busy]
      <4> DEFINE v == Head(line[ChatOf(w)])
      <4>1. worker' = [worker EXCEPT ![w] = Idle, ![v].pc = "running"]
        BY <1>6, <2>4 DEF Leave
      <4>2. v \in Workers /\ worker[v].pc = "waiting" /\ v # w
        <5>1. 1 \in DOMAIN line[ChatOf(w)] /\ v = line[ChatOf(w)][1]
          BY <2>1, <2>4 DEF PoolTypeOK
        <5>2. worker[v].pc = "waiting"
          BY <5>1, <2>1 DEF LineWaits
        <5> QED BY <5>2, <3>1, <1>6 DEF Leave
      <4>3. [worker[v] EXCEPT !.pc = "running"] \in Busy
        BY <4>2, BusyWorker DEF Busy
      <4> HIDE DEF v
      <4> QED BY <4>1, <4>2, <4>3 DEF PoolTypeOK
    <3> QED BY <1>6, <2>2, <2>4, <3>2, <3>3 DEF Leave, PoolTypeOK
  <2> QED BY <2>3, <2>4
<1>7. CASE UNCHANGED pool
  BY <1>7 DEF pool, PoolTypeOK
<1> QED BY <1>1, <1>2, <1>3, <1>4, <1>5, <1>6, <1>7 DEF PoolNext
-----------------------------------------------------------------------------
(* The token *)

(* Those in line, as workers of the chat. *)
LEMMA InLine ==
  ASSUME PoolTypeOK, LineWaits, NEW c \in Chats, NEW i \in DOMAIN line[c]
  PROVE  line[c][i] \in At("waiting") /\ ChatOf(line[c][i]) = c /\ token[c] = "held"
<1>1. line[c] \in Seq(Workers) /\ line[c] # <<>> /\ line[c][i] \in Workers
  BY DEF PoolTypeOK
<1> QED BY <1>1 DEF LineWaits, At

LEMMA InitToken == PoolInit => TokenInv
BY DEF PoolInit, TokenInv, OneAtATime, HeldByRunning, LineWaits, At, Idle

(* A step of a worker that neither runs nor waits before and after it. *)
LEMMA TakeToken ==
  ASSUME PoolTypeOK, TokenInv, NEW w \in Workers, Take(w)
  PROVE  TokenInv'
<1>1. \A v \in Workers : v # w => worker'[v] = worker[v]
  BY DEF Take, PoolTypeOK
<1>2. worker[w].pc = "idle" /\ worker'[w].pc = "taken"
  BY DEF Take, PoolTypeOK
<1>3. OneAtATime' /\ HeldByRunning'
  BY <1>1, <1>2 DEF Take, TokenInv, OneAtATime, HeldByRunning, At, ChatOf
<1>4. LineWaits'
  <2>1. \A c \in Chats : \A i \in DOMAIN line[c] : line[c][i] \in Workers \ {w}
    BY <1>2, InLine DEF TokenInv, At
  <2> QED BY <1>1, <2>1 DEF Take, TokenInv, LineWaits, ChatOf
<1> QED BY <1>3, <1>4 DEF TokenInv

LEMMA EnterToken ==
  ASSUME PoolTypeOK, TokenInv, NEW w \in Workers, Enter(w)
  PROVE  TokenInv'
<1> DEFINE c == ChatOf(w)
<1>1. /\ c \in Chats /\ worker[w].pc = "taken" /\ c = worker'[w].update.chat
      /\ \A v \in Workers : v # w => worker'[v] = worker[v]
  <2>1. worker[w] \in Busy /\ c \in Chats
    BY BusyWorker DEF Enter
  <2>2. PICK pc \in {"waiting", "running"} : worker' = [worker EXCEPT ![w].pc = pc]
    BY DEF Enter
  <2>3. worker[w].pc = "taken"
    BY DEF Enter
  <2>4. worker \in [Workers -> {Idle} \union Busy]
    BY DEF PoolTypeOK
  <2>5. worker'[w].update = worker[w].update
    BY <2>1, <2>2, <2>4 DEF Busy
  <2> QED BY <2>1, <2>2, <2>3, <2>4, <2>5 DEF ChatOf
<1>2. \A d \in Chats : \A i \in DOMAIN line[d] : line[d][i] \in Workers \ {w}
  BY <1>1, InLine DEF TokenInv, At
<1>3. CASE token[c] = "free"
  <2>1. /\ worker'[w].pc = "running" /\ line' = line /\ token'[c] = "held"
        /\ \A d \in Chats : d # c => token'[d] = token[d]
    <3>1. /\ worker' = [worker EXCEPT ![w].pc = "running"] /\ line' = line
          /\ token' = [token EXCEPT ![c] = "held"]
      BY <1>3 DEF Enter
    <3>2. worker[w] \in Busy
      BY <1>1, BusyWorker
    <3> QED BY <1>1, <3>1, <3>2 DEF PoolTypeOK, Busy
  <2>2. \A v \in At("running") : ChatOf(v) # c
    BY <1>3 DEF TokenInv, HeldByRunning
  <2>3. \A v \in At("running")' : v = w \/ (v \in At("running") /\ ChatOf(v)' = ChatOf(v))
    BY <1>1 DEF At, ChatOf
  <2>4. OneAtATime'
    BY <1>1, <2>2, <2>3 DEF TokenInv, OneAtATime, ChatOf
  <2>5. HeldByRunning'
    <3>1. \A v \in At("running") : ChatOf(v) \in Chats
      BY BusyWorker DEF At
    <3> QED BY <1>1, <2>1, <2>3, <3>1 DEF TokenInv, HeldByRunning, ChatOf
  <2>6. LineWaits'
    BY <1>1, <1>2, <2>1 DEF TokenInv, LineWaits, ChatOf
  <2> QED BY <2>4, <2>5, <2>6 DEF TokenInv
<1>4. CASE token[c] = "held"
  <2>1. /\ worker'[w].pc = "waiting" /\ token' = token
        /\ line' = [line EXCEPT ![c] = Append(line[c], w)]
    <3>1. /\ worker' = [worker EXCEPT ![w].pc = "waiting"] /\ token' = token
          /\ line' = [line EXCEPT ![c] = Append(line[c], w)]
      BY <1>4 DEF Enter
    <3>2. worker[w] \in Busy
      BY <1>1, BusyWorker
    <3> QED BY <3>1, <3>2 DEF PoolTypeOK, Busy
  <2>2. OneAtATime' /\ HeldByRunning'
    BY <1>1, <2>1 DEF TokenInv, OneAtATime, HeldByRunning, At, ChatOf
  <2>3. line[c] \in Seq(Workers) /\ line \in [Chats -> Seq(Workers)]
    BY <1>1 DEF PoolTypeOK
  <2>4. ASSUME NEW d \in Chats
        PROVE  /\ line'[d] # <<>> => token'[d] = "held"
               /\ \A i \in DOMAIN line'[d] :
                    /\ worker'[line'[d][i]].pc = "waiting" /\ worker'[line'[d][i]].update.chat = d
                    /\ \A j \in DOMAIN line'[d] : line'[d][i] = line'[d][j] => i = j
    <3>1. CASE d # c
      <4>1. line'[d] = line[d]
        BY <3>1, <2>1, <2>3
      <4> QED BY <4>1, <1>1, <1>2, <2>1 DEF TokenInv, LineWaits, ChatOf
    <3>2. CASE d = c
      <4>1. /\ DOMAIN line'[d] = 1..Len(line[c]) + 1 /\ line'[d][Len(line[c]) + 1] = w
            /\ \A i \in 1..Len(line[c]) : line'[d][i] = line[c][i]
        BY <3>2, <2>1, <2>3, AppendProperties
      <4>2. Len(line[c]) \in Nat /\ DOMAIN line[c] = 1..Len(line[c])
        BY <2>3
      <4>3. \A i \in DOMAIN line[c] :
              /\ worker'[line[c][i]].pc = "waiting" /\ worker'[line[c][i]].update.chat = c
              /\ \A j \in DOMAIN line[c] : line[c][i] = line[c][j] => i = j
        BY <1>1, <1>2 DEF TokenInv, LineWaits, ChatOf
      <4>4. worker'[w].pc = "waiting" /\ worker'[w].update.chat = c
        BY <1>1, <2>1
      <4> QED BY <3>2, <4>1, <4>2, <4>3, <4>4, <1>1, <1>2, <1>4, <2>1
    <3> QED BY <3>1, <3>2
  <2>5. LineWaits'
    BY <2>4 DEF LineWaits, ChatOf
  <2> QED BY <2>2, <2>5 DEF TokenInv
<1> QED BY <1>1, <1>3, <1>4 DEF PoolTypeOK

LEMMA LeaveToken ==
  ASSUME PoolTypeOK, TokenInv, NEW w \in Workers, Leave(w)
  PROVE  TokenInv'
<1> DEFINE c == ChatOf(w)
<1>1. c \in Chats /\ w \in At("running") /\ worker[w].pc = "running"
  BY BusyWorker DEF Leave, At
<1>2. \A d \in Chats : \A i \in DOMAIN line[d] : line[d][i] \in Workers \ {w}
  BY <1>1, InLine DEF TokenInv, At
<1>3. \A v \in At("running") : v # w => ChatOf(v) # c /\ ChatOf(v) \in Chats
  BY <1>1, BusyWorker DEF TokenInv, OneAtATime, At
<1>4. CASE line[c] = <<>>
  <2>1. /\ line' = line /\ worker'[w].pc = "idle" /\ token' = [token EXCEPT ![c] = "free"]
        /\ \A v \in Workers : v # w => worker'[v] = worker[v]
    BY <1>4 DEF Leave, PoolTypeOK, Idle
  <2>2. \A v \in At("running")' : v \in At("running") /\ v # w /\ ChatOf(v)' = ChatOf(v)
    BY <2>1 DEF At, ChatOf
  <2>3. \A d \in Chats : d # c => token'[d] = token[d]
    BY <2>1 DEF PoolTypeOK
  <2>4. OneAtATime' /\ HeldByRunning'
    BY <1>3, <2>2, <2>3 DEF TokenInv, OneAtATime, HeldByRunning
  <2>5. LineWaits'
    BY <1>2, <1>4, <2>1, <2>3 DEF TokenInv, LineWaits, ChatOf
  <2> QED BY <2>4, <2>5 DEF TokenInv
<1>5. CASE line[c] # <<>>
  <2> DEFINE v == Head(line[c])
  <2>1. line[c] \in Seq(Workers) /\ 1 \in DOMAIN line[c] /\ v = line[c][1]
    BY <1>1, <1>5 DEF PoolTypeOK
  <2>2. v \in Workers /\ v # w /\ worker[v].pc = "waiting" /\ ChatOf(v) = c /\ token[c] = "held"
    BY <1>1, <1>2, <2>1, InLine DEF TokenInv, At
  <2>3. /\ line' = [line EXCEPT ![c] = Tail(line[c])] /\ token' = token
        /\ worker' = [worker EXCEPT ![w] = Idle, ![v].pc = "running"]
    BY <1>5 DEF Leave
  <2> HIDE DEF v
  <2>4. /\ worker'[w].pc = "idle"
        /\ worker'[v].pc = "running" /\ worker'[v].update.chat = c
        /\ \A x \in Workers : x # w /\ x # v => worker'[x] = worker[x]
    <3>1. worker[v] \in Busy
      BY <2>2, BusyWorker
    <3> QED BY <2>2, <2>3, <3>1 DEF PoolTypeOK, Busy, ChatOf, Idle
  <2>5. \A x \in At("running")' : x = v \/ (x \in At("running") /\ x # w /\ ChatOf(x)' = ChatOf(x))
    <3>1. TAKE x \in At("running")'
    <3>2. x \in Workers /\ worker'[x].pc = "running"
      BY DEF At
    <3>3. x # w
      BY <2>4, <3>2
    <3>4. x # v => worker'[x] = worker[x]
      BY <2>4, <3>2, <3>3
    <3>5. x # v => x \in At("running") /\ ChatOf(x)' = ChatOf(x)
      BY <3>2, <3>4 DEF At, ChatOf
    <3> QED BY <3>3, <3>5
  <2>6. OneAtATime'
    BY <1>3, <2>4, <2>5 DEF TokenInv, OneAtATime, ChatOf
  <2>7. HeldByRunning'
    BY <2>2, <2>3, <2>4, <2>5 DEF TokenInv, HeldByRunning, ChatOf
  <2>8. ASSUME NEW d \in Chats
        PROVE  /\ line'[d] # <<>> => token'[d] = "held"
               /\ \A i \in DOMAIN line'[d] :
                    /\ worker'[line'[d][i]].pc = "waiting" /\ worker'[line'[d][i]].update.chat = d
                    /\ \A j \in DOMAIN line'[d] : line'[d][i] = line'[d][j] => i = j
    <3>1. CASE d # c
      <4>1. line'[d] = line[d]
        BY <3>1, <2>3 DEF PoolTypeOK
      <4>2. \A i \in DOMAIN line[d] : line[d][i] # v
        BY <3>1, <2>2 DEF TokenInv, LineWaits
      <4>3. \A i \in DOMAIN line[d] : worker'[line[d][i]] = worker[line[d][i]]
        BY <4>2, <1>2, <2>4
      <4>4. /\ line[d] # <<>> => token[d] = "held"
            /\ \A i \in DOMAIN line[d] :
                 /\ worker[line[d][i]].pc = "waiting" /\ worker[line[d][i]].update.chat = d
                 /\ \A j \in DOMAIN line[d] : line[d][i] = line[d][j] => i = j
        BY DEF TokenInv, LineWaits, ChatOf
      <4>5. token'[d] = token[d]
        BY <2>3
      <4>6. \A i \in DOMAIN line[d] :
              worker'[line[d][i]].pc = "waiting" /\ worker'[line[d][i]].update.chat = d
        BY <4>3, <4>4
      <4> QED BY <4>1, <4>4, <4>5, <4>6
    <3>2. CASE d = c
      <4>1. /\ Len(line[c]) \in Nat /\ DOMAIN line[c] = 1..Len(line[c])
            /\ DOMAIN line'[d] = 1..Len(line[c]) - 1
            /\ \A i \in 1..Len(line[c]) - 1 : line'[d][i] = line[c][i + 1]
        BY <3>2, <1>1, <1>5, <2>1, <2>3, HeadTailProperties DEF PoolTypeOK
      <4>2. \A i \in 2..Len(line[c]) : line[c][i] \in Workers \ {w, v}
        BY <1>1, <1>2, <2>1, <4>1 DEF TokenInv, LineWaits
      <4>3. \A i \in 2..Len(line[c]) :
              /\ worker'[line[c][i]].pc = "waiting" /\ worker'[line[c][i]].update.chat = c
              /\ \A j \in 2..Len(line[c]) : line[c][i] = line[c][j] => i = j
        BY <1>1, <2>4, <4>1, <4>2, SMTT(30) DEF TokenInv, LineWaits, ChatOf
      <4>4. ASSUME NEW i \in DOMAIN line'[d]
            PROVE  /\ i + 1 \in 2..Len(line[c]) /\ line'[d][i] = line[c][i + 1]
        BY <4>1
      <4>5. \A i, j \in DOMAIN line'[d] : i + 1 = j + 1 => i = j
        BY <4>1
      <4>6. token'[d] = "held"
        BY <3>2, <2>2, <2>3
      <4>7. ASSUME NEW i \in DOMAIN line'[d]
            PROVE  worker'[line'[d][i]].pc = "waiting" /\ worker'[line'[d][i]].update.chat = d
        BY <3>2, <4>3, <4>4
      <4>8. ASSUME NEW i \in DOMAIN line'[d], NEW j \in DOMAIN line'[d], line'[d][i] = line'[d][j]
            PROVE  i = j
        <5>1. line[c][i + 1] = line[c][j + 1]
          BY <4>4, <4>8
        <5>2. i + 1 \in 2..Len(line[c]) /\ j + 1 \in 2..Len(line[c])
          BY <4>4
        <5>3. i + 1 = j + 1
          BY <4>3, <5>1, <5>2
        <5> QED BY <4>5, <5>3
      <4> QED BY <4>6, <4>7, <4>8
    <3> QED BY <3>1, <3>2
  <2>9. LineWaits'
    BY <2>8 DEF LineWaits, ChatOf
  <2> QED BY <2>6, <2>7, <2>9 DEF TokenInv
<1> QED BY <1>4, <1>5

LEMMA NextToken == PoolTypeOK /\ TokenInv /\ [PoolNext]_pool => TokenInv'
<1> SUFFICES ASSUME PoolTypeOK, TokenInv, [PoolNext]_pool PROVE TokenInv'
  OBVIOUS
<1>1. ASSUME UNCHANGED <<worker, token, line>>
      PROVE  TokenInv'
  BY <1>1 DEF TokenInv, OneAtATime, HeldByRunning, LineWaits, At, ChatOf
<1>2. CASE Stop
  BY <1>2 DEF Stop, TokenInv, OneAtATime, HeldByRunning, LineWaits, At, ChatOf, Idle
<1>3. CASE Dispatch \/ UNCHANGED pool
  BY <1>1, <1>3 DEF Dispatch, pool
<1>4. ASSUME NEW c \in Chats, NEW kind \in Kinds, NEW re \in Nat, Send(c, kind, re)
      PROVE  TokenInv'
  BY <1>1, <1>4 DEF Send
<1> QED BY <1>2, <1>3, <1>4, TakeToken, EnterToken, LeaveToken DEF PoolNext

-----------------------------------------------------------------------------
(* The order of the updates *)

Taken == Workers \ At("idle")

(* Every update still to be taken is younger than u.                       *)
Past(u) ==
  /\ u <= sent
  /\ \A i \in DOMAIN incoming : u < incoming[i].id
  /\ \A i \in DOMAIN queue : u < queue[i].id

(* Updates are queued in the order they were sent, and each is taken once. *)
OrderInv ==
  /\ \A i \in DOMAIN incoming : incoming[i].id <= sent
  /\ \A i, j \in DOMAIN incoming : i < j => incoming[i].id < incoming[j].id
  /\ \A i \in DOMAIN queue :
       queue[i].id <= sent /\ \A j \in DOMAIN incoming : queue[i].id < incoming[j].id
  /\ \A i, j \in DOMAIN queue : i < j => queue[i].id < queue[j].id
  /\ \A w \in Taken :
       /\ Past(worker[w].update.id)
       /\ \A v \in Taken : worker[v].update.id = worker[w].update.id => v = w

LEMMA InitOrder == PoolInit => OrderInv
BY DEF PoolInit, OrderInv, Taken, At, Idle

LEMMA UpdateIds ==
  ASSUME PoolTypeOK
  PROVE  /\ sent \in Nat /\ incoming \in Seq(Update) /\ queue \in Seq(Update)
         /\ \A i \in DOMAIN incoming : incoming[i].id \in Nat
         /\ \A i \in DOMAIN queue : queue[i].id \in Nat
         /\ \A w \in Taken : worker[w].update \in Update /\ worker[w].update.id \in Nat
<1>1. \A x \in Update : x.id \in Nat
  BY PoolAssumption DEF Update
<1>2. \A w \in Taken : worker[w] \in Busy
  BY BusyWorker DEF Taken, At
<1> QED BY <1>1, <1>2, PoolAssumption DEF PoolTypeOK, Busy

(* The elements of both sequences after a step were there before, but for  *)
(* the one that was sent, and none of them overtakes another.              *)
LEMMA SendOrder ==
  ASSUME PoolTypeOK, OrderInv, NEW c \in Chats, NEW kind \in Kinds, NEW re \in Nat,
         Send(c, kind, re), PoolTypeOK'
  PROVE  OrderInv' /\ \A u \in Nat : Past(u) => Past(u)'
<1> DEFINE new == [id |-> sent', chat |-> c, kind |-> kind, re |-> re]
<1>1. /\ sent \in Nat /\ sent' = sent + 1
      /\ Len(incoming) \in Nat /\ DOMAIN incoming = 1..Len(incoming)
      /\ DOMAIN incoming' = 1..Len(incoming) + 1
      /\ \A i \in 1..Len(incoming) : incoming'[i] = incoming[i]
      /\ incoming'[Len(incoming) + 1].id = sent + 1
  <2>1. new \in Update
    BY PoolAssumption DEF Send, PoolTypeOK, Update
  <2>2. incoming \in Seq(Update) /\ incoming' = Append(incoming, new) /\ incoming' \in Seq(Update)
    BY DEF Send, PoolTypeOK
  <2>3. /\ Len(incoming') = Len(incoming) + 1
        /\ \A i \in 1..Len(incoming) : incoming'[i] = incoming[i]
        /\ incoming'[Len(incoming) + 1] = new
    BY <2>1, <2>2, AppendProperties
  <2>4. DOMAIN incoming' = 1..Len(incoming') /\ DOMAIN incoming = 1..Len(incoming)
        /\ Len(incoming) \in Nat
    BY <2>2
  <2> QED BY <2>3, <2>4, UpdateIds DEF Send
<1>2. \A i \in DOMAIN incoming' :
        \/ i \in DOMAIN incoming /\ incoming'[i] = incoming[i]
        \/ i = Len(incoming) + 1 /\ incoming'[i].id = sent + 1
  BY <1>1
<1>3. /\ UNCHANGED <<queue, worker>> /\ Taken' = Taken
      /\ \A i \in DOMAIN incoming : incoming[i].id \in Nat
      /\ \A i \in DOMAIN queue : queue[i].id \in Nat
      /\ \A w \in Taken : worker[w].update.id \in Nat
  BY UpdateIds DEF Send, Taken, At
<1>4. ASSUME NEW u \in Nat, Past(u)
      PROVE  Past(u)'
  BY <1>1, <1>2, <1>3, <1>4 DEF Past
<1>5. \A i \in DOMAIN incoming' : incoming'[i].id <= sent'
  BY <1>1, <1>2, <1>3 DEF OrderInv
<1>6. \A i, j \in DOMAIN incoming' : i < j => incoming'[i].id < incoming'[j].id
  <2> TAKE i, j \in DOMAIN incoming'
  <2> HAVE i < j
  <2>1. i \in DOMAIN incoming /\ incoming'[i] = incoming[i] /\ incoming[i].id <= sent
    BY <1>1, <1>2 DEF OrderInv
  <2>2. CASE j \in DOMAIN incoming
    BY <1>1, <2>1, <2>2 DEF OrderInv
  <2>3. CASE j \notin DOMAIN incoming
    BY <1>1, <1>2, <1>3, <2>1, <2>3
  <2> QED BY <2>2, <2>3
<1>7. \A i \in DOMAIN queue :
        queue[i].id <= sent' /\ \A j \in DOMAIN incoming' : queue[i].id < incoming'[j].id
  BY <1>1, <1>2, <1>3 DEF OrderInv
<1>8. \A w \in Taken :
        /\ Past(worker[w].update.id)'
        /\ \A v \in Taken : worker[v].update.id = worker[w].update.id => v = w
  BY <1>3, <1>4 DEF OrderInv
<1> QED BY <1>3, <1>4, <1>5, <1>6, <1>7, <1>8 DEF OrderInv

LEMMA DispatchOrder ==
  ASSUME PoolTypeOK, OrderInv, Dispatch, PoolTypeOK'
  PROVE  OrderInv' /\ \A u \in Nat : Past(u) => Past(u)'
<1>1. /\ UNCHANGED <<sent, worker>> /\ Taken' = Taken /\ sent \in Nat
      /\ \A i \in DOMAIN incoming : incoming[i].id \in Nat
      /\ \A i \in DOMAIN queue : queue[i].id \in Nat
      /\ \A w \in Taken : worker[w].update.id \in Nat
  BY UpdateIds DEF Dispatch, Taken, At
<1>2. /\ Len(incoming) \in Nat \ {0} /\ DOMAIN incoming = 1..Len(incoming)
      /\ DOMAIN incoming' = 1..Len(incoming) - 1
      /\ \A i \in DOMAIN incoming' : i + 1 \in DOMAIN incoming /\ incoming'[i] = incoming[i + 1]
      /\ Head(incoming) = incoming[1] /\ Head(incoming) \in Update
  <2>1. incoming \in Seq(Update) /\ incoming # <<>> /\ incoming' = Tail(incoming)
    BY DEF Dispatch, PoolTypeOK
  <2>2. Tail(incoming) \in Seq(Update) /\ Len(Tail(incoming)) = Len(incoming) - 1
        /\ \A i \in 1..Len(Tail(incoming)) : Tail(incoming)[i] = incoming[i + 1]
        /\ Head(incoming) \in Update
    BY <2>1, HeadTailProperties
  <2>3. /\ DOMAIN Tail(incoming) = 1..Len(Tail(incoming)) /\ DOMAIN incoming = 1..Len(incoming)
        /\ Len(incoming) \in Nat \ {0}
    BY <2>1, <2>2
  <2> QED BY <2>1, <2>2, <2>3
<1>3. /\ Len(queue) \in Nat /\ DOMAIN queue = 1..Len(queue)
      /\ \A i \in DOMAIN queue : i \in DOMAIN queue' /\ queue'[i] = queue[i]
      /\ \A i \in DOMAIN queue' :
           \/ i \in DOMAIN queue
           \/ i = Len(queue) + 1 /\ queue'[i] = incoming[1]
  <2>1. queue \in Seq(Update) /\ Len(queue) \in Nat /\ DOMAIN queue = 1..Len(queue)
    BY DEF PoolTypeOK
  <2>2. CASE queue' = queue
    BY <2>1, <2>2
  <2>3. CASE queue' = Append(queue, Head(incoming))
    <3>1. queue' \in Seq(Update) /\ DOMAIN queue' = 1..Len(queue')
      BY DEF PoolTypeOK
    <3>2. /\ Len(queue') = Len(queue) + 1
          /\ \A i \in 1..Len(queue) : queue'[i] = queue[i]
          /\ queue'[Len(queue) + 1] = Head(incoming)
      BY <1>2, <2>1, <2>3, AppendProperties
    <3> QED BY <1>2, <2>1, <3>1, <3>2
  <2> QED BY <2>2, <2>3 DEF Dispatch
<1>4. 1 \in DOMAIN incoming
  BY <1>2
<1>5. ASSUME NEW u \in Nat, Past(u)
      PROVE  Past(u)'
  BY <1>1, <1>2, <1>3, <1>4, <1>5 DEF Past
<1>6. /\ \A i \in DOMAIN incoming' : incoming'[i].id <= sent
      /\ \A i, j \in DOMAIN incoming' : i < j => incoming'[i].id < incoming'[j].id
  BY <1>2, SMTT(30) DEF OrderInv
<1>7. \A i \in DOMAIN queue' :
        queue'[i].id <= sent /\ \A j \in DOMAIN incoming' : queue'[i].id < incoming'[j].id
  BY <1>2, <1>3, <1>4 DEF OrderInv
<1>8. \A i, j \in DOMAIN queue' : i < j => queue'[i].id < queue'[j].id
  BY <1>3, <1>4 DEF OrderInv
<1>9. \A w \in Taken :
        /\ Past(worker[w].update.id)'
        /\ \A v \in Taken : worker[v].update.id = worker[w].update.id => v = w
  BY <1>1, <1>5 DEF OrderInv
<1> QED BY <1>1, <1>5, <1>6, <1>7, <1>8, <1>9 DEF OrderInv

(* The first of the queue is past when it is taken, and nobody has it.     *)
LEMMA TakeOrder ==
  ASSUME PoolTypeOK, OrderInv, NEW w \in Workers, Take(w), PoolTypeOK'
  PROVE  OrderInv' /\ \A u \in Nat : Past(u) => Past(u)'
<1>1. /\ UNCHANGED <<sent, incoming>> /\ sent \in Nat
      /\ \A i \in DOMAIN incoming : incoming[i].id \in Nat
      /\ \A i \in DOMAIN queue : queue[i].id \in Nat
      /\ \A v \in Taken : worker[v].update.id \in Nat
      /\ Taken' = Taken \union {w} /\ w \notin Taken
      /\ worker'[w].update = Head(queue)
      /\ \A v \in Taken : worker'[v] = worker[v]
  BY UpdateIds DEF Take, PoolTypeOK, Taken, At
<1>2. /\ Len(queue) \in Nat \ {0} /\ DOMAIN queue = 1..Len(queue)
      /\ DOMAIN queue' = 1..Len(queue) - 1
      /\ \A i \in DOMAIN queue' : i + 1 \in DOMAIN queue /\ queue'[i] = queue[i + 1]
      /\ Head(queue) = queue[1]
  <2>1. queue \in Seq(Update) /\ queue # <<>> /\ queue' = Tail(queue)
    BY DEF Take, PoolTypeOK
  <2>2. Tail(queue) \in Seq(Update) /\ Len(Tail(queue)) = Len(queue) - 1
        /\ \A i \in 1..Len(Tail(queue)) : Tail(queue)[i] = queue[i + 1]
    BY <2>1, HeadTailProperties
  <2>3. /\ DOMAIN Tail(queue) = 1..Len(Tail(queue)) /\ DOMAIN queue = 1..Len(queue)
        /\ Len(queue) \in Nat \ {0}
    BY <2>1, <2>2
  <2> QED BY <2>1, <2>2, <2>3
<1>3. 1 \in DOMAIN queue
  BY <1>2
<1>4. ASSUME NEW u \in Nat, Past(u)
      PROVE  Past(u)' /\ u < queue[1].id
  BY <1>1, <1>2, <1>3, <1>4 DEF Past
<1>5. ASSUME NEW u \in Nat, u = queue[1].id
      PROVE  Past(u)'
  BY <1>1, <1>2, <1>3, <1>5 DEF OrderInv, Past
<1>6. \A i \in DOMAIN queue' :
        queue'[i].id <= sent /\ \A j \in DOMAIN incoming : queue'[i].id < incoming[j].id
  BY <1>2 DEF OrderInv
<1>7. \A i, j \in DOMAIN queue' : i < j => queue'[i].id < queue'[j].id
  BY <1>2 DEF OrderInv
<1>8. ASSUME NEW v \in Taken, NEW u \in Nat, u = worker[v].update.id
      PROVE  Past(u)' /\ u # queue[1].id
  <2>1. Past(u) /\ queue[1].id \in Nat
    BY <1>1, <1>3, <1>8 DEF OrderInv
  <2> QED BY <1>4, <2>1
<1>9. \A v \in Taken' :
        /\ Past(worker[v].update.id)'
        /\ \A x \in Taken' : worker'[x].update.id = worker'[v].update.id => x = v
  <2> TAKE v \in Taken'
  <2>1. CASE v = w
    <3>1. worker'[v].update.id = queue[1].id /\ queue[1].id \in Nat
      BY <1>1, <1>2, <1>3, <2>1
    <3>2. Past(worker[v].update.id)'
      BY <1>5, <3>1 DEF Past
    <3> QED BY <1>1, <1>8, <2>1, <3>1, <3>2
  <2>2. CASE v # w
    <3>1. v \in Taken /\ worker'[v].update.id = worker[v].update.id
          /\ worker[v].update.id \in Nat
      BY <1>1, <2>2
    <3>2. Past(worker[v].update.id)'
      BY <1>8, <3>1 DEF Past
    <3>3. worker'[w].update.id # worker'[v].update.id
      BY <1>1, <1>2, <1>8, <3>1
    <3> QED BY <1>1, <3>1, <3>2, <3>3 DEF OrderInv
  <2> QED BY <2>1, <2>2
<1> QED BY <1>1, <1>4, <1>6, <1>7, <1>9 DEF OrderInv

(* What a worker has after a step of the pool, it had before, unless it    *)
(* took the first of the queue; whoever runs stays running or is idle.     *)
LEMMA UpdateKept ==
  ASSUME PoolTypeOK, LineWaits, [PoolNext]_pool, NEW w \in Workers, worker'[w].pc # "idle"
  PROVE  \/ /\ worker[w].pc # "idle" /\ worker'[w].update = worker[w].update
            /\ worker[w].pc = "running" => worker'[w] = worker[w]
         \/ Take(w)
<1>1. CASE Stop
  BY <1>1 DEF Stop, Idle
<1>2. ASSUME NEW v \in Workers, Take(v)
      PROVE  v = w \/ worker'[w] = worker[w]
  BY <1>2 DEF Take, PoolTypeOK
<1>3. ASSUME NEW v \in Workers, Enter(v)
      PROVE  \/ worker'[w] = worker[w]
             \/ worker[w].pc = "taken" /\ worker'[w].update = worker[w].update
  <2>1. worker[v].pc = "taken" /\ worker[v] \in Busy
    BY <1>3, BusyWorker DEF Enter
  <2> QED BY <1>3, <2>1 DEF Enter, PoolTypeOK, Busy
<1>4. ASSUME NEW v \in Workers, Leave(v)
      PROVE  \/ worker'[w] = worker[w]
             \/ worker[w].pc = "waiting" /\ worker'[w].update = worker[w].update
  <2>1. worker[v].pc = "running" /\ ChatOf(v) \in Chats
    BY <1>4, BusyWorker DEF Leave
  <2>2. CASE line[ChatOf(v)] = <<>>
    <3>1. worker' = [worker EXCEPT ![v] = Idle]
      BY <1>4, <2>2 DEF Leave
    <3> QED BY <3>1 DEF PoolTypeOK, Idle
  <2>3. CASE line[ChatOf(v)] # <<>>
    <3> DEFINE h == Head(line[ChatOf(v)])
    <3>1. h \in Workers /\ worker[h].pc = "waiting" /\ worker[h] \in Busy
      <4>1. 1 \in DOMAIN line[ChatOf(v)] /\ h = line[ChatOf(v)][1] /\ h \in Workers
        BY <2>1, <2>3 DEF PoolTypeOK
      <4>2. worker[h].pc = "waiting"
        BY <2>1, <4>1 DEF LineWaits
      <4> QED BY <4>1, <4>2, BusyWorker
    <3>2. worker' = [worker EXCEPT ![v] = Idle, ![h].pc = "running"]
      BY <1>4, <2>3 DEF Leave
    <3> HIDE DEF h
    <3>3. h # v
      BY <2>1, <3>1
    <3>4. w = v => worker'[w] = Idle
      BY <3>2, <3>3 DEF PoolTypeOK
    <3>5. w # v
      BY <3>4 DEF Idle
    <3>6. w # h => worker'[w] = worker[w]
      BY <3>2, <3>5 DEF PoolTypeOK
    <3>7. w = h => worker'[w] = [worker[h] EXCEPT !.pc = "running"]
      BY <3>1, <3>2, <3>3 DEF PoolTypeOK
    <3> QED BY <3>1, <3>6, <3>7 DEF Busy
  <2> QED BY <2>2, <2>3
<1>5. ASSUME NEW c \in Chats, NEW kind \in Kinds, NEW re \in Nat, Send(c, kind, re)
      PROVE  worker'[w] = worker[w]
  BY <1>5 DEF Send
<1>6. CASE Dispatch \/ UNCHANGED pool
  BY <1>6 DEF Dispatch, pool
<1> QED BY <1>1, <1>2, <1>3, <1>4, <1>5, <1>6 DEF PoolNext

LEMMA NextOrder ==
  ASSUME PoolTypeOK, LineWaits, OrderInv, [PoolNext]_pool
  PROVE  OrderInv' /\ \A u \in Nat : Past(u) => Past(u)'
<1>1. PoolTypeOK'
  BY NextTypes
<1>2. ASSUME UNCHANGED <<sent, incoming>>, queue' = queue \/ queue' = <<>>,
             \A w \in Workers : worker'[w].pc # "idle" =>
               worker[w].pc # "idle" /\ worker'[w].update = worker[w].update
      PROVE  OrderInv' /\ \A u \in Nat : Past(u) => Past(u)'
  <2>1. \A u \in Nat : Past(u) => Past(u)'
    BY <1>2 DEF Past
  <2>2. \A w \in Taken' : w \in Taken /\ worker'[w].update = worker[w].update
    BY <1>2 DEF Taken, At
  <2>3. \A w \in Taken' : Past(worker[w].update.id)'
    <3> TAKE w \in Taken'
    <3>1. worker[w].update.id \in Nat /\ Past(worker[w].update.id)
      BY <2>2, UpdateIds DEF OrderInv
    <3>2. ASSUME NEW u \in Nat, u = worker[w].update.id, Past(u) PROVE Past(u)'
      BY <2>1, <3>2
    <3> QED BY <2>2, <3>1, <3>2 DEF Past
  <2> QED BY <1>2, <2>1, <2>2, <2>3 DEF OrderInv
<1>3. ASSUME NEW v \in Workers, Enter(v) \/ Leave(v)
      PROVE  OrderInv' /\ \A u \in Nat : Past(u) => Past(u)'
  <2>1. UNCHANGED <<sent, incoming, queue>>
    BY <1>3 DEF Enter, Leave
  <2>2. ASSUME NEW w \in Workers, Take(w)
        PROVE  FALSE
    <3>1. queue \in Seq(Update) /\ queue # <<>> /\ queue' = Tail(queue)
      BY <2>2 DEF Take, PoolTypeOK
    <3>2. Len(Tail(queue)) = Len(queue) - 1 /\ Len(queue) \in Nat
      BY <3>1, HeadTailProperties
    <3> QED BY <2>1, <3>1, <3>2
  <2>4. \A w \in Workers : worker'[w].pc # "idle" =>
          worker[w].pc # "idle" /\ worker'[w].update = worker[w].update
    BY <2>2, UpdateKept
  <2> QED BY <1>2, <2>1, <2>4
<1>4. CASE Stop
  <2>1. \A w \in Workers : worker'[w].pc = "idle"
    BY <1>4 DEF Stop, Idle
  <2> QED BY <1>2, <1>4, <2>1 DEF Stop
<1>5. CASE UNCHANGED pool
  BY <1>2, <1>5 DEF pool
<1> QED BY <1>1, <1>3, <1>4, <1>5, SendOrder, DispatchOrder, TakeOrder DEF PoolNext
-----------------------------------------------------------------------------

(* Behind both theorems: the types and the token are preserved together.   *)
LEMMA PoolInvariant == PoolSpec => [](PoolTypeOK /\ TokenInv)
<1>1. PoolInit => PoolTypeOK /\ TokenInv
  BY InitTypes, InitToken
<1>2. PoolTypeOK /\ TokenInv /\ [PoolNext]_pool => (PoolTypeOK /\ TokenInv)'
  BY NextTypes, NextToken DEF TokenInv
<1> QED BY <1>1, <1>2, PTL DEF PoolSpec

(* Whatever the number of workers and chats, two workers never handle      *)
(* messages of one chat at the same time (SerializedChat).                 *)
THEOREM OneWorkerPerChat == PoolSpec => []OneAtATime
<1>1. PoolTypeOK /\ TokenInv => OneAtATime
  BY DEF TokenInv
<1> QED BY <1>1, PoolInvariant, PTL

-----------------------------------------------------------------------------
(* Nobody is stranded *)

LEMMA EnterStrands ==
  ASSUME PoolTypeOK, TokenInv, NobodyStranded, NEW w \in Workers, Enter(w)
  PROVE  NobodyStranded'
<1> DEFINE c == ChatOf(w)
<1>1. /\ c \in Chats /\ worker[w] \in Busy /\ worker[w].pc = "taken"
      /\ line \in [Chats -> Seq(Workers)] /\ line[c] \in Seq(Workers)
  BY BusyWorker DEF Enter, PoolTypeOK
<1>2. PICK pc \in {"waiting", "running"} :
        /\ worker' = [worker EXCEPT ![w].pc = pc]
        /\ pc = "running" => token' = [token EXCEPT ![c] = "held"] /\ line' = line
        /\ pc = "waiting" => /\ token' = token /\ token[c] = "held"
                             /\ line' = [line EXCEPT ![c] = Append(@, w)]
  BY DEF Enter
<1>3. /\ worker'[w].pc = pc /\ worker'[w].update.chat = c
      /\ \A v \in Workers : v # w => worker'[v] = worker[v]
  BY <1>1, <1>2 DEF PoolTypeOK, Busy, ChatOf
<1>4. \A v \in At("running") : v \in At("running")' /\ worker'[v].update.chat = ChatOf(v)
  BY <1>1, <1>3 DEF At, ChatOf
<1>5. ASSUME NEW d \in Chats, token'[d] = "held"
      PROVE  \E v \in At("running")' : worker'[v].update.chat = d
  <2>1. CASE token[d] = "held"
    BY <2>1, <1>4 DEF NobodyStranded
  <2>2. CASE token[d] # "held"
    <3>1. pc = "running" /\ d = c
      BY <1>2, <1>5, <2>2 DEF PoolTypeOK
    <3> QED BY <1>3, <3>1 DEF At
  <2> QED BY <2>1, <2>2
<1>6. ASSUME NEW v \in At("waiting")', NEW d, d = worker'[v].update.chat
      PROVE  \E i \in DOMAIN line'[d] : line'[d][i] = v
  <2>1. v \in Workers /\ worker'[v].pc = "waiting"
    BY <1>6 DEF At
  <2>2. CASE v = w
    <3>1. line'[c] = Append(line[c], w) /\ d = c
      BY <1>1, <1>2, <1>3, <1>6, <2>1, <2>2
    <3>2. Len(line[c]) + 1 \in DOMAIN line'[c] /\ line'[c][Len(line[c]) + 1] = w
      BY <1>1, <3>1
    <3> QED BY <2>2, <3>1, <3>2
  <2>3. CASE v # w
    <3>1. v \in At("waiting") /\ d = ChatOf(v) /\ d \in Chats
      BY <1>3, <1>6, <2>1, <2>3, BusyWorker DEF At, ChatOf
    <3>2. PICK i \in DOMAIN line[d] : line[d][i] = v
      BY <3>1 DEF NobodyStranded
    <3>3. i \in DOMAIN line'[d] /\ line'[d][i] = line[d][i]
      <4>1. CASE line' = line
        BY <4>1
      <4>2. CASE line' = [line EXCEPT ![c] = Append(@, w)]
        <5>1. line[d] \in Seq(Workers) /\ line'[d] = IF d = c THEN Append(line[d], w) ELSE line[d]
          BY <1>1, <3>1, <4>2
        <5> QED BY <5>1
      <4> QED BY <1>2, <4>1, <4>2
    <3> QED BY <3>2, <3>3
  <2> QED BY <2>2, <2>3
<1> QED BY <1>5, <1>6 DEF NobodyStranded, ChatOf

(* The token goes to the head of the line, or nobody waits in this chat.   *)
LEMMA LeaveStrands ==
  ASSUME PoolTypeOK, TokenInv, NobodyStranded, NEW w \in Workers, Leave(w)
  PROVE  NobodyStranded'
<1> DEFINE c == ChatOf(w)
<1>1. /\ c \in Chats /\ w \in At("running") /\ worker[w].pc = "running"
      /\ line \in [Chats -> Seq(Workers)] /\ line[c] \in Seq(Workers)
      /\ token \in [Chats -> {"free", "held"}] /\ worker \in [Workers -> {Idle} \union Busy]
  BY BusyWorker DEF Leave, At, PoolTypeOK
<1>2. \A v \in At("running") : v # w => ChatOf(v) # c
  BY <1>1 DEF TokenInv, OneAtATime
<1>3. CASE line[c] = <<>>
  <2>1. /\ line' = line /\ worker'[w].pc = "idle" /\ token' = [token EXCEPT ![c] = "free"]
        /\ \A v \in Workers : v # w => worker'[v] = worker[v]
    BY <1>1, <1>3 DEF Leave, Idle
  <2>2. ASSUME NEW d \in Chats, token'[d] = "held"
        PROVE  \E v \in At("running")' : worker'[v].update.chat = d
    <3>1. d # c /\ token[d] = "held"
      BY <1>1, <2>1, <2>2
    <3>2. PICK v \in At("running") : ChatOf(v) = d
      BY <3>1 DEF NobodyStranded
    <3>3. v \in Workers /\ v # w /\ worker[v].pc = "running"
      BY <3>1, <3>2 DEF At
    <3>4. worker'[v] = worker[v]
      BY <2>1, <3>3
    <3> QED BY <3>2, <3>3, <3>4 DEF At, ChatOf
  <2>3. ASSUME NEW v \in At("waiting")'
        PROVE  \E i \in DOMAIN line'[worker'[v].update.chat] : line'[worker'[v].update.chat][i] = v
    <3>1. v \in Workers /\ worker'[v].pc = "waiting"
      BY <2>3 DEF At
    <3>2. worker'[v] = worker[v]
      BY <2>1, <3>1
    <3>3. v \in At("waiting")
      BY <3>1, <3>2 DEF At
    <3> QED BY <2>1, <3>2, <3>3 DEF NobodyStranded, ChatOf
  <2> QED BY <2>2, <2>3 DEF NobodyStranded, ChatOf
<1>4. CASE line[c] # <<>>
  <2> DEFINE h == Head(line[c])
  <2>1. 1 \in DOMAIN line[c] /\ h = line[c][1]
    BY <1>1, <1>4
  <2>2. h \in Workers /\ worker[h].pc = "waiting" /\ h # w /\ ChatOf(h) = c
    BY <1>1, <2>1, InLine DEF TokenInv, At
  <2>3. /\ line' = [line EXCEPT ![c] = Tail(@)] /\ token' = token
        /\ worker' = [worker EXCEPT ![w] = Idle, ![h].pc = "running"]
    BY <1>4 DEF Leave
  <2> HIDE DEF h
  <2>4. /\ worker'[w].pc = "idle" /\ worker'[h].pc = "running" /\ worker'[h].update.chat = c
        /\ \A v \in Workers : v # w /\ v # h => worker'[v] = worker[v]
    <3>1. worker[h] \in Busy
      BY <2>2, BusyWorker
    <3> QED BY <1>1, <2>2, <2>3, <3>1 DEF Busy, ChatOf, Idle
  <2>5. ASSUME NEW d \in Chats, token'[d] = "held"
        PROVE  \E v \in At("running")' : worker'[v].update.chat = d
    <3>1. CASE d = c
      BY <2>2, <2>4, <3>1 DEF At
    <3>2. CASE d # c
      <4>1. PICK v \in At("running") : ChatOf(v) = d
        BY <2>3, <2>5 DEF NobodyStranded
      <4>2. v \in Workers /\ worker[v].pc = "running" /\ v # w /\ v # h
        BY <2>2, <3>2, <4>1 DEF At
      <4>3. worker'[v] = worker[v]
        BY <2>4, <4>2
      <4> QED BY <4>1, <4>2, <4>3 DEF At, ChatOf
    <3> QED BY <3>1, <3>2
  <2>6. ASSUME NEW v \in At("waiting")', NEW d, d = worker'[v].update.chat
        PROVE  \E i \in DOMAIN line'[d] : line'[d][i] = v
    <3>1. v \in Workers /\ worker'[v].pc = "waiting"
      BY <2>6 DEF At
    <3>2. v # w /\ v # h
      BY <2>4, <3>1
    <3>3. worker'[v] = worker[v]
      BY <2>4, <3>1, <3>2
    <3>4. v \in At("waiting") /\ d = ChatOf(v) /\ d \in Chats
      BY <2>6, <3>1, <3>3, BusyWorker DEF At, ChatOf
    <3>5. PICK i \in DOMAIN line[d] : line[d][i] = v
      BY <3>4 DEF NobodyStranded
    <3>6. CASE d # c
      <4>1. line'[d] = line[d]
        BY <1>1, <2>3, <3>4, <3>6
      <4> QED BY <3>5, <4>1
    <3>7. CASE d = c
      <4>1. i # 1 /\ i \in 1..Len(line[c]) /\ Len(line[c]) \in Nat /\ line[c][i] = v
        BY <1>1, <2>1, <3>2, <3>5, <3>7
      <4>2. line'[c] = Tail(line[c])
        BY <1>1, <2>3
      <4>3. i - 1 \in 1..Len(line[c]) - 1
        BY <4>1
      <4>4. i - 1 \in DOMAIN line'[c] /\ line'[c][i - 1] = line[c][(i - 1) + 1]
        BY <1>1, <1>4, <4>2, <4>3, HeadTailProperties
      <4> QED BY <3>7, <4>1, <4>4
    <3> QED BY <3>6, <3>7
  <2> QED BY <2>5, <2>6 DEF NobodyStranded, ChatOf
<1> QED BY <1>3, <1>4

LEMMA NextStrands ==
  PoolTypeOK /\ TokenInv /\ NobodyStranded /\ [PoolNext]_pool => NobodyStranded'
<1> SUFFICES ASSUME PoolTypeOK, TokenInv, NobodyStranded, [PoolNext]_pool PROVE NobodyStranded'
  OBVIOUS
<1>1. ASSUME UNCHANGED <<worker, token, line>>
      PROVE  NobodyStranded'
  BY <1>1 DEF NobodyStranded, At, ChatOf
<1>2. CASE Stop
  BY <1>2 DEF Stop, NobodyStranded, At, Idle
<1>3. CASE Dispatch \/ UNCHANGED pool
  BY <1>1, <1>3 DEF Dispatch, pool
<1>4. ASSUME NEW c \in Chats, NEW kind \in Kinds, NEW re \in Nat, Send(c, kind, re)
      PROVE  NobodyStranded'
  BY <1>1, <1>4 DEF Send
<1>5. ASSUME NEW w \in Workers, Take(w)
      PROVE  NobodyStranded'
  <2>1. /\ worker'[w].pc = "taken" /\ worker[w].pc = "idle" /\ token' = token /\ line' = line
        /\ \A v \in Workers : v # w => worker'[v] = worker[v]
    BY <1>5 DEF Take, PoolTypeOK
  <2>2. \A pc \in {"running", "waiting"} : \A v \in Workers :
          (v \in At(pc)' <=> v \in At(pc)) /\ (v \in At(pc) => worker'[v] = worker[v])
    BY <2>1 DEF At
  <2> QED BY <2>1, <2>2 DEF NobodyStranded, At, ChatOf
<1> QED BY <1>2, <1>3, <1>4, <1>5, EnterStrands, LeaveStrands DEF PoolNext

(* Whatever the number of workers and chats, a token that was taken is     *)
(* with a worker that runs, and every blocked worker will be handed it.    *)
THEOREM NoWorkerStranded == PoolSpec => []NobodyStranded
<1>1. PoolInit => NobodyStranded
  BY DEF PoolInit, NobodyStranded, At, Idle
<1>2. PoolTypeOK /\ TokenInv /\ NobodyStranded /\ [PoolNext]_pool => NobodyStranded'
  BY NextStrands
<1> QED BY <1>1, <1>2, PoolInvariant, PTL DEF PoolSpec
=============================================================================
