----------------------------- MODULE PanelProofs ----------------------------
(***************************************************************************)
(* What holds of the panel's session for every set of tabs, chats and      *)
(* requests and every number of tokens: the types, and what can end a      *)
(* session that is still good.                                             *)
(***************************************************************************)
EXTENDS Panel, TLAPS

Req == [pc : {"free", "sent", "ok", "denied", "error"},
        token : Tokens \union {None}, about : Sessions \union {None}]
TokenOK == /\ issued \in 0..MaxTokens /\ token \in (1..issued) \union {None}
           /\ dead \subseteq 1..issued
           /\ kc \subseteq 1..issued /\ keys \in BOOLEAN /\ shaky \subseteq kc
PagesOK ==
  /\ view \in [Tabs -> {"login", "idp", "callback", "app"}]
  /\ chat \in [Tabs -> [open : Sessions \union {None}, msgs : Sessions \union {None},
                        polled : SUBSET Sessions]]
Bounds == acts \in 0..MaxActs /\ faults \in 0..MaxFaults

(* A request carries a token that was handed out; a 401 is only given to   *)
(* one that is dead, to none, or to one that saw the keys missing, and     *)
(* none of these changes back.                                             *)
Refused == dead \union shaky \union {None}
Sound(q) == /\ q.token \in (1..issued) \union {None}
            /\ q.pc = "denied" => q.token \in Refused
\* while the keys are missing no token of Keycloak is handed out
Known == keys \/ kc = shaky
ReqsOK == /\ req \in [Tabs -> [Slots -> Req]]
          /\ \A t \in Tabs, i \in Slots : Sound(req[t][i])

Inv == TokenOK /\ Known /\ PagesOK /\ Bounds /\ ReqsOK
-----------------------------------------------------------------------------
LEMMA InvTypes == Inv => TypeOK
BY DEF Inv, TokenOK, PagesOK, Bounds, ReqsOK, Req, TypeOK

LEMMA FreeReqOK == FreeReq \in Req /\ Sound(FreeReq) /\ Sound(FreeReq)'
BY DEF FreeReq, Req, Sound

LEMMA ClosedChatOK ==
  ClosedChat \in [open : Sessions \union {None}, msgs : Sessions \union {None},
                  polled : SUBSET Sessions]
BY DEF ClosedChat

LEMMA InitInv == Init => Inv
<1> SUFFICES ASSUME Init PROVE Inv
  OBVIOUS
<1>1. TokenOK /\ Known /\ Bounds
  BY PanelAssumption DEF Init, TokenOK, Known, Bounds
<1>2. PagesOK
  BY ClosedChatOK DEF Init, PagesOK
<1>3. ReqsOK
  BY FreeReqOK DEF Init, ReqsOK
<1> QED BY <1>1, <1>2, <1>3 DEF Inv
-----------------------------------------------------------------------------
(* Tokens are handed out and die; neither is taken back. *)
Later == TokenOK /\ TokenOK' /\ Known' /\ issued <= issued' /\ Refused \subseteq Refused'

LEMMA StaysSound == ASSUME Later, NEW q, Sound(q) PROVE Sound(q)'
BY PanelAssumption DEF Later, TokenOK, Sound

LEMMA SetReq ==
  ASSUME Later, ReqsOK, NEW t \in Tabs, NEW i \in Slots, NEW q \in Req,
         Sound(q)', req' = [req EXCEPT ![t][i] = q]
  PROVE  ReqsOK'
<1>1. req' \in [Tabs -> [Slots -> Req]]
  BY DEF ReqsOK
<1>2. ASSUME NEW u \in Tabs, NEW j \in Slots
      PROVE  Sound(req[u][j])'
  <2>1. CASE u = t /\ j = i
    <3>1. req'[u][j] = q
      BY <2>1 DEF ReqsOK
    <3> QED BY <3>1 DEF Sound
  <2>2. CASE ~(u = t /\ j = i)
    <3>1. req'[u][j] = req[u][j]
      BY <2>2 DEF ReqsOK
    <3>2. Sound(req[u][j])
      BY DEF ReqsOK
    <3> QED BY <3>1, <3>2, PanelAssumption DEF Sound, Later, TokenOK
  <2> QED BY <2>1, <2>2
<1> QED BY <1>1, <1>2 DEF ReqsOK

LEMMA SameReq == Later /\ ReqsOK /\ req' = req => ReqsOK'
BY PanelAssumption DEF Later, TokenOK, ReqsOK, Sound

(* The requests that leave with the page are the same but for their use. *)
LEMMA LeaveReq ==
  ASSUME Later, PagesOK, NEW t \in Tabs, NEW reqs \in [Tabs -> [Slots -> Req]],
         \A u \in Tabs, i \in Slots : Sound(reqs[u][i]),
         Leave(t, reqs)
  PROVE  ReqsOK' /\ chat' \in [Tabs -> [open : Sessions \union {None}, msgs : Sessions \union {None},
                                        polled : SUBSET Sessions]]
<1>1. req' \in [Tabs -> [Slots -> Req]]
  <2>1. \A i \in Slots : [reqs[t][i] EXCEPT !.about = None] \in Req
    <3>1. \A i \in Slots : reqs[t][i] \in Req
      OBVIOUS
    <3> QED BY <3>1 DEF Req
  <2>2. req' = [reqs EXCEPT ![t] = [i \in Slots |-> [reqs[t][i] EXCEPT !.about = None]]]
    BY DEF Leave
  <2> QED BY <2>1, <2>2
<1>2. ASSUME NEW u \in Tabs, NEW i \in Slots
      PROVE  Sound(req[u][i])'
  <2>1. req'[u][i].token = reqs[u][i].token /\ req'[u][i].pc = reqs[u][i].pc
    BY DEF Leave, Req
  <2> QED BY <2>1, PanelAssumption DEF Sound, Later, TokenOK
<1>3. chat' \in [Tabs -> [open : Sessions \union {None}, msgs : Sessions \union {None},
                          polled : SUBSET Sessions]]
  BY ClosedChatOK DEF Leave, PagesOK
<1> QED BY <1>1, <1>2, <1>3 DEF ReqsOK
-----------------------------------------------------------------------------
(* One lemma for each group of actions. *)

LEMMA BoundsKept == Bounds /\ (Act \/ Fault \/ UNCHANGED <<acts, faults>>) => Bounds'
BY PanelAssumption DEF Bounds, Act, Fault

LEMMA Sent ==
  ASSUME Inv, Later, NEW t \in Tabs, NEW i \in Slots, NEW about \in Sessions \union {None},
         Send(t, i, about)
  PROVE  ReqsOK'
<1>1. PICK q \in Req : q = [pc |-> "sent", about |-> about, token |-> IF i = Login THEN None ELSE token]
  <2>1. token \in Tokens \union {None}
    BY PanelAssumption DEF Inv, TokenOK, Tokens
  <2>2. [pc |-> "sent", about |-> about, token |-> IF i = Login THEN None ELSE token] \in Req
    BY <2>1 DEF Req
  <2> QED BY <2>2
<1>2. Sound(q)'
  BY <1>1, PanelAssumption DEF Sound, Inv, Later, TokenOK
<1> QED BY <1>1, <1>2, SetReq DEF Send, Inv

LEMMA Finished ==
  ASSUME Inv, Later, NEW t \in Tabs, NEW i \in Slots, Done(t, i)
  PROVE  ReqsOK'
BY FreeReqOK, SetReq DEF Done, Inv

LEMMA GotAnswer ==
  ASSUME Inv, Later, NEW t \in Tabs, NEW i \in Slots, NEW pc \in {"ok", "denied", "error"},
         NEW k \in (1..issued') \union {None}, pc = "denied" => k \in Refused',
         Answered(t, i, pc, k)
  PROVE  ReqsOK'
<1>1. req[t][i] \in Req
  BY DEF Inv, ReqsOK
<1>2. k \in Tokens \union {None}
  BY PanelAssumption DEF Later, TokenOK, Tokens
<1>3. PICK q \in Req : q = [req[t][i] EXCEPT !.pc = pc, !.token = k]
  BY <1>1, <1>2 DEF Req
<1>4. q.pc = pc /\ q.token = k
  BY <1>1, <1>3 DEF Req
<1>5. Sound(q)'
  BY <1>4 DEF Sound
<1>6. req' = [req EXCEPT ![t][i] = q]
  BY <1>3 DEF Answered
<1> QED BY <1>5, <1>6, SetReq DEF Inv
-----------------------------------------------------------------------------
(* Next: first what it does to tokens, pages and counters, then to requests. *)

TabStep(t) ==
  \/ SubmitLogin(t) \/ StartKeycloak(t) \/ Callback(t) \/ BackToLogin(t)
  \/ SignedIn(t) \/ SignInFails(t) \/ Logout(t) \/ Visit(t)
  \/ Poll(t) \/ CloseChat(t) \/ LeaveChatLog(t) \/ Grant(t) \/ Reject(t)
  \/ \E s \in Sessions : OpenChat(t, s) \/ \E f \in Fetches : PollChat(t, f, s)
ReqStep(t, i) == Answer(t, i) \/ Fail(t, i) \/ Denied(t, i) \/ Receive(t, i) \/ Failed(t, i)

LEMMA NextSteps ==
  Next => \/ \E t \in Tabs : TabStep(t) \/ \E i \in Slots : ReqStep(t, i)
          \/ LoseKeys \/ FetchKeys
          \/ \E k \in Tokens : Expire(k)
BY DEF Next, Handle, TabStep, ReqStep

LEMMA NextTokens ==
  ASSUME Inv, Next
  PROVE  Later
<1>1. /\ TokenOK /\ Known /\ issued \in Nat /\ MaxTokens \in Nat /\ None \notin Tokens
  BY PanelAssumption DEF Inv, TokenOK
<1>2. ASSUME UNCHANGED <<issued, dead, idp>>, token' \in (1..issued) \union {None}
      PROVE  Later
  BY <1>1, <1>2 DEF Later, TokenOK, Known, Refused, idp
<1>3. token \in (1..issued) \union {None} /\ None \in (1..issued) \union {None}
  BY <1>1 DEF TokenOK
<1>4. ASSUME NEW t \in Tabs, TabStep(t)
      PROVE  Later
  <2>1. CASE Grant(t)
    <3>1. /\ issued' = issued + 1 /\ issued < MaxTokens /\ UNCHANGED <<token, dead, keys, shaky>>
          /\ kc' = kc \/ (keys /\ kc' = kc \union {issued + 1})
      BY <2>1 DEF Grant
    <3>2. 1..issued \subseteq 1..issued' /\ issued' \in 0..MaxTokens /\ issued + 1 \in 1..issued'
      BY <1>1, <3>1
    <3>3. Known' /\ Refused' = Refused
      BY <1>1, <3>1 DEF Known, Refused
    <3>4. TokenOK'
      BY <1>1, <3>1, <3>2 DEF TokenOK
    <3> QED BY <1>1, <3>1, <3>3, <3>4 DEF Later
  <2>2. CASE SignedIn(t)
    <3>1. req[t][Login].token \in (1..issued) \union {None}
      BY DEF Inv, ReqsOK, Sound, Slots
    <3> QED BY <1>2, <2>2, <3>1 DEF SignedIn
  <2>3. CASE Logout(t)
    BY <1>2, <2>3 DEF Logout
  <2>4. CASE UNCHANGED <<token, issued, dead, idp>>
    BY <1>2, <1>3, <2>4
  <2> QED BY <1>4, <2>1, <2>2, <2>3, <2>4
    DEF TabStep, SubmitLogin, StartKeycloak, Callback, BackToLogin, SignInFails, Visit, Poll,
        CloseChat, LeaveChatLog, Reject, OpenChat, PollChat
<1>5. ASSUME NEW t \in Tabs, NEW i \in Slots, ReqStep(t, i)
      PROVE  Later
  BY <1>2, <1>3, <1>5 DEF ReqStep, Answer, Fail, Denied, Receive, Failed
<1>6. ASSUME NEW k \in Tokens, Expire(k)
      PROVE  Later
  BY <1>1, <1>6 DEF Expire, Valid, Later, TokenOK, Known, Refused, idp
<1>7. CASE LoseKeys \/ FetchKeys
  <2>1. UNCHANGED <<token, issued, dead, kc>> /\ keys' \in BOOLEAN
    BY <1>7 DEF LoseKeys, FetchKeys
  <2>2. Known' /\ (shaky' = shaky \/ shaky' = kc)
    BY <1>7 DEF LoseKeys, FetchKeys, Known
  <2>3. TokenOK'
    BY <1>1, <2>1, <2>2 DEF TokenOK
  <2>4. Refused \subseteq Refused'
    BY <1>1, <2>1, <2>2 DEF TokenOK, Refused
  <2> QED BY <1>1, <2>1, <2>2, <2>3, <2>4 DEF Later
<1> QED BY <1>4, <1>5, <1>6, <1>7, NextSteps

LEMMA TabReqs ==
  ASSUME Inv, Later, NEW t \in Tabs, TabStep(t)
  PROVE  ReqsOK'
<1>1. Login \in Slots /\ Monitor \in Slots /\ Fetches \subseteq Slots /\ ReqsOK /\ PagesOK
  BY DEF Slots, Inv
<1>2. SubmitLogin(t) \/ Callback(t) \/ Poll(t) => ReqsOK'
  BY <1>1, Sent DEF SubmitLogin, Callback, Poll
<1>3. \A s \in Sessions, f \in Fetches : PollChat(t, f, s) => ReqsOK'
  BY <1>1, Sent DEF PollChat
<1>4. SignedIn(t) \/ SignInFails(t) => ReqsOK'
  BY <1>1, Finished DEF SignedIn, SignInFails
<1>5. Logout(t) \/ LeaveChatLog(t) => ReqsOK'
  BY <1>1, LeaveReq DEF Logout, LeaveChatLog, ReqsOK
<1>6. ASSUME NEW where, Load(t, where)
      PROVE  ReqsOK'
  <2> DEFINE reqs == [req EXCEPT ![t] = [i \in Slots |-> FreeReq]]
  <2>1. reqs \in [Tabs -> [Slots -> Req]] /\ \A u \in Tabs, i \in Slots : Sound(reqs[u][i])
    BY FreeReqOK DEF Inv, ReqsOK
  <2>2. Leave(t, reqs)
    BY <1>6 DEF Load
  <2> HIDE DEF reqs
  <2>3. PICK r \in [Tabs -> [Slots -> Req]] :
          Leave(t, r) /\ \A u \in Tabs, i \in Slots : Sound(r[u][i])
    BY <2>1, <2>2
  <2> QED BY <1>1, <2>3, LeaveReq
<1>7. StartKeycloak(t) \/ Visit(t) => ReqsOK'
  BY <1>6 DEF StartKeycloak, Visit
<1>8. Grant(t) => ReqsOK'
  <2> SUFFICES ASSUME Grant(t) PROVE ReqsOK'
    OBVIOUS
  <2>1. PICK k \in (1..issued') \union {None} : k = issued'
    BY PanelAssumption DEF Grant, Later, TokenOK
  <2>2. Answered(t, Login, "ok", k)
    BY <2>1 DEF Grant
  <2> QED BY <1>1, <2>2, GotAnswer
<1>9. Reject(t) => ReqsOK'
  BY <1>1, GotAnswer DEF Reject
<1>10. BackToLogin(t) \/ CloseChat(t) \/ (\E s \in Sessions : OpenChat(t, s)) => ReqsOK'
  BY <1>1, SameReq DEF BackToLogin, CloseChat, OpenChat
<1> QED BY <1>2, <1>3, <1>4, <1>5, <1>7, <1>8, <1>9, <1>10 DEF TabStep

LEMMA ReqReqs ==
  ASSUME Inv, Later, NEW t \in Tabs, NEW i \in Slots, ReqStep(t, i)
  PROVE  ReqsOK'
<1>1. ReqsOK /\ PagesOK /\ Sound(req[t][i])
  BY DEF Inv, ReqsOK
<1>2. req[t][i].token \in (1..issued') \union {None}
  BY <1>1, PanelAssumption DEF Later, TokenOK, Sound
<1>3. Answer(t, i) => ReqsOK'
  <2>1. req[t][i].token \notin Accepted => req[t][i].token \in Refused'
    BY <1>1 DEF Accepted, Valid, Sound, Refused, Known, Inv, Later
  <2> QED BY <1>2, <2>1, GotAnswer DEF Answer
<1>4. Fail(t, i) => ReqsOK'
  BY <1>2, GotAnswer DEF Fail
<1>5. Receive(t, i) \/ Failed(t, i) => ReqsOK'
  BY Finished DEF Receive, Failed
<1>6. Denied(t, i) => ReqsOK'
  <2> SUFFICES ASSUME Denied(t, i) PROVE ReqsOK'
    OBVIOUS
  <2>1. PICK r : r = [req EXCEPT ![t][i] = FreeReq]
    OBVIOUS
  <2>2. r \in [Tabs -> [Slots -> Req]] /\ \A u \in Tabs, j \in Slots : Sound(r[u][j])
    BY <1>1, <2>1, FreeReqOK DEF ReqsOK
  <2>3. Leave(t, r)
    BY <2>1 DEF Denied
  <2> QED BY <1>1, <2>2, <2>3, LeaveReq
<1> QED BY <1>3, <1>4, <1>5, <1>6 DEF ReqStep
-----------------------------------------------------------------------------
LEMMA NextPages ==
  ASSUME Inv, Next
  PROVE  PagesOK' /\ Bounds'
<1>1. Bounds /\ PagesOK
  BY DEF Inv
<1>2. \A t : \A reqs : Leave(t, reqs) => chat' = [chat EXCEPT ![t] = ClosedChat]
  BY DEF Leave
<1>3. \A t : \A where : Load(t, where) => /\ view' = [view EXCEPT ![t] = where]
                                          /\ chat' = [chat EXCEPT ![t] = ClosedChat]
  BY <1>2 DEF Load
<1>4. ASSUME NEW t \in Tabs, TabStep(t)
      PROVE  PagesOK' /\ Bounds'
  <2>1. Bounds'
    BY <1>1, <1>4, BoundsKept
    DEF TabStep, SubmitLogin, StartKeycloak, Callback, BackToLogin, SignedIn, SignInFails, Logout,
        Visit, Poll, CloseChat, LeaveChatLog, Grant, Reject, OpenChat, PollChat
  <2>2. view' \in [Tabs -> {"login", "idp", "callback", "app"}]
    <3>1. \E v \in {"login", "idp", "callback", "app"} : view' = [view EXCEPT ![t] = v] \/ view' = view
      BY <1>3, <1>4
      DEF TabStep, SubmitLogin, StartKeycloak, Callback, BackToLogin, SignedIn, SignInFails,
          Logout, Visit, Poll, CloseChat, LeaveChatLog, Grant, Reject, OpenChat, PollChat
    <3> QED BY <1>1, <3>1 DEF PagesOK
  <2>3. CASE chat' = [chat EXCEPT ![t] = ClosedChat] \/ chat' = chat
    BY <1>1, <2>2, <2>1, <2>3, ClosedChatOK DEF PagesOK
  <2>4. CASE \E s \in Sessions : OpenChat(t, s)
    <3>1. PICK s \in Sessions : OpenChat(t, s)
      BY <2>4
    <3>2. chat[t].polled \subseteq Sessions
      BY <1>1 DEF PagesOK
    <3>3. [chat[t] EXCEPT !.open = s, !.polled = chat[t].polled \union {s}]
            \in [open : Sessions \union {None}, msgs : Sessions \union {None}, polled : SUBSET Sessions]
      BY <1>1, <3>2 DEF PagesOK
    <3>4. chat' = [chat EXCEPT ![t] = [chat[t] EXCEPT !.open = s, !.polled = chat[t].polled \union {s}]]
      BY <3>1 DEF OpenChat
    <3> QED BY <1>1, <2>1, <2>2, <3>3, <3>4 DEF PagesOK
  <2> QED BY <1>2, <1>3, <1>4, <2>3, <2>4
    DEF TabStep, SubmitLogin, StartKeycloak, Callback, BackToLogin, SignedIn, SignInFails, Logout,
        Visit, Poll, CloseChat, LeaveChatLog, Grant, Reject, PollChat
<1>5. ASSUME NEW t \in Tabs, NEW i \in Slots, ReqStep(t, i)
      PROVE  PagesOK' /\ Bounds'
  <2>1. Bounds'
    BY <1>1, <1>5, BoundsKept DEF ReqStep, Answer, Fail, Denied, Receive, Failed
  <2>2. view' \in [Tabs -> {"login", "idp", "callback", "app"}]
    BY <1>1, <1>5 DEF PagesOK, ReqStep, Answer, Fail, Denied, Receive, Failed
  <2>3. req[t][i].about \in Sessions \union {None}
    BY DEF Inv, ReqsOK, Req
  <2>4. CASE Receive(t, i)
    BY <1>1, <2>1, <2>2, <2>3, <2>4 DEF PagesOK, Receive
  <2>5. CASE ~Receive(t, i)
    BY <1>1, <1>2, <1>5, <2>1, <2>2, <2>5, ClosedChatOK
    DEF PagesOK, ReqStep, Answer, Fail, Denied, Failed
  <2> QED BY <2>4, <2>5
<1>6. ASSUME NEW k \in Tokens, Expire(k)
      PROVE  PagesOK' /\ Bounds'
  BY <1>1, <1>6, BoundsKept DEF Expire, PagesOK
<1>7. CASE LoseKeys \/ FetchKeys
  BY <1>1, <1>7, BoundsKept DEF LoseKeys, FetchKeys, PagesOK
<1> QED BY <1>4, <1>5, <1>6, <1>7, NextSteps

LEMMA NextInv == Inv /\ [Next]_vars => Inv'
<1>1. Inv /\ Next => Inv'
  <2> SUFFICES ASSUME Inv, Next PROVE Inv'
    OBVIOUS
  <2>1. Later
    BY NextTokens
  <2>2. LoseKeys \/ FetchKeys \/ (\E k \in Tokens : Expire(k)) => ReqsOK'
    BY <2>1, SameReq DEF LoseKeys, FetchKeys, Expire, Inv
  <2>3. ReqsOK'
    BY <2>1, <2>2, TabReqs, ReqReqs, NextSteps
  <2> QED BY <2>1, <2>3, NextPages DEF Inv, Later
<1>2. Inv /\ UNCHANGED vars => Inv'
  BY DEF vars, idp, Inv, TokenOK, Known, Refused, PagesOK, Bounds, ReqsOK, Sound
<1> QED BY <1>1, <1>2

(* The stored token, the requests and the pages of every tab keep their     *)
(* types, however the tabs' requests and answers interleave.                *)
THEOREM TypeCorrect == Spec => []TypeOK
BY InitInv, NextInv, InvTypes, PTL DEF Spec

(* What ends a good session: a 401 that checkAuth gets for a request which  *)
(* carried the stored token proves that the token is dead, or one of        *)
(* Keycloak that was there when the backend had no keys.                    *)
LEMMA EndOfSession ==
  ASSUME Inv, Next, token \in Valid \ shaky, token' # token
  PROVE  \E t \in Tabs : Logout(t) \/ SignedIn(t) \/ Disowned(t)
<1>1. token \notin Refused
  BY PanelAssumption DEF Valid, Refused, Inv, TokenOK, Tokens
<1>2. ASSUME NEW t \in Tabs, TabStep(t)
      PROVE  Logout(t) \/ SignedIn(t)
  BY <1>2 DEF TabStep, SubmitLogin, StartKeycloak, Callback, BackToLogin, SignInFails, Visit, Poll,
              CloseChat, LeaveChatLog, Grant, Reject, OpenChat, PollChat
<1>3. ASSUME NEW t \in Tabs, NEW i \in Slots, ReqStep(t, i)
      PROVE  Disowned(t)
  <2>1. Denied(t, i)
    BY <1>3 DEF ReqStep, Answer, Fail, Receive, Failed
  <2>2. req[t][i].token # token
    BY <1>1, <2>1 DEF Denied, Inv, ReqsOK, Sound
  <2> QED BY <2>1, <2>2 DEF Disowned
<1>4. ASSUME NEW k \in Tokens, Expire(k)
      PROVE  FALSE
  BY <1>4 DEF Expire
<1>5. ~LoseKeys /\ ~FetchKeys
  BY DEF LoseKeys, FetchKeys
<1> QED BY <1>2, <1>3, <1>4, <1>5, NextSteps

(* For every number of tabs, tokens and requests under way, a session that  *)
(* is still good ends only when the user logs out or signs in, or by the    *)
(* late 401 of a request sent without its token (api.ts, checkAuth) - but   *)
(* for the tokens of Keycloak that were there when its keys were missing,   *)
(* which the backend may refuse (validateBearerAccessToken): those alone,   *)
(* and never a token the backend signed itself.                             *)
THEOREM SessionIsKept == Spec => SessionSticks
<1>1. Inv /\ [Next]_vars =>
        [(token \in Valid \ shaky /\ token' # token) =>
            \E t \in Tabs : Logout(t) \/ SignedIn(t) \/ Disowned(t)]_vars
  BY EndOfSession DEF vars
<1> QED BY InitInv, NextInv, <1>1, PTL DEF Spec, SessionSticks
=============================================================================
