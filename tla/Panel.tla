------------------------------- MODULE Panel -------------------------------
(* The session of the administrator's panel, shared by the tabs of one      *)
(* browser through localStorage, and the ChatLog page that lives in it.     *)
(* Every answer goes through checkAuth: a 401 removes THE stored token,     *)
(* whichever token the request was sent with, and only the window that got  *)
(* it learns of it (auth-change is not heard in the other tabs).  What ends *)
(* a dead session in every tab is the metrics poll of MonitorProvider.      *)
EXTENDS Naturals

CONSTANTS
  Tabs, Sessions,  \* the windows; the chats in the log
  MaxTokens,    \* bounds the access tokens that are handed out, numbered from 1
  OldKc,        \* {1} if the session that is there at first is Keycloak's, else {}
  Fetches,      \* bounds a tab's fetches of chat messages under way
  MaxActs,      \* bounds what the user does
  MaxFaults,    \* bounds lost requests, failing answers and missing keys
  None

\* the requests a tab may have under way
Login == "login"
Monitor == "monitor"
Slots == Fetches \union {Login, Monitor}
Tokens == 1..MaxTokens

ASSUME PanelAssumption ==
  /\ MaxTokens \in Nat \ {0} /\ MaxActs \in Nat /\ MaxFaults \in Nat /\ OldKc \subseteq {1}
  /\ None \notin Tokens \union Sessions /\ Fetches \cap {Login, Monitor} = {}

VARIABLES
  token,   \* localStorage "token"
  issued,  \* the last token handed out by the backend or by Keycloak
  dead,    \* the tokens that have expired
  kc,      \* the tokens that Keycloak has signed, the others the backend
  keys,    \* whether the backend has the keys (JWKS) that Keycloak signs with
  shaky,   \* history: the tokens of Keycloak handed out before keys were missing
  view,    \* what each tab shows: "app" is whatever needs a token in App's state
  chat,    \* ChatLog: the open session, its messages, the running intervals
  req,     \* the requests of each tab
  acts, faults

idp  == <<kc, keys, shaky>>
vars == <<token, issued, dead, idp, view, chat, req, acts, faults>>
-----------------------------------------------------------------------------
\* faulty: a token counts as good before it was ever signed
AnyUnexpired == Tokens \ dead

Valid == (1..issued) \ dead

\* validateBearerAccessToken: any error of it is a 401
Accepted == Valid \ (IF keys THEN {} ELSE kc)

ClosedChat == [open |-> None, msgs |-> None, polled |-> {}]
\* about: the session asked for, None once its page is gone; token: the one
\* sent, or, with an accepted login, the one received
FreeReq == [pc |-> "free", token |-> None, about |-> None]

Init ==
  /\ \/ token = None /\ issued = 0
     \/ token = 1 /\ issued = 1
  /\ dead = {} /\ kc = OldKc \cap (1..issued) /\ keys = TRUE /\ shaky = {}
  /\ view = [t \in Tabs |-> IF token = None THEN "login" ELSE "app"]
  /\ chat = [t \in Tabs |-> ClosedChat]
  /\ req = [t \in Tabs |-> [i \in Slots |-> FreeReq]]
  /\ acts = 0 /\ faults = 0

Act   == acts < MaxActs /\ acts' = acts + 1 /\ UNCHANGED faults
Fault == faults < MaxFaults /\ faults' = faults + 1 /\ UNCHANGED acts

Send(t, i, about) ==
  /\ req[t][i].pc = "free"
  /\ req' = [req EXCEPT ![t][i] = [pc |-> "sent", about |-> about,
                                           token |-> IF i = Login THEN None ELSE token]]

Done(t, i) == req' = [req EXCEPT ![t][i] = FreeReq]

\* the pages behind the login are left: ChatLog is unmounted
Leave(t, reqs) ==
  /\ chat' = [chat EXCEPT ![t] = ClosedChat]
  /\ req' = [reqs EXCEPT ![t] = [i \in Slots |-> [@[i] EXCEPT !.about = None]]]

\* another page is loaded into the tab, whose requests are gone
Load(t, where) ==
  /\ view' = [view EXCEPT ![t] = where]
  /\ Leave(t, [req EXCEPT ![t] = [i \in Slots |-> FreeReq]])
-----------------------------------------------------------------------------
(* Signing in and out. *)

\* submit, on the login page
SubmitLogin(t) ==
  /\ Act /\ view[t] = "login" /\ Send(t, Login, None)
  /\ UNCHANGED <<token, issued, dead, idp, view, chat>>

\* startKeycloak: the browser goes to the identity provider ...
StartKeycloak(t) ==
  /\ Act /\ view[t] = "login" /\ Load(t, "idp")
  /\ UNCHANGED <<token, issued, dead, idp>>

\* ... which sends it back with a code, that the callback page exchanges
Callback(t) ==
  /\ view[t] = "idp"
  /\ view' = [view EXCEPT ![t] = "callback"]
  /\ Send(t, Login, None)
  /\ UNCHANGED <<token, issued, dead, idp, chat, acts, faults>>

\* the button of the callback page with its error
BackToLogin(t) ==
  /\ view[t] = "callback" /\ req[t][Login].pc = "free"
  /\ view' = [view EXCEPT ![t] = "login"]
  /\ UNCHANGED <<token, issued, dead, idp, chat, req, acts, faults>>

\* the token is stored, auth-change is fired, and the tab goes to /docs
SignedIn(t) ==
  /\ req[t][Login].pc = "ok"
  /\ token' = req[t][Login].token
  /\ view' = [view EXCEPT ![t] = "app"]
  /\ Done(t, Login)
  /\ UNCHANGED <<issued, dead, idp, chat, acts, faults>>

\* no token came: neither page looks at what is stored
SignInFails(t) ==
  /\ req[t][Login].pc = "error" /\ Done(t, Login)
  /\ UNCHANGED <<token, issued, dead, idp, view, chat, acts, faults>>

Logout(t) ==
  /\ Act /\ view[t] = "app"
  /\ token' = None
  /\ view' = [view EXCEPT ![t] = "login"]
  /\ Leave(t, req)
  /\ UNCHANGED <<issued, dead, idp>>

\* the tab is reloaded at "/"
Visit(t) ==
  /\ Act /\ Load(t, IF token = None THEN "login" ELSE "app")
  /\ UNCHANGED <<token, issued, dead, idp>>
-----------------------------------------------------------------------------
(* The pages behind the login. *)

\* MonitorProvider: a fetch at once and every POLL_MS after
Poll(t) ==
  /\ view[t] = "app" /\ Send(t, Monitor, None)
  /\ UNCHANGED <<token, issued, dead, idp, view, chat, acts, faults>>

\* the effects on modalSession: the messages are fetched from now on
OpenChat(t, s) ==
  /\ Act /\ view[t] = "app" /\ chat[t].open = None
  /\ chat' = [chat EXCEPT ![t].open = s, ![t].polled = @ \union {s}]
  /\ UNCHANGED <<token, issued, dead, idp, view, req>>

\* ... at once, and every CHAT_MESSAGES_POLL_MS after
PollChat(t, f, s) ==
  /\ s \in chat[t].polled /\ Send(t, f, s)
  /\ UNCHANGED <<token, issued, dead, idp, view, chat, acts, faults>>

\* faulty: the effect returns no clearInterval
CloseChatOnly(t) ==
  /\ chat[t].open # None
  /\ chat' = [chat EXCEPT ![t].open = None, ![t].msgs = None]
  /\ UNCHANGED <<token, issued, dead, idp, view, req, acts, faults>>

\* the interval is cleared, the fetches under way are not cancelled
CloseChat(t) ==
  /\ chat[t].open # None
  /\ chat' = [chat EXCEPT ![t] = ClosedChat]
  /\ UNCHANGED <<token, issued, dead, idp, view, req, acts, faults>>

\* another page of the panel is chosen
LeaveChatLog(t) ==
  /\ chat[t] # ClosedChat \/ \E f \in Fetches : req[t][f].about # None
  /\ Leave(t, req)
  /\ UNCHANGED <<token, issued, dead, idp, view, acts, faults>>
-----------------------------------------------------------------------------
(* The backend, and what its answers do. *)

Answered(t, i, pc, k) == req' = [req EXCEPT ![t][i].pc = pc, ![t][i].token = k]

\* Login, or KeycloakCallback, which checks what it got for the code
Grant(t) ==
  /\ req[t][Login].pc = "sent" /\ issued < MaxTokens
  /\ issued' = issued + 1 /\ Answered(t, Login, "ok", issued')
  /\ IF view[t] = "callback" THEN keys /\ kc' = kc \union {issued'} ELSE UNCHANGED kc
  /\ UNCHANGED <<token, dead, keys, shaky, view, chat, acts, faults>>

\* wrong password, code refused
Reject(t) ==
  /\ req[t][Login].pc = "sent" /\ Answered(t, Login, "error", None)
  /\ UNCHANGED <<token, issued, dead, idp, view, chat, acts, faults>>

\* AuthMiddleware, then the handler
Answer(t, i) ==
  LET q == req[t][i] IN
  /\ i # Login /\ q.pc = "sent"
  /\ IF q.token \in Accepted THEN Answered(t, i, "ok", None) ELSE Answered(t, i, "denied", q.token)
  /\ UNCHANGED <<token, issued, dead, idp, view, chat, acts, faults>>

\* the backend answers 500, or there is no answer
Fail(t, i) ==
  /\ req[t][i].pc = "sent" /\ Fault
  /\ Answered(t, i, "error", req[t][i].token)
  /\ UNCHANGED <<token, issued, dead, idp, view, chat>>

\* faulty: every status but 200 ends the session
DeniedWithoutStatus(t, i) ==
  /\ i # Login /\ req[t][i].pc \in {"denied", "error"}
  /\ token' = None
  /\ view' = [view EXCEPT ![t] = IF @ = "app" THEN "login" ELSE @]
  /\ Leave(t, [req EXCEPT ![t][i] = FreeReq])
  /\ UNCHANGED <<issued, dead, idp, acts, faults>>

\* faulty: the window does not hear of it
DeniedQuietly(t, i) ==
  /\ i # Login /\ req[t][i].pc = "denied"
  /\ token' = None
  /\ Done(t, i)
  /\ UNCHANGED <<issued, dead, idp, view, chat, acts, faults>>

\* checkAuth
Denied(t, i) ==
  /\ i # Login /\ req[t][i].pc = "denied"
  /\ token' = None
  /\ view' = [view EXCEPT ![t] = IF @ = "app" THEN "login" ELSE @]
  /\ Leave(t, [req EXCEPT ![t][i] = FreeReq])
  /\ UNCHANGED <<issued, dead, idp, acts, faults>>

\* fetchMessages: the messages are shown in whatever session is open by now
Receive(t, i) ==
  /\ i # Login /\ req[t][i].pc = "ok" /\ Done(t, i)
  /\ chat' = IF req[t][i].about = None THEN chat ELSE [chat EXCEPT ![t].msgs = req[t][i].about]
  /\ UNCHANGED <<token, issued, dead, idp, view, acts, faults>>

\* a toast, or nothing
Failed(t, i) ==
  /\ i # Login /\ req[t][i].pc = "error" /\ Done(t, i)
  /\ UNCHANGED <<token, issued, dead, idp, view, chat, acts, faults>>

Expire(k) ==
  /\ k \in Valid /\ dead' = dead \union {k}
  /\ UNCHANGED <<token, issued, idp, view, chat, req, acts, faults>>

\* Keycloak signs with other keys, or the backend starts without reaching it
LoseKeys ==
  /\ keys /\ Fault
  /\ keys' = FALSE /\ shaky' = kc
  /\ UNCHANGED <<token, issued, dead, kc, view, chat, req>>

\* keyfunc fetches them, after a time of its own
FetchKeys ==
  /\ ~keys /\ keys' = TRUE
  /\ UNCHANGED <<token, issued, dead, kc, shaky, view, chat, req, acts, faults>>
-----------------------------------------------------------------------------
Handle(t, i) == Denied(t, i) \/ Receive(t, i) \/ Failed(t, i)

Next ==
  \/ \E t \in Tabs :
       \/ SubmitLogin(t) \/ StartKeycloak(t) \/ Callback(t) \/ BackToLogin(t)
       \/ SignedIn(t) \/ SignInFails(t) \/ Logout(t) \/ Visit(t)
       \/ Poll(t) \/ CloseChat(t) \/ LeaveChatLog(t) \/ Grant(t) \/ Reject(t)
       \/ \E s \in Sessions : OpenChat(t, s) \/ \E f \in Fetches : PollChat(t, f, s)
       \/ \E i \in Slots : Answer(t, i) \/ Fail(t, i) \/ Handle(t, i)
  \/ LoseKeys \/ FetchKeys
  \/ \E k \in Tokens : Expire(k)

\* the timers go on, the backend answers what reaches it, and the callbacks run
Fairness ==
  \A t \in Tabs :
    /\ WF_vars(Poll(t))
    /\ WF_vars(\E f \in Fetches, s \in Sessions : PollChat(t, f, s))
    /\ \A i \in Slots : WF_vars(Answer(t, i)) /\ WF_vars(Handle(t, i))

Spec == Init /\ [][Next]_vars /\ Fairness
-----------------------------------------------------------------------------
TypeOK ==
  /\ issued \in 0..MaxTokens /\ token \in (1..issued) \union {None} /\ dead \subseteq 1..issued
  /\ kc \subseteq 1..issued /\ keys \in BOOLEAN /\ shaky \subseteq kc
  /\ view \in [Tabs -> {"login", "idp", "callback", "app"}]
  /\ chat \in [Tabs -> [open : Sessions \union {None}, msgs : Sessions \union {None},
                        polled : SUBSET Sessions]]
  /\ req \in [Tabs -> [Slots -> [pc : {"free", "sent", "ok", "denied", "error"},
                                 token : Tokens \union {None}, about : Sessions \union {None}]]]
  /\ acts \in 0..MaxActs /\ faults \in 0..MaxFaults

\* a 401 meant for another token
Disowned(t) == \E i \in Slots : Denied(t, i) /\ req[t][i].token # token

\* A token that is still good leaves localStorage only when the user logs out
\* or signs in again, or by the late 401 of a request that was sent without it:
\* no answer to a request sent with it ends the session, in whichever tab.  The
\* exception are the tokens of Keycloak that lived to see its keys missing: one
\* of them may be refused, and the 401 arrive when the keys are there again.
SessionSticks ==
  [][(token \in Valid \ shaky /\ token' # token) =>
       \E t \in Tabs : Logout(t) \/ SignedIn(t) \/ Disowned(t)]_vars

\* No tab keeps showing the panel with a session that is dead or was ended in
\* another tab: it finds out by itself, whatever page it shows.
DeadSessionLeaves ==
  \A t \in Tabs :
    (view[t] = "app" /\ token \notin Valid) ~> (view[t] # "app" \/ token \in Valid)

\* The messages of a session that was looked at before may appear under the one
\* that is open, but not for good.
MessagesSettle ==
  \A t \in Tabs, s \in Sessions :
    <>[](chat[t].open = s) => <>[](chat[t].msgs = s)
=============================================================================
