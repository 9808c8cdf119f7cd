-------------------------- MODULE GamePagesProofs --------------------------
(***************************************************************************)
(* No page of the game overwrites progress that it was not answered, and   *)
(* no session is left that nobody can end, for any number of windows,      *)
(* users, calls, sessions and restarts.                                    *)
(*                                                                         *)
(* PagesInv: an id of a session is fresh for as long as no page, request   *)
(* or answer has it, and as long as the session that a page, an answer or  *)
(* a save names is open, its user's progress is what the page was, or is   *)
(* about to be, answered.                                                  *)
(*                                                                         *)
(* OwnerInv: the id of an open session is known, if at all, as one of its  *)
(* own user, and a save that was answered 200 has ended the session it     *)
(* named, so that a page that logs out gives up nothing.                   *)
(*                                                                         *)
(* TypesInv: what is stored and answered was counted by a page, and a page *)
(* with a name has the id of a session.                                    *)
(***************************************************************************)
EXTENDS GamePages, TLAPS

PageFields == {"user", "sid", "counts", "loggedIn", "base"}
CallFields == {"page", "handler", "asked", "base"}
RequestFields == {"kind", "name", "pass", "session", "save"}
AnswerFields == {"status", "session", "radish", "upgrades"}

Shape ==
    /\ session \in [Names -> SessionIds \cup {NoSession}]
    /\ DOMAIN account = Names
    /\ DOMAIN page = Pages /\ \A p \in Pages : DOMAIN page[p] = PageFields
    /\ DOMAIN call = Threads /\ \A t \in Threads : DOMAIN call[t] = CallFields
    /\ DOMAIN request = Threads /\ DOMAIN stage = Threads
    /\ DOMAIN answer = Threads

\* While the session of user n is k, its progress is b.
Current(n, k, b) == k # NoSession /\ session[n] = k => b = Progress(account[n])

PageInv(p) ==
    /\ page[p].user \in Names \cup {NoName}
    /\ page[p].loggedIn => page[p].user \in Names
    /\ page[p].sid # NoSession =>
           /\ page[p].user \in Names
           /\ page[p].sid \in told
           /\ Current(page[p].user, page[p].sid, page[p].base)

Serving(t) == stage[t] # "none"

CallInv(t) ==
    /\ Serving(t) =>
        /\ request[t].name \in Names
        /\ request[t].kind = "create" => call[t].handler = "create"
        /\ request[t].kind = "update" <=> call[t].handler = "logout"
        /\ request[t].kind = "login" <=> IsLogin(t)
        /\ call[t].asked = request[t]
        /\ request[t].kind = "update" /\ request[t].session # NoSession =>
               /\ request[t].session \in told
               /\ Current(request[t].name, request[t].session, call[t].base)
        /\ request[t].kind \in {"create", "login", "update"}
    /\ call[t].handler \in {"create", "created"} =>
        /\ DOMAIN call[t].asked = RequestFields
        /\ call[t].asked.kind = "create" /\ call[t].asked.name \in Names

AnswerInv(t) ==
    answer[t].session # NoSession =>
        /\ stage[t] = "answered" /\ request[t].kind = "login"
        /\ answer[t].session \in SessionIds
        /\ Current(request[t].name, answer[t].session, Progress(answer[t]))

PagesInv ==
    /\ Shape
    /\ \A n \in Names : session[n] # NoSession => account[n] # NoAccount
    /\ \A p \in Pages : PageInv(p)
    /\ \A t \in Threads : CallInv(t) /\ AnswerInv(t)
-----------------------------------------------------------------------------
(* Steps of others.                                                        *)

\* A session that is open after a step was open before, with the same progress,
\* or is fresh.
Carries ==
    /\ told \subseteq told'
    /\ \A n \in Names : session'[n] # NoSession =>
           \/ session'[n] = session[n] /\ account'[n] = account[n]
           \/ Fresh(session'[n])

\* What is known of a session that somebody has an id of stays known.
LEMMA CurrentStays ==
    ASSUME Carries, NEW n \in Names, NEW k, NEW b, Current(n, k, b), ~ Fresh(k)
    PROVE  k # NoSession /\ session'[n] = k => b = [radish |-> account'[n].radish,
                                                   upgrades |-> account'[n].upgrades]
  BY DEF Carries, Current, Progress

LEMMA PageStays ==
    ASSUME Carries, NEW p \in Pages, PageInv(p),
           page'[p].user = page[p].user, page'[p].sid = page[p].sid,
           page'[p].base = page[p].base, page'[p].loggedIn = page[p].loggedIn
    PROVE  PageInv(p)'
<1>1. page[p].sid # NoSession => ~ Fresh(page[p].sid)
  BY DEF PageInv, Fresh
<1> QED
  BY <1>1, CurrentStays DEF PageInv, Current, Progress, Carries

LEMMA CallStays ==
    ASSUME Carries, NEW t \in Threads, CallInv(t),
           request'[t] = request[t], Serving(t)' = Serving(t),
           call'[t].handler = call[t].handler, call'[t].asked = call[t].asked,
           call'[t].base = call[t].base
    PROVE  CallInv(t)'
<1>1. Serving(t) /\ request[t].kind = "update" /\ request[t].session # NoSession
      => ~ Fresh(request[t].session)
  BY DEF CallInv, Fresh
<1> QED
  BY <1>1, CurrentStays DEF CallInv, Current, Progress, Carries, IsLogin

LEMMA AnswerStays ==
    ASSUME Carries, NEW t \in Threads, AnswerInv(t), CallInv(t),
           request'[t] = request[t], stage'[t] = stage[t], answer'[t] = answer[t]
    PROVE  AnswerInv(t)'
<1>1. answer[t].session # NoSession => ~ Fresh(answer[t].session)
  BY DEF Fresh
<1>2. answer[t].session # NoSession => request[t].name \in Names
  BY DEF AnswerInv, CallInv, Serving
<1> QED
  BY <1>1, <1>2, CurrentStays DEF AnswerInv, Current, Progress

LEMMA StoredStays ==
    ASSUME account' = account, session' = session, told \subseteq told'
    PROVE  Carries
  BY DEF Carries
-----------------------------------------------------------------------------
LEMMA PagesInit == InitPages => PagesInv
  BY DEF InitPages, Init, PagesInv, Shape, PageInv, CallInv, AnswerInv, Serving,
         NewPage, NoCall, NoAnswer, PageFields, CallFields, IsLogin

(* Pages.                                                                  *)

LEMMA PlayStep ==
    ASSUME PagesInv, NEW p \in Pages, Play(p)
    PROVE  PagesInv'
<1>1. PICK c \in Counts : page' = [page EXCEPT ![p].counts = c]
  BY DEF Play
<1>2. UNCHANGED <<vars, call>> /\ Carries
  BY StoredStays DEF Play, vars, stored
<1>3. Shape'
  BY <1>1, <1>2 DEF PagesInv, Shape, PageFields, vars, stored
<1>4. ASSUME NEW q \in Pages PROVE PageInv(q)'
  <2>1. /\ page'[q].user = page[q].user /\ page'[q].sid = page[q].sid
        /\ page'[q].base = page[q].base /\ page'[q].loggedIn = page[q].loggedIn
    BY <1>1 DEF PagesInv, Shape, PageFields
  <2> QED
    BY <1>2, <2>1, PageStays DEF PagesInv
<1>5. ASSUME NEW t \in Threads PROVE CallInv(t)' /\ AnswerInv(t)'
  BY <1>2, CallStays, AnswerStays DEF PagesInv, vars, stored, Serving
<1> QED
  BY <1>2, <1>3, <1>4, <1>5 DEF PagesInv, vars, stored

\* A request with the handler that awaits it.
LEMMA SendStep ==
    ASSUME PagesInv, NEW t \in Threads, NEW r, NEW c, Send(t, r, c),
           DOMAIN c = CallFields, c.asked = r, DOMAIN r = RequestFields,
           r.name \in Names,
           \/ r.kind = "create" /\ c.handler = "create"
           \/ r.kind = "login" /\ c.handler \in {"login", "firstLogin"}
           \/ /\ r.kind = "update" /\ c.handler = "logout"
              /\ r.session # NoSession => /\ r.session \in told
                                          /\ Current(r.name, r.session, c.base),
           UNCHANGED page
    PROVE  PagesInv'
<1>1. /\ UNCHANGED <<account, session, told, answer>> /\ Carries
      /\ stage[t] = "none"
  BY StoredStays DEF Send, Call, stored
<1>2. Shape'
  BY <1>1 DEF PagesInv, Shape, Send, Call, Enter
<1>3. \A p \in Pages : PageInv(p)'
  BY <1>1, PageStays DEF PagesInv
<1>4. ASSUME NEW u \in Threads, u # t PROVE CallInv(u)' /\ AnswerInv(u)'
  <2>1. call'[u] = call[u] /\ request'[u] = request[u] /\ stage'[u] = stage[u]
    BY <1>4 DEF PagesInv, Shape, Send, Call, Enter
  <2> QED
    BY <1>1, <2>1, CallStays, AnswerStays DEF PagesInv, Serving
<1>5. call'[t] = c /\ request'[t] = r /\ stage'[t] = "called"
  BY DEF PagesInv, Shape, Send, Call, Enter
<1>6. CallInv(t)'
  BY <1>1, <1>5 DEF CallInv, Serving, IsLogin, Current, Progress
<1>7. AnswerInv(t)'
  BY <1>1 DEF AnswerInv, PagesInv
<1> QED
  BY <1>1, <1>2, <1>3, <1>4, <1>6, <1>7 DEF PagesInv

LEMMA SubmitStep ==
    ASSUME PagesInv, NEW t \in Threads, NEW p \in Pages, Submit(t, p)
    PROVE  PagesInv'
<1>1. PICK kind \in {"create", "login"}, n \in Names, pw \in Passwords :
          Send(t, Form(p, kind, n, pw).asked, Form(p, kind, n, pw))
  BY DEF Submit
<1>2. UNCHANGED page
  BY DEF Submit
<1> QED
  BY <1>1, <1>2, SendStep DEF Form, CallFields, RequestFields

LEMMA LoginAfterCreateStep ==
    ASSUME PagesInv, NEW t \in Threads, LoginAfterCreate(t)
    PROVE  PagesInv'
<1> DEFINE login == [call[t].asked EXCEPT !.kind = "login"]
           c == [call[t] EXCEPT !.handler = "firstLogin", !.asked = login]
<1>1. Send(t, login, c) /\ UNCHANGED page /\ call[t].handler = "created"
  BY DEF LoginAfterCreate
<1>2. /\ DOMAIN login = RequestFields /\ login.name \in Names
      /\ login.kind = "login"
  BY <1>1 DEF PagesInv, CallInv, RequestFields
<1>3. DOMAIN c = CallFields /\ c.asked = login /\ c.handler = "firstLogin"
  BY DEF PagesInv, Shape, CallFields
<1> HIDE DEF login, c
<1> QED
  BY <1>1, <1>2, <1>3, SendStep

LEMMA LogoutStep ==
    ASSUME PagesInv, NEW t \in Threads, NEW p \in Pages, Logout(t, p)
    PROVE  PagesInv'
<1>1. Send(t, SaveOf(p), LogoutOf(p)) /\ UNCHANGED page
  BY DEF Logout
<1>2. page[p].user \in Names /\ PageInv(p)
  BY DEF Logout, PagesInv, PageInv
<1> QED
  BY <1>1, <1>2, SendStep DEF SaveOf, LogoutOf, CallFields, RequestFields, PageInv

LEMMA UnloadStep ==
    ASSUME PagesInv, NEW p \in Pages, Unload(p)
    PROVE  PagesInv'
<1> DEFINE left == [t \in Threads |-> IF call[t].page # p THEN call[t]
                                      ELSE IF call[t].handler = "created" THEN NoCall
                                      ELSE [call[t] EXCEPT !.page = NoPage]]
           put == [LogoutOf(p) EXCEPT !.page = NoPage]
<1>1. /\ page' = [page EXCEPT ![p] = NewPage]
      /\ \/ call' = left /\ UNCHANGED vars
         \/ /\ page[p].user # NoName
            /\ \E t \in Threads : /\ call[t] = NoCall /\ Call(t, SaveOf(p))
                                  /\ call' = [left EXCEPT ![t] = put]
  BY DEF Unload
<1>2. UNCHANGED <<account, session, told, answer>> /\ Carries
  BY <1>1, StoredStays DEF vars, stored, Call
<1>3. ASSUME NEW q \in Pages PROVE PageInv(q)'
  <2>1. CASE q = p
    BY <1>1, <2>1 DEF PagesInv, Shape, PageInv, NewPage
  <2>2. CASE q # p
    <3>1. page'[q] = page[q]
      BY <1>1, <2>2 DEF PagesInv, Shape
    <3> QED
      BY <1>2, <3>1, PageStays DEF PagesInv
  <2> QED
    BY <2>1, <2>2
<1>4. ASSUME NEW t \in Threads
      PROVE  /\ DOMAIN left[t] = CallFields
             /\ \/ left[t] = NoCall /\ call[t].handler = "created"
                \/ /\ left[t].handler = call[t].handler /\ left[t].asked = call[t].asked
                   /\ left[t].base = call[t].base
  BY DEF PagesInv, Shape, CallFields, NoCall
<1> HIDE DEF left
<1>5. ASSUME NEW t \in Threads, call'[t] = left[t], request'[t] = request[t],
             stage'[t] = stage[t]
      PROVE  CallInv(t)' /\ AnswerInv(t)'
  <2>1. AnswerInv(t)'
    BY <1>2, <1>5, AnswerStays DEF PagesInv
  <2>2. CASE left[t] = NoCall /\ call[t].handler = "created"
    BY <1>5, <2>1, <2>2 DEF PagesInv, CallInv, NoCall, Serving, IsLogin
  <2>3. CASE /\ left[t].handler = call[t].handler /\ left[t].asked = call[t].asked
             /\ left[t].base = call[t].base
    BY <1>2, <1>5, <2>1, <2>3, CallStays DEF PagesInv, Serving
  <2> QED
    BY <1>4, <2>1, <2>2, <2>3
<1>6. DOMAIN page' = Pages /\ \A q \in Pages : DOMAIN page'[q] = PageFields
  BY <1>1 DEF PagesInv, Shape, NewPage, PageFields
<1>7. CASE call' = left /\ UNCHANGED vars
  <2>1. \A t \in Threads : CallInv(t)' /\ AnswerInv(t)'
    BY <1>5, <1>7 DEF vars
  <2>2. Shape'
    BY <1>2, <1>4, <1>6, <1>7 DEF PagesInv, Shape, vars, left
  <2> QED
    BY <1>2, <1>3, <2>1, <2>2 DEF PagesInv
<1>8. ASSUME NEW t \in Threads, page[p].user # NoName, Call(t, SaveOf(p)),
             call' = [left EXCEPT ![t] = put]
      PROVE  PagesInv'
  <2>1. DOMAIN left = Threads
    BY DEF left
  <2>2. /\ call'[t] = put /\ request'[t] = SaveOf(p)
        /\ stage[t] = "none" /\ stage'[t] = "called"
    BY <1>8, <2>1 DEF PagesInv, Shape, Call, Enter
  <2>3. ASSUME NEW u \in Threads, u # t PROVE CallInv(u)' /\ AnswerInv(u)'
    <3>1. call'[u] = left[u] /\ request'[u] = request[u] /\ stage'[u] = stage[u]
      BY <1>8, <2>1, <2>3 DEF PagesInv, Shape, Call, Enter
    <3> QED
      BY <1>5, <3>1
  <2>4. /\ DOMAIN put = CallFields /\ put.handler = "logout"
        /\ put.asked = SaveOf(p) /\ put.base = page[p].base
    BY DEF LogoutOf, CallFields
  <2>5. CallInv(t)'
    <3>1. PageInv(p) /\ page[p].user \in Names
      BY <1>8 DEF PagesInv, PageInv
    <3> HIDE DEF put
    <3> QED
      BY <1>2, <2>2, <2>4, <3>1
      DEF CallInv, PageInv, Serving, IsLogin, Current, Progress, SaveOf
  <2>6. AnswerInv(t)'
    BY <1>2, <2>2 DEF AnswerInv, PagesInv
  <2>7. Shape'
    <3> HIDE DEF put
    <3> QED
      BY <1>2, <1>4, <1>6, <1>8, <2>1, <2>2, <2>4 DEF PagesInv, Shape, Call, Enter
  <2> QED
    BY <1>2, <1>3, <2>3, <2>5, <2>6, <2>7 DEF PagesInv
<1> QED
  BY <1>1, <1>7, <1>8
-----------------------------------------------------------------------------
(* The server.                                                             *)

\* A step of the server on the request of t.
LEMMA ServeStep ==
    ASSUME PagesInv, NEW t \in Threads, NEW s,
           UNCHANGED pageVars, UNCHANGED <<told, request>>, Carries,
           Serving(t), s # "none", stage' = [stage EXCEPT ![t] = s],
           DOMAIN answer' = Threads, AnswerInv(t)',
           \A u \in Threads \ {t} : answer'[u] = answer[u],
           session' \in [Names -> SessionIds \cup {NoSession}],
           DOMAIN account' = Names,
           \A n \in Names : session'[n] # NoSession => account'[n] # NoAccount
    PROVE  PagesInv'
<1>1. Shape'
  BY DEF PagesInv, Shape, pageVars
<1>2. \A p \in Pages : PageInv(p)'
  BY PageStays DEF PagesInv, pageVars
<1>3. ASSUME NEW u \in Threads PROVE CallInv(u)'
  <2>1. Serving(u)' = Serving(u)
    BY DEF PagesInv, Shape, Serving
  <2> QED
    BY <2>1, CallStays DEF PagesInv, pageVars
<1>4. ASSUME NEW u \in Threads PROVE AnswerInv(u)'
  <2>1. CASE u # t
    <3>1. stage'[u] = stage[u] /\ answer'[u] = answer[u]
      BY <2>1 DEF PagesInv, Shape
    <3> QED
      BY <3>1, AnswerStays DEF PagesInv
  <2> QED
    BY <2>1
<1> QED
  BY <1>1, <1>2, <1>3, <1>4 DEF PagesInv, NoAccount

\* A step that stores nothing and answers no session id.
LEMMA QuietStep ==
    ASSUME PagesInv, NEW t \in Threads, NEW s,
           UNCHANGED pageVars, UNCHANGED <<stored, request>>,
           Serving(t), s # "none", stage' = [stage EXCEPT ![t] = s],
           DOMAIN answer' = Threads, answer'[t].session = NoSession,
           \A u \in Threads \ {t} : answer'[u] = answer[u]
    PROVE  PagesInv'
<1>1. Carries /\ UNCHANGED <<account, session, told, request>>
  BY StoredStays DEF stored
<1>2. AnswerInv(t)'
  BY DEF AnswerInv, PagesInv, Shape
<1> QED
  BY <1>1, <1>2, ServeStep DEF PagesInv, Shape

LEMMA CheckStep ==
    ASSUME PagesInv, NEW t \in Threads, UNCHANGED pageVars,
           Check(t) \/ (stage[t] = "passed" /\ Miss(t))
    PROVE  PagesInv'
<1>1. PICK s \in {"passed", "failed"} : stage' = [stage EXCEPT ![t] = s]
  BY DEF Check, Miss, Enter
<1>2. /\ UNCHANGED <<stored, request, answer>>
      /\ stage[t] \in {"called", "passed"}
  BY DEF Check, Miss
<1>3. DOMAIN answer = Threads /\ answer[t].session = NoSession
  BY <1>2 DEF PagesInv, Shape, AnswerInv
<1> QED
  BY <1>1, <1>2, <1>3, QuietStep DEF Serving

LEMMA RefuseStep ==
    ASSUME PagesInv, NEW t \in Threads, UNCHANGED pageVars, Serving(t), Refuse(t)
    PROVE  PagesInv'
<1>1. PICK code \in {400, 422, 500} : Answer(t, [NoAnswer EXCEPT !.status = code])
  BY DEF Refuse, Refusals
<1>2. /\ stage' = [stage EXCEPT ![t] = "answered"]
      /\ answer' = [answer EXCEPT ![t] = [NoAnswer EXCEPT !.status = code]]
      /\ UNCHANGED <<stored, request>>
  BY <1>1 DEF Refuse, Answer, Enter, stored
<1>3. /\ DOMAIN answer' = Threads /\ answer'[t].session = NoSession
      /\ \A u \in Threads \ {t} : answer'[u] = answer[u]
  BY <1>2 DEF NoAnswer, PagesInv, Shape
<1> QED
  BY <1>2, <1>3, QuietStep

\* A new user is offline, and was before.
LEMMA CreateStep ==
    ASSUME PagesInv, NEW t \in Threads, UNCHANGED pageVars, Serving(t),
           Create(t), session' = session
    PROVE  PagesInv'
<1>1. /\ stage' = [stage EXCEPT ![t] = "answered"]
      /\ answer' = [answer EXCEPT ![t] = [NoAnswer EXCEPT !.status = 200]]
      /\ UNCHANGED <<told, request>>
  BY DEF Create, Succeed, Answer, Enter
<1>2. /\ DOMAIN answer' = Threads /\ answer'[t].session = NoSession
      /\ \A u \in Threads \ {t} : answer'[u] = answer[u]
  BY <1>1 DEF NoAnswer, PagesInv, Shape
<1>3. /\ DOMAIN account' = Names
      /\ \A m \in Names : account'[m] = account[m] \/ account[m] = NoAccount
  BY DEF Create, Registered, PagesInv, Shape
<1>4. Carries /\ \A m \in Names : session'[m] # NoSession => account'[m] # NoAccount
  BY <1>1, <1>3 DEF Carries, PagesInv
<1>5. AnswerInv(t)'
  BY <1>2 DEF AnswerInv
<1> QED
  BY <1>1, <1>2, <1>3, <1>4, <1>5, ServeStep DEF PagesInv, Shape

\* The answer of a login is what the session begins with, or has so far.
LEMMA LoginStep ==
    ASSUME PagesInv, NEW t \in Threads, UNCHANGED pageVars, Serving(t), Login(t)
    PROVE  PagesInv'
<1> DEFINE n == request[t].name
<1>1. /\ request[t].kind = "login" /\ account[n] # NoAccount /\ UNCHANGED account
      /\ n \in Names
  BY DEF Login, Registered, PagesInv, CallInv
<1>2. PICK k \in SessionIds :
        /\ IF session[n] # NoSession THEN k = session[n] ELSE Fresh(k)
        /\ session' = [session EXCEPT ![n] = k]
        /\ Answer(t, [status |-> 200, session |-> k, radish |-> account[n].radish,
                      upgrades |-> account[n].upgrades])
  BY DEF Login, Online
<1> DEFINE b == [status |-> 200, session |-> k, radish |-> account[n].radish,
                 upgrades |-> account[n].upgrades]
<1>3. /\ stage' = [stage EXCEPT ![t] = "answered"]
      /\ answer' = [answer EXCEPT ![t] = b]
      /\ UNCHANGED <<told, request>>
  BY <1>2 DEF Answer, Enter
<1>4. b.session = k /\ b.radish = account[n].radish /\ b.upgrades = account[n].upgrades
  OBVIOUS
<1> HIDE DEF b
<1>5. /\ DOMAIN answer' = Threads /\ answer'[t] = b
      /\ \A u \in Threads \ {t} : answer'[u] = answer[u]
  BY <1>3 DEF PagesInv, Shape
<1>6. session' \in [Names -> SessionIds \cup {NoSession}]
  BY <1>2 DEF PagesInv, Shape
<1>7. Carries
  BY <1>1, <1>2, <1>3 DEF Carries, PagesInv, Shape
<1>8. \A m \in Names : session'[m] # NoSession => account'[m] # NoAccount
  BY <1>1, <1>2 DEF PagesInv, Shape
<1>9. AnswerInv(t)'
  BY <1>1, <1>3, <1>4, <1>5 DEF AnswerInv, Current, Progress, PagesInv, Shape
<1> QED
  BY <1>1, <1>3, <1>5, <1>6, <1>7, <1>8, <1>9, ServeStep DEF PagesInv, Shape

\* A save ends the session: of the old one nothing is left to be known.
LEMMA UpdateStep ==
    ASSUME PagesInv, NEW t \in Threads, UNCHANGED pageVars, Serving(t), Update(t)
    PROVE  PagesInv'
<1>1. /\ stage' = [stage EXCEPT ![t] = "answered"]
      /\ answer' = [answer EXCEPT ![t] = [NoAnswer EXCEPT !.status = 200]]
      /\ UNCHANGED <<told, request>>
  BY DEF Update, Succeed, Answer, Enter
<1>2. /\ DOMAIN answer' = Threads /\ answer'[t].session = NoSession
      /\ \A u \in Threads \ {t} : answer'[u] = answer[u]
  BY <1>1 DEF NoAnswer, PagesInv, Shape
<1>3. /\ DOMAIN account' = Names
      /\ session' \in [Names -> SessionIds \cup {NoSession}]
      /\ \A m \in Names : \/ session'[m] = NoSession
                          \/ session'[m] = session[m] /\ account'[m] = account[m]
  BY DEF Update, PagesInv, Shape
<1>4. Carries /\ \A m \in Names : session'[m] # NoSession => account'[m] # NoAccount
  BY <1>1, <1>3 DEF Carries, PagesInv
<1>5. AnswerInv(t)'
  BY <1>2 DEF AnswerInv
<1> QED
  BY <1>1, <1>2, <1>3, <1>4, <1>5, ServeStep

LEMMA WorkStep ==
    ASSUME PagesInv, NEW t \in Threads, Work(t)
    PROVE  PagesInv'
<1>1. UNCHANGED pageVars
  BY DEF Work
<1>2. CASE Check(t) \/ (stage[t] = "passed" /\ Miss(t))
  BY <1>1, <1>2, CheckStep
<1>3. CASE stage[t] = "passed" /\ Create(t)
  BY <1>1, <1>3, CreateStep DEF Work, Create, Serving
<1>4. CASE stage[t] = "passed" /\ Login(t)
  BY <1>1, <1>4, LoginStep DEF Serving
<1>5. CASE stage[t] = "passed" /\ Update(t)
  BY <1>1, <1>5, UpdateStep DEF Serving
<1>6. CASE stage[t] # "none" /\ Refuse(t)
  BY <1>1, <1>6, RefuseStep DEF Serving
<1> QED
  BY <1>2, <1>3, <1>4, <1>5, <1>6 DEF Work
-----------------------------------------------------------------------------
(* Answers.                                                                *)

\* A page is what it was, or what the answer makes of it.
LEMMA DeliverStep ==
    ASSUME PagesInv, NEW t \in Threads, Deliver(t)
    PROVE  PagesInv'
<1>1. /\ stage[t] = "answered" /\ stage' = [stage EXCEPT ![t] = "none"]
      /\ told' = told \cup ({answer[t].session} \ {NoSession})
      /\ request' = [request EXCEPT ![t] = NoRequest]
      /\ answer' = [answer EXCEPT ![t] = NoAnswer]
      /\ UNCHANGED <<account, session>>
  BY DEF Deliver, Return, Enter
<1>2. Carries
  BY <1>1, StoredStays
<1>3. PICK c : /\ call' = [call EXCEPT ![t] = c]
               /\ \/ c = NoCall
                  \/ c = [call[t] EXCEPT !.handler = "created"] /\ call[t].handler = "create"
  BY DEF Deliver, Succeeds, Fails, PagesInv, Shape
<1>4. \/ UNCHANGED page
      \/ /\ call[t].page # NoPage
         /\ page' = [page EXCEPT ![call[t].page] =
                        CASE IsLogin(t) -> AfterLogin(t, @)
                          [] call[t].handler = "logout" -> AfterLogout(@)
                          [] OTHER -> @]
  BY DEF Deliver, Succeeds, Fails
<1>5. DOMAIN c = CallFields
  BY <1>3 DEF NoCall, CallFields, PagesInv, Shape
<1>6. ASSUME NEW u \in Threads, u # t PROVE CallInv(u)' /\ AnswerInv(u)'
  <2>1. /\ call'[u] = call[u] /\ request'[u] = request[u] /\ stage'[u] = stage[u]
        /\ answer'[u] = answer[u]
    BY <1>1, <1>3, <1>6 DEF PagesInv, Shape
  <2> QED
    BY <1>2, <2>1, CallStays, AnswerStays DEF PagesInv, Serving
<1>7. CallInv(t)'
  <2>1. stage'[t] = "none" /\ call'[t] = c
    BY <1>1, <1>3 DEF PagesInv, Shape
  <2>2. CASE c = NoCall
    BY <2>1, <2>2 DEF CallInv, Serving, NoCall
  <2>3. CASE c = [call[t] EXCEPT !.handler = "created"] /\ call[t].handler = "create"
    <3>1. c.asked = call[t].asked
      BY <2>3 DEF PagesInv, Shape, CallFields
    <3> QED
      BY <2>1, <2>3, <3>1 DEF CallInv, Serving, PagesInv
  <2> QED
    BY <1>3, <2>2, <2>3
<1>8. AnswerInv(t)'
  BY <1>1 DEF AnswerInv, NoAnswer, PagesInv, Shape
<1>9. ASSUME NEW p \in Pages PROVE PageInv(p)' /\ DOMAIN page'[p] = PageFields
  <2>1. \/ page'[p] = page[p]
        \/ p = call[t].page /\ IsLogin(t) /\ page'[p] = AfterLogin(t, page[p])
        \/ page'[p] = AfterLogout(page[p])
    BY <1>4 DEF PagesInv, Shape
  <2>2. CASE page'[p] = page[p]
    BY <1>2, <2>2, PageStays DEF PagesInv, Shape
  <2>3. CASE IsLogin(t) /\ page'[p] = AfterLogin(t, page[p])
    <3>1. /\ page'[p].user = request[t].name /\ page'[p].sid = answer[t].session
          /\ page'[p].base = Progress(answer[t]) /\ DOMAIN page'[p] = PageFields
      BY <2>3 DEF AfterLogin, PageFields
    <3>2. request[t].name \in Names /\ AnswerInv(t)
      BY <1>1 DEF PagesInv, CallInv, Serving
    <3> QED
      BY <1>1, <3>1, <3>2 DEF PageInv, AnswerInv, Current, Progress
  <2>4. CASE page'[p] = AfterLogout(page[p])
    <3>1. /\ page'[p].user = page[p].user /\ page'[p].sid = page[p].sid
          /\ page'[p].base = page[p].base /\ page'[p].loggedIn = FALSE
          /\ DOMAIN page'[p] = PageFields
      BY <2>4 DEF AfterLogout, PagesInv, Shape, PageFields
    <3>2. page[p].sid # NoSession => ~ Fresh(page[p].sid)
      BY DEF PagesInv, PageInv, Fresh
    <3> QED
      BY <1>1, <1>2, <3>1, <3>2 DEF PagesInv, PageInv, Current, Progress
  <2> QED
    BY <2>1, <2>2, <2>3, <2>4
<1>10. Shape'
  BY <1>1, <1>3, <1>4, <1>5, <1>9 DEF PagesInv, Shape
<1> QED
  BY <1>1, <1>6, <1>7, <1>8, <1>9, <1>10 DEF PagesInv, NoAccount

LEMMA RestartStep ==
    ASSUME PagesInv, Restart
    PROVE  PagesInv'
<1>1. UNCHANGED <<account, session, told, page>> /\ Carries
  BY StoredStays DEF Restart, Crash, stored
<1>2. ASSUME NEW t \in Threads
      PROVE  /\ stage'[t] = "none" /\ answer'[t].session = NoSession
             /\ call'[t] = call[t] \/ call'[t] = NoCall
  BY DEF Restart, Crash, NoAnswer
<1>3. Shape'
  BY <1>1, <1>2 DEF Restart, Crash, PagesInv, Shape, NoCall, CallFields
<1>4. \A p \in Pages : PageInv(p)'
  BY <1>1, PageStays DEF PagesInv
<1>5. ASSUME NEW t \in Threads PROVE CallInv(t)' /\ AnswerInv(t)'
  BY <1>2 DEF PagesInv, CallInv, AnswerInv, Serving, NoCall
<1> QED
  BY <1>1, <1>3, <1>4, <1>5 DEF PagesInv
-----------------------------------------------------------------------------
LEMMA PagesNext == PagesInv /\ [NextPages]_allVars => PagesInv'
<1> SUFFICES ASSUME PagesInv, [NextPages]_allVars PROVE PagesInv'
  OBVIOUS
<1>1. ASSUME NEW p \in Pages, Play(p) PROVE PagesInv'
  BY <1>1, PlayStep
<1>2. ASSUME NEW p \in Pages, Unload(p) PROVE PagesInv'
  BY <1>2, UnloadStep
<1>3. ASSUME NEW p \in Pages, NEW t \in Threads, Submit(t, p) PROVE PagesInv'
  BY <1>3, SubmitStep
<1>4. ASSUME NEW p \in Pages, NEW t \in Threads, Logout(t, p) PROVE PagesInv'
  BY <1>4, LogoutStep
<1>5. ASSUME NEW t \in Threads, LoginAfterCreate(t) PROVE PagesInv'
  BY <1>5, LoginAfterCreateStep
<1>6. ASSUME NEW t \in Threads, Work(t) PROVE PagesInv'
  BY <1>6, WorkStep
<1>7. ASSUME NEW t \in Threads, Deliver(t) PROVE PagesInv'
  BY <1>7, DeliverStep
<1>8. CASE Restart
  BY <1>8, RestartStep
<1>9. CASE UNCHANGED allVars
  BY <1>9 DEF allVars, vars, stored, pageVars, PagesInv, Shape, PageInv, CallInv,
              AnswerInv, Current, Progress, Serving, IsLogin
<1> QED
  BY <1>1, <1>2, <1>3, <1>4, <1>5, <1>6, <1>7, <1>8, <1>9 DEF NextPages

\* Every state of the composition is one that PagesInv describes: whoever has the
\* id of an open session was answered, or is about to be, what is stored.
THEOREM PagesCorrect == SpecPages => []PagesInv
  BY PagesInit, PagesNext, PTL DEF SpecPages

\* Only a save with the id of the session that is open changes an account.
LEMMA OnlyUpdates ==
    ASSUME PagesInv, NextPages, NEW n \in Names, account[n] # NoAccount,
           account'[n] # account[n]
    PROVE  \E t \in Threads :
              /\ stage[t] = "passed" /\ Update(t) /\ n = request[t].name
              /\ session[n] # NoSession /\ session[n] = request[t].session
<1>1. account' # account
  OBVIOUS
<1>2. PICK t \in Threads : Work(t)
  BY <1>1 DEF NextPages, Play, Unload, Submit, Logout, LoginAfterCreate, Send, Call,
              Deliver, Return, Restart, Crash, vars, stored
<1>3. \/ stage[t] = "passed" /\ Create(t)
      \/ stage[t] = "passed" /\ Update(t)
  BY <1>1, <1>2 DEF Work, Check, Miss, Login, Refuse, stored
<1>4. ~ Create(t)
  BY DEF Create, Registered, PagesInv, Shape
<1> QED
  BY <1>3, <1>4 DEF Update, Online, PagesInv, Shape

LEMMA SaveIsAnswered ==
    ASSUME PagesInv, NextPages, NEW n \in Names, account[n] # NoAccount,
           Progress(account[n])' # Progress(account[n])
    PROVE  \E t \in Threads : /\ stage[t] = "passed" /\ stage[t]' = "answered"
                              /\ call[t].handler = "logout"
                              /\ call[t].base = Progress(account[n])
<1>1. account'[n] # account[n]
  BY DEF Progress
<1>2. PICK t \in Threads :
          /\ stage[t] = "passed" /\ Update(t) /\ n = request[t].name
          /\ session[n] # NoSession /\ session[n] = request[t].session
  BY <1>1, OnlyUpdates
<1>3. request[t].kind = "update" /\ stage'[t] = "answered"
  BY <1>2 DEF Update, Succeed, Answer, Enter, PagesInv, Shape
<1>4. call[t].handler = "logout" /\ Current(n, request[t].session, call[t].base)
  BY <1>2, <1>3 DEF PagesInv, CallInv, Serving
<1> QED
  BY <1>2, <1>3, <1>4 DEF Current

\* No page replaces progress that its last login was not answered, whatever the
\* number of windows, users and calls, and however handlers overlap, answers get
\* lost and the server restarts (index.js:452-457, 517-535).
THEOREM NoStaleSavesTheorem == SpecPages => NoStaleSaves
<1>1. PagesInv /\ [NextPages]_allVars =>
        [\A n \in Names :
          /\ account[n] # NoAccount
          /\ Progress(account[n])' # Progress(account[n])
          => \E t \in Threads : /\ stage[t] = "passed" /\ stage[t]' = "answered"
                                /\ call[t].handler = "logout"
                                /\ call[t].base = Progress(account[n])]_allVars
  BY SaveIsAnswered
<1> QED
  BY <1>1, PagesCorrect, PTL DEF SpecPages, NoStaleSaves

-----------------------------------------------------------------------------
(* Who can end a session.                                                  *)

\* For as long as k is the id of an open session, it is one of user n.
BelongsTo(n, k) == \A m \in Names : k # NoSession /\ session[m] = k => m = n

\* What was sent has been looked at, and the session is not open any more.
HasEnded(t) ==
    stage[t] = "answered" /\ answer[t].status = 200 /\ request[t].session # NoSession
        => session[request[t].name] # request[t].session

OwnerInv ==
    /\ \A n \in Names : BelongsTo(n, session[n])
    /\ \A p \in Pages : BelongsTo(page[p].user, page[p].sid)
    /\ \A t \in Threads :
        /\ call[t].page \in Pages \cup {NoPage}
        /\ BelongsTo(request[t].name, answer[t].session)
        /\ Serving(t) /\ request[t].kind = "update" =>
               BelongsTo(request[t].name, request[t].session) /\ HasEnded(t)

OrphanInv == PagesInv /\ OwnerInv /\ NoOrphanSessions

LEMMA OrphanInit == InitPages => OrphanInv
<1>1. InitPages => PagesInv
  BY PagesInit
<1>2. InitPages => OwnerInv
  BY DEF InitPages, Init, OwnerInv, BelongsTo, Serving, NewPage, NoAnswer, NoCall
<1>3. InitPages => NoOrphanSessions
  BY DEF InitPages, Init, NoOrphanSessions
<1> QED
  BY <1>1, <1>2, <1>3 DEF OrphanInv

\* What a page takes up, a request or an answer, somebody had before.
LEMMA OwnerKept ==
    ASSUME OwnerInv, session' = session,
           \A p \in Pages :
               \/ page'[p].sid = NoSession
               \/ page'[p].user = page[p].user /\ page'[p].sid = page[p].sid
               \/ \E t \in Threads : /\ page'[p].user = request[t].name
                                     /\ page'[p].sid = answer[t].session,
           \A t \in Threads :
               \/ answer'[t].session = NoSession
               \/ answer'[t] = answer[t] /\ request'[t] = request[t],
           \A t \in Threads :
               Serving(t)' /\ request'[t].kind = "update" =>
               \/ /\ Serving(t) /\ request'[t] = request[t]
                  /\ \/ stage'[t] = stage[t] /\ answer'[t] = answer[t]
                     \/ HasEnded(t)'
               \/ stage'[t] # "answered" /\ \E p \in Pages : request'[t] = SaveOf(p),
           \A t \in Threads :
               call'[t].page = call[t].page \/ call'[t].page \in Pages \cup {NoPage}
    PROVE  OwnerInv'
<1>1. \A n \in Names : BelongsTo(n, session[n])'
  BY DEF OwnerInv, BelongsTo
<1>2. \A p \in Pages : BelongsTo(page[p].user, page[p].sid)'
  BY DEF OwnerInv, BelongsTo
<1>3. \A t \in Threads : BelongsTo(request[t].name, answer[t].session)'
  BY DEF OwnerInv, BelongsTo
<1>4. ASSUME NEW t \in Threads, Serving(t)', request'[t].kind = "update"
      PROVE  BelongsTo(request[t].name, request[t].session)' /\ HasEnded(t)'
  <2>1. CASE Serving(t) /\ request'[t] = request[t]
    BY <1>4, <2>1 DEF OwnerInv, BelongsTo, HasEnded, SaveOf
  <2>2. CASE stage'[t] # "answered" /\ \E p \in Pages : request'[t] = SaveOf(p)
    BY <1>4, <2>2 DEF OwnerInv, BelongsTo, HasEnded, SaveOf
  <2> QED
    BY <1>4, <2>1, <2>2
<1>5. \A t \in Threads : call'[t].page \in Pages \cup {NoPage}
  BY DEF OwnerInv
<1> QED
  BY <1>1, <1>2, <1>3, <1>4, <1>5 DEF OwnerInv

\* Who can end the session with the id k.
Tended(k) ==
    \/ k \in strayed
    \/ \E p \in Pages : Keeps(p, k)
    \/ \E t \in Threads : Bears(t, k)

OpenIds == {session[n] : n \in Names} \ {NoSession}

LEMMA TendedStays ==
    ASSUME OrphanInv, session' = session, strayed \subseteq strayed',
           \A p \in Pages, k \in OpenIds : Keeps(p, k) => Tended(k)',
           \A t \in Threads, k \in OpenIds : Bears(t, k) => Tended(k)'
    PROVE  NoOrphanSessions'
<1> SUFFICES ASSUME NEW n \in Names, session'[n] # NoSession PROVE Tended(session[n])'
  BY DEF NoOrphanSessions, Tended
<1>1. session[n] \in OpenIds /\ Tended(session[n])
  BY DEF OpenIds, OrphanInv, NoOrphanSessions, Tended
<1>2. PICK k \in OpenIds : k = session[n]
  BY <1>1
<1>3. Tended(k)'
  BY <1>1, <1>2 DEF Tended
<1> QED
  BY <1>2, <1>3 DEF Tended

LEMMA OrphanPlay ==
    ASSUME OrphanInv, NEW p \in Pages, Play(p)
    PROVE  OwnerInv' /\ NoOrphanSessions'
<1>1. PICK c \in Counts : page' = [page EXCEPT ![p].counts = c]
  BY DEF Play
<1>2. UNCHANGED <<vars, call, strayed>>
  BY DEF Play
<1>3. \A q \in Pages : /\ page'[q].user = page[q].user /\ page'[q].sid = page[q].sid
                       /\ page'[q].loggedIn = page[q].loggedIn
  BY <1>1 DEF OrphanInv, PagesInv, Shape, PageFields
<1>4. OwnerInv'
  BY <1>2, <1>3, OwnerKept DEF OrphanInv, Serving, vars, stored
<1>5. NoOrphanSessions'
  BY <1>2, <1>3, TendedStays DEF Tended, Keeps, Bears, IsLogin, vars, stored
<1> QED
  BY <1>4, <1>5

LEMMA OrphanSend ==
    ASSUME OrphanInv, NEW t \in Threads, NEW r, NEW c, Send(t, r, c), ~ IsLogin(t),
           r.kind = "update" => \E p \in Pages : r = SaveOf(p),
           c.page \in Pages \cup {NoPage}, UNCHANGED <<page, strayed>>
    PROVE  OwnerInv' /\ NoOrphanSessions'
<1>1. /\ UNCHANGED <<account, session, told, answer>>
      /\ request' = [request EXCEPT ![t] = r] /\ stage' = [stage EXCEPT ![t] = "called"]
      /\ call' = [call EXCEPT ![t] = c] /\ stage[t] = "none"
  BY DEF Send, Call, Enter, stored
<1>2. /\ request'[t] = r /\ stage'[t] = "called" /\ call'[t] = c
      /\ \A u \in Threads \ {t} : /\ request'[u] = request[u] /\ stage'[u] = stage[u]
                                  /\ call'[u] = call[u]
  BY <1>1 DEF OrphanInv, PagesInv, Shape
<1>3. answer[t].session = NoSession
  BY <1>1 DEF OrphanInv, PagesInv, AnswerInv
<1>4. OwnerInv'
  BY <1>1, <1>2, <1>3, OwnerKept DEF OrphanInv, Serving
<1>5. NoOrphanSessions'
  BY <1>1, <1>2, TendedStays DEF Tended, Keeps, Bears, IsLogin
<1> QED
  BY <1>4, <1>5

LEMMA OrphanCalls ==
    ASSUME OrphanInv, NEW t \in Threads,
           LoginAfterCreate(t) \/ \E p \in Pages : Submit(t, p) \/ Logout(t, p)
    PROVE  OwnerInv' /\ NoOrphanSessions'
<1>1. ASSUME NEW p \in Pages, Submit(t, p) PROVE OwnerInv' /\ NoOrphanSessions'
  <2>1. PICK kind \in {"create", "login"}, n \in Names, pw \in Passwords :
            Send(t, Form(p, kind, n, pw).asked, Form(p, kind, n, pw))
    BY <1>1 DEF Submit
  <2>2. /\ Form(p, kind, n, pw).asked.kind # "update" /\ ~ IsLogin(t)
        /\ Form(p, kind, n, pw).page = p
    BY <1>1 DEF Submit, Form, NoCall, IsLogin
  <2>3. UNCHANGED <<page, strayed>>
    BY <1>1 DEF Submit
  <2> QED
    BY <2>1, <2>2, <2>3, OrphanSend
<1>2. ASSUME NEW p \in Pages, Logout(t, p) PROVE OwnerInv' /\ NoOrphanSessions'
  <2>1. /\ Send(t, SaveOf(p), LogoutOf(p)) /\ UNCHANGED <<page, strayed>> /\ ~ IsLogin(t)
        /\ LogoutOf(p).page = p
    BY <1>2 DEF Logout, LogoutOf, NoCall, IsLogin
  <2> QED
    BY <2>1, OrphanSend
<1>3. CASE LoginAfterCreate(t)
  <2> DEFINE login == [call[t].asked EXCEPT !.kind = "login"]
             c == [call[t] EXCEPT !.handler = "firstLogin", !.asked = login]
  <2>1. Send(t, login, c) /\ UNCHANGED <<page, strayed>> /\ call[t].handler = "created"
    BY <1>3 DEF LoginAfterCreate
  <2>2. login.kind = "login" /\ ~ IsLogin(t)
    BY <2>1 DEF OrphanInv, PagesInv, CallInv, RequestFields, IsLogin
  <2>3. c.page \in Pages \cup {NoPage}
    BY DEF OrphanInv, PagesInv, Shape, CallFields, OwnerInv
  <2> HIDE DEF login, c
  <2> QED
    BY <2>1, <2>2, <2>3, OrphanSend
<1> QED
  BY <1>1, <1>2, <1>3

\* A page that is closed gives its session up, its calls are still under way.
LEMMA OrphanUnload ==
    ASSUME OrphanInv, NEW p \in Pages, Unload(p)
    PROVE  OwnerInv' /\ NoOrphanSessions'
<1> DEFINE left == [t \in Threads |-> IF call[t].page # p THEN call[t]
                                      ELSE IF call[t].handler = "created" THEN NoCall
                                      ELSE [call[t] EXCEPT !.page = NoPage]]
           put == [LogoutOf(p) EXCEPT !.page = NoPage]
<1>1. /\ page' = [page EXCEPT ![p] = NewPage]
      /\ strayed' = strayed \cup ({page[p].sid} \ {NoSession})
      /\ \/ call' = left /\ UNCHANGED vars
         \/ \E t \in Threads : /\ call[t] = NoCall /\ Call(t, SaveOf(p))
                               /\ call' = [left EXCEPT ![t] = put]
  BY DEF Unload
<1>2. UNCHANGED <<account, session, told, answer>>
  BY <1>1 DEF vars, stored, Call
<1>3. \A q \in Pages : page'[q] = page[q] \/ (q = p /\ page'[q] = NewPage)
  BY <1>1 DEF OrphanInv, PagesInv, Shape
<1>4. ASSUME NEW t \in Threads, call[t].handler # "created"
      PROVE  left[t].handler = call[t].handler
  BY <1>4 DEF OrphanInv, PagesInv, Shape, CallFields
<1>5. /\ DOMAIN left = Threads /\ put.page = NoPage
      /\ \A t \in Threads : left[t].page = call[t].page \/ left[t].page = NoPage
  BY DEF LogoutOf, OrphanInv, PagesInv, Shape, CallFields, NoCall
<1> HIDE DEF left, put
<1>6. ASSUME NEW t \in Threads, IsLogin(t) PROVE IsLogin(t)'
  <2>1. call'[t] = left[t]
    BY <1>1, <1>5, <1>6 DEF IsLogin, NoCall
  <2> QED
    BY <1>4, <1>6, <2>1 DEF IsLogin
<1>7. ASSUME NEW k \in OpenIds, NEW q \in Pages, Keeps(q, k) PROVE Tended(k)'
  <2>1. CASE page'[q] = page[q]
    BY <1>7, <2>1 DEF Tended, Keeps
  <2>2. CASE q = p
    BY <1>1, <1>7, <2>2 DEF Tended, Keeps, OpenIds
  <2> QED
    BY <1>3, <2>1, <2>2
<1>8. ASSUME NEW k \in OpenIds, NEW t \in Threads, Bears(t, k) PROVE Tended(k)'
  BY <1>2, <1>6, <1>8 DEF Bears, Tended
<1>9. NoOrphanSessions'
  BY <1>1, <1>2, <1>7, <1>8, TendedStays
<1>10. ASSUME NEW t \in Threads
      PROVE  \/ request'[t] = request[t] /\ stage'[t] = stage[t]
             \/ /\ stage[t] = "none" /\ stage'[t] = "called" /\ request'[t] = SaveOf(p)
                /\ answer[t].session = NoSession
  BY <1>1 DEF vars, Call, Enter, OrphanInv, PagesInv, Shape, AnswerInv
<1>11. \A t \in Threads :
          call'[t].page = call[t].page \/ call'[t].page \in Pages \cup {NoPage}
  BY <1>1, <1>5
<1>12. OwnerInv'
  BY <1>2, <1>3, <1>10, <1>11, OwnerKept DEF OrphanInv, Serving, NewPage
<1> QED
  BY <1>9, <1>12

-----------------------------------------------------------------------------
LEMMA OrphanRestart ==
    ASSUME OrphanInv, Restart
    PROVE  OwnerInv' /\ NoOrphanSessions'
<1>1. /\ UNCHANGED <<account, session, told, page>>
      /\ strayed' = strayed \cup ({answer[t].session : t \in {u \in Threads : IsLogin(u)}}
                                  \ {NoSession})
  BY DEF Restart, Crash, stored
<1>2. ASSUME NEW t \in Threads
      PROVE  /\ stage'[t] = "none" /\ answer'[t].session = NoSession
             /\ call'[t].page = call[t].page \/ call'[t].page = NoPage
  BY DEF Restart, Crash, NoAnswer, NoCall
<1>3. OwnerInv'
  BY <1>1, <1>2, OwnerKept DEF OrphanInv, Serving
<1>4. NoOrphanSessions'
  BY <1>1, TendedStays DEF Tended, Keeps, Bears, IsLogin, OpenIds
<1> QED
  BY <1>3, <1>4

\* A step of the server that leaves the sessions as they are.
LEMMA OrphanServe ==
    ASSUME OrphanInv, NEW t \in Threads, NEW s, UNCHANGED pageVars,
           UNCHANGED <<session, request>>, Serving(t),
           stage' = [stage EXCEPT ![t] = s],
           answer[t].session = NoSession, answer'[t].session = NoSession,
           request[t].kind = "update" => HasEnded(t)',
           \A u \in Threads \ {t} : answer'[u] = answer[u]
    PROVE  OwnerInv' /\ NoOrphanSessions'
<1>1. stage'[t] = s /\ \A u \in Threads \ {t} : stage'[u] = stage[u]
  BY DEF OrphanInv, PagesInv, Shape
<1>2. \A u \in Threads : answer'[u].session = NoSession \/ answer'[u] = answer[u]
  OBVIOUS
<1>3. OwnerInv'
  BY <1>1, <1>2, OwnerKept DEF OrphanInv, Serving, pageVars
<1>4. ASSUME NEW u \in Threads, NEW k \in OpenIds, Bears(u, k)
      PROVE  Tended(k)'
  <2>1. u # t
    BY <1>4 DEF Bears, OpenIds
  <2> QED
    BY <1>4, <2>1 DEF Bears, Tended, IsLogin, pageVars
<1>5. NoOrphanSessions'
  BY <1>4, TendedStays DEF Tended, Keeps, pageVars
<1> QED
  BY <1>3, <1>5

\* The user of the request has the session that its answer opens.
LEMMA OrphanLogin ==
    ASSUME OrphanInv, NEW t \in Threads, UNCHANGED pageVars, stage[t] = "passed", Login(t)
    PROVE  OwnerInv' /\ NoOrphanSessions'
<1> DEFINE n == request[t].name
<1>1. n \in Names /\ IsLogin(t) /\ request[t].kind = "login"
  BY DEF Login, OrphanInv, PagesInv, CallInv, Serving
<1>2. PICK k \in SessionIds :
        /\ IF session[n] # NoSession THEN k = session[n] ELSE Fresh(k)
        /\ session' = [session EXCEPT ![n] = k]
        /\ Answer(t, [status |-> 200, session |-> k, radish |-> account[n].radish,
                      upgrades |-> account[n].upgrades])
  BY DEF Login, Online
<1>3. /\ UNCHANGED request /\ answer'[t].session = k /\ answer'[t].status = 200
      /\ \A u \in Threads \ {t} : answer'[u] = answer[u] /\ stage'[u] = stage[u]
  BY <1>2 DEF Answer, Enter, OrphanInv, PagesInv, Shape
<1> HIDE DEF n
<1>4. session'[n] = k /\ \A m \in Names \ {n} : session'[m] = session[m]
  BY <1>1, <1>2 DEF OrphanInv, PagesInv, Shape
<1>5. \A m \in Names \ {n} : k # NoSession => session[m] # k
  BY <1>1, <1>2 DEF Fresh, OrphanInv, OwnerInv, BelongsTo
<1>6. ASSUME NEW m \in Names, NEW j, BelongsTo(m, j), ~ Fresh(j) \/ j = NoSession
      PROVE  \A l \in Names : j # NoSession /\ session'[l] = j => l = m
  BY <1>1, <1>2, <1>4, <1>6 DEF BelongsTo
<1>7. \A m \in Names : BelongsTo(m, session[m])'
  BY <1>4, <1>5 DEF OrphanInv, OwnerInv, BelongsTo
<1>8. ASSUME NEW p \in Pages PROVE BelongsTo(page[p].user, page[p].sid)'
  <2>1. /\ BelongsTo(page[p].user, page[p].sid)
        /\ page[p].sid # NoSession => page[p].user \in Names /\ ~ Fresh(page[p].sid)
    BY DEF OrphanInv, OwnerInv, PagesInv, PageInv, Fresh
  <2> QED
    BY <1>6, <2>1 DEF BelongsTo, pageVars
<1>9. ASSUME NEW u \in Threads PROVE BelongsTo(request[u].name, answer[u].session)'
  <2>1. CASE u = t
    BY <1>3, <1>4, <1>5, <2>1 DEF BelongsTo, n
  <2>2. CASE u # t
    <3>1. /\ BelongsTo(request[u].name, answer[u].session)
          /\ answer[u].session # NoSession =>
                request[u].name \in Names /\ ~ Fresh(answer[u].session)
      BY DEF OrphanInv, OwnerInv, PagesInv, AnswerInv, CallInv, Serving, Fresh
    <3> QED
      BY <1>3, <1>6, <2>2, <3>1 DEF BelongsTo
  <2> QED
    BY <2>1, <2>2
<1>10. ASSUME NEW u \in Threads, Serving(u)', request'[u].kind = "update"
       PROVE  BelongsTo(request[u].name, request[u].session)' /\ HasEnded(u)'
  <2>1. u # t /\ Serving(u) /\ request[u].kind = "update"
    BY <1>1, <1>3, <1>10 DEF Serving
  <2>2. /\ BelongsTo(request[u].name, request[u].session) /\ HasEnded(u)
        /\ request[u].name \in Names
        /\ request[u].session # NoSession => ~ Fresh(request[u].session)
    BY <2>1 DEF OrphanInv, OwnerInv, PagesInv, CallInv, Fresh
  <2>3. BelongsTo(request[u].name, request[u].session)'
    BY <1>3, <1>6, <2>2 DEF BelongsTo
  <2>4. HasEnded(u)'
    BY <1>2, <1>3, <1>4, <2>1, <2>2 DEF HasEnded
  <2> QED
    BY <2>3, <2>4
<1>11. OwnerInv'
  <2>1. \A u \in Threads : call'[u].page \in Pages \cup {NoPage}
    BY DEF OrphanInv, OwnerInv, pageVars
  <2> QED
    BY <1>7, <1>8, <1>9, <1>10, <2>1 DEF OwnerInv
<1>12. ASSUME NEW m \in Names, session'[m] # NoSession PROVE Tended(session[m])'
  <2>1. CASE m = n
    <3>1. Bears(t, k)'
      BY <1>1, <1>3 DEF Bears, IsLogin, pageVars
    <3> QED
      BY <1>4, <2>1, <3>1 DEF Tended
  <2>2. CASE m # n
    <3>1. session'[m] = session[m]
      BY <1>4, <2>2
    <3>2. PICK j : j = session[m]
      OBVIOUS
    <3>3. Tended(j)
      BY <1>12, <3>1, <3>2 DEF OrphanInv, NoOrphanSessions, Tended
    <3>4. ASSUME NEW u \in Threads, Bears(u, j) PROVE Bears(u, j)'
      <4>1. u # t
        <5>1. answer[t].session = NoSession
          BY DEF OrphanInv, PagesInv, AnswerInv
        <5> QED
          BY <1>12, <3>1, <3>2, <3>4, <5>1 DEF Bears
      <4> QED
        BY <1>3, <3>4, <4>1 DEF Bears, IsLogin, pageVars
    <3>5. Tended(j)'
      BY <3>3, <3>4 DEF Tended, Keeps, pageVars
    <3> QED
      BY <3>1, <3>2, <3>5
  <2> QED
    BY <2>1, <2>2
<1>13. NoOrphanSessions'
  BY <1>12 DEF NoOrphanSessions, Tended
<1> QED
  BY <1>11, <1>13

\* A save ends the session that it names, or finds it ended.
LEMMA OrphanUpdate ==
    ASSUME OrphanInv, NEW t \in Threads, UNCHANGED pageVars, stage[t] = "passed", Update(t)
    PROVE  OwnerInv' /\ NoOrphanSessions'
<1> DEFINE n == request[t].name
<1>1. n \in Names /\ request[t].kind = "update" /\ ~ IsLogin(t) /\ UNCHANGED request
  BY DEF Update, Succeed, Answer, OrphanInv, PagesInv, CallInv, Serving, IsLogin
<1>2. /\ answer'[t].session = NoSession
      /\ \A u \in Threads \ {t} : answer'[u] = answer[u] /\ stage'[u] = stage[u]
  BY DEF Update, Succeed, Answer, Enter, NoAnswer, OrphanInv, PagesInv, Shape
<1>3. \A m \in Names : session'[m] = session[m] \/ session'[m] = NoSession
  BY DEF Update, OrphanInv, PagesInv, Shape
<1>4. request[t].session # NoSession => session'[n] # request[t].session
  BY <1>1 DEF Update, Online, OrphanInv, PagesInv, Shape
<1> HIDE DEF n
<1>5. ASSUME NEW m, NEW j, BelongsTo(m, j)
      PROVE  \A l \in Names : j # NoSession /\ session'[l] = j => l = m
  BY <1>3, <1>5 DEF BelongsTo
<1>6. \A m \in Names : BelongsTo(m, session[m])'
  BY <1>3 DEF OrphanInv, OwnerInv, BelongsTo
<1>7. \A p \in Pages : BelongsTo(page[p].user, page[p].sid)'
  BY <1>5 DEF OrphanInv, OwnerInv, BelongsTo, pageVars
<1>8. ASSUME NEW u \in Threads PROVE BelongsTo(request[u].name, answer[u].session)'
  <2>1. CASE u = t
    BY <1>2, <2>1 DEF BelongsTo
  <2>2. CASE u # t
    <3>1. BelongsTo(request[u].name, answer[u].session)
      BY DEF OrphanInv, OwnerInv
    <3>2. \A l \in Names : answer[u].session # NoSession /\ session'[l] = answer[u].session
                            => l = request[u].name
      BY <1>5, <3>1
    <3> QED
      BY <1>1, <1>2, <2>2, <3>2 DEF BelongsTo
  <2> QED
    BY <2>1, <2>2
<1>9. ASSUME NEW u \in Threads, Serving(u)', request'[u].kind = "update"
      PROVE  BelongsTo(request[u].name, request[u].session)' /\ HasEnded(u)'
  <2>1. CASE u = t
    <3>1. BelongsTo(request[t].name, request[t].session)
      BY <1>1 DEF OrphanInv, OwnerInv, Serving
    <3> QED
      BY <1>1, <1>4, <1>5, <2>1, <3>1 DEF BelongsTo, HasEnded, n
  <2>2. CASE u # t
    <3>1. /\ BelongsTo(request[u].name, request[u].session) /\ HasEnded(u)
          /\ request[u].name \in Names
      BY <1>1, <1>2, <1>9, <2>2 DEF OrphanInv, OwnerInv, PagesInv, CallInv, Serving
    <3> QED
      BY <1>1, <1>2, <1>3, <1>5, <2>2, <3>1 DEF BelongsTo, HasEnded
  <2> QED
    BY <2>1, <2>2
<1>10. OwnerInv'
  <2>1. \A u \in Threads : call'[u].page \in Pages \cup {NoPage}
    BY DEF OrphanInv, OwnerInv, pageVars
  <2> QED
    BY <1>6, <1>7, <1>8, <1>9, <2>1 DEF OwnerInv
<1>11. ASSUME NEW m \in Names, session'[m] # NoSession PROVE Tended(session[m])'
  <2>1. session'[m] = session[m]
    BY <1>3, <1>11
  <2>2. PICK j : j = session[m]
    OBVIOUS
  <2>3. Tended(j)
    BY <1>11, <2>1, <2>2 DEF OrphanInv, NoOrphanSessions, Tended
  <2>4. ASSUME NEW u \in Threads, Bears(u, j) PROVE Bears(u, j)'
    BY <1>1, <1>2, <2>4 DEF Bears, IsLogin, pageVars
  <2>5. Tended(j)'
    BY <2>3, <2>4 DEF Tended, Keeps, pageVars
  <2> QED
    BY <2>1, <2>2, <2>5
<1>12. NoOrphanSessions'
  BY <1>11 DEF NoOrphanSessions, Tended
<1> QED
  BY <1>10, <1>12

LEMMA OrphanWork ==
    ASSUME OrphanInv, NEW t \in Threads, Work(t)
    PROVE  OwnerInv' /\ NoOrphanSessions'
<1>1. UNCHANGED pageVars
  BY DEF Work
<1>2. DOMAIN answer = Threads /\ (stage[t] # "answered" => answer[t].session = NoSession)
  BY DEF OrphanInv, PagesInv, Shape, AnswerInv
<1>3. CASE Check(t) \/ (stage[t] = "passed" /\ Miss(t))
  <2>1. PICK s \in {"passed", "failed"} : stage' = [stage EXCEPT ![t] = s]
    BY <1>3 DEF Check, Miss, Enter
  <2>2. UNCHANGED <<stored, request, answer>> /\ stage[t] \in {"called", "passed"}
    BY <1>3 DEF Check, Miss
  <2>3. HasEnded(t)'
    BY <2>1 DEF HasEnded, OrphanInv, PagesInv, Shape
  <2> QED
    BY <1>1, <1>2, <2>1, <2>2, <2>3, OrphanServe DEF Serving, stored
<1>4. CASE stage[t] = "passed" /\ Create(t)
  <2>1. /\ stage' = [stage EXCEPT ![t] = "answered"]
        /\ answer' = [answer EXCEPT ![t] = [NoAnswer EXCEPT !.status = 200]]
        /\ request' = request /\ session' = session /\ request[t].kind = "create"
    BY <1>4 DEF Work, Create, Succeed, Answer, Enter
  <2>2. answer'[t].session = NoSession /\ \A u \in Threads \ {t} : answer'[u] = answer[u]
    BY <1>2, <2>1 DEF NoAnswer
  <2> QED
    BY <1>1, <1>2, <1>4, <2>1, <2>2, OrphanServe DEF Serving
<1>5. CASE stage[t] = "passed" /\ Login(t)
  BY <1>1, <1>5, OrphanLogin
<1>6. CASE stage[t] = "passed" /\ Update(t)
  BY <1>1, <1>6, OrphanUpdate
<1>7. CASE stage[t] # "none" /\ Refuse(t)
  <2>1. PICK code \in {400, 422, 500} : Answer(t, [NoAnswer EXCEPT !.status = code])
    BY <1>7 DEF Refuse, Refusals
  <2>2. /\ stage' = [stage EXCEPT ![t] = "answered"]
        /\ answer' = [answer EXCEPT ![t] = [NoAnswer EXCEPT !.status = code]]
        /\ request' = request /\ session' = session
    BY <1>7, <2>1 DEF Refuse, Answer, Enter
  <2>3. /\ answer'[t].session = NoSession /\ answer'[t].status # 200
        /\ \A u \in Threads \ {t} : answer'[u] = answer[u]
    BY <1>2, <2>2 DEF NoAnswer
  <2>4. stage[t] # "answered"
    BY <1>7 DEF Refuse
  <2> QED
    <3>1. answer[t].session = NoSession
      BY <1>2, <2>4
    <3>2. request[t].kind = "update" => HasEnded(t)'
      BY <2>3 DEF HasEnded
    <3>3. Serving(t)
      BY <1>7 DEF Serving
    <3>4. PICK s : s = "answered"
      OBVIOUS
    <3>5. stage' = [stage EXCEPT ![t] = s] /\ UNCHANGED <<session, request>>
      BY <2>2, <3>4
    <3>6. answer'[t].session = NoSession /\ \A u \in Threads \ {t} : answer'[u] = answer[u]
      BY <2>3
    <3> QED
      BY <1>1, <3>1, <3>2, <3>3, <3>5, <3>6, OrphanServe
<1> QED
  BY <1>3, <1>4, <1>5, <1>6, <1>7 DEF Work

\* A page that takes up an answer, or logs out, gives up only a session that it
\* has ended or that is strayed from now on.
LEMMA OrphanDeliver ==
    ASSUME OrphanInv, NEW t \in Threads, Deliver(t)
    PROVE  OwnerInv' /\ NoOrphanSessions'
<1>1. /\ stage[t] = "answered" /\ stage'[t] = "none" /\ UNCHANGED session
      /\ answer'[t].session = NoSession
      /\ \A u \in Threads \ {t} : /\ answer'[u] = answer[u] /\ request'[u] = request[u]
                                  /\ stage'[u] = stage[u]
  BY DEF Deliver, Return, Enter, NoAnswer, OrphanInv, PagesInv, Shape
<1>2. /\ \A u \in Threads \ {t} : call'[u] = call[u]
      /\ call'[t].page = call[t].page \/ call'[t].page = NoPage
  <2>1. PICK c : /\ call' = [call EXCEPT ![t] = c]
                 /\ c = NoCall \/ c = [call[t] EXCEPT !.handler = "created"]
    BY DEF Deliver, Succeeds, Fails, OrphanInv, PagesInv, Shape
  <2> QED
    BY <2>1 DEF OrphanInv, PagesInv, Shape, CallFields, NoCall
<1>3. ASSUME NEW u \in Threads \ {t}, NEW k, Bears(u, k) PROVE Bears(u, k)'
  BY <1>1, <1>2, <1>3 DEF Bears, IsLogin
\* Pages keep their users, or take up the answer.
<1>4. ASSUME \A q \in Pages :
                \/ page'[q].user = page[q].user /\ page'[q].sid = page[q].sid
                \/ page'[q].user = request[t].name /\ page'[q].sid = answer[t].session
      PROVE  OwnerInv'
  <2>1. \A u \in Threads : answer'[u].session = NoSession
                           \/ (answer'[u] = answer[u] /\ request'[u] = request[u])
    BY <1>1
  <2>2. ASSUME NEW u \in Threads, Serving(u)'
        PROVE  /\ Serving(u) /\ request'[u] = request[u] /\ stage'[u] = stage[u]
               /\ answer'[u] = answer[u]
    BY <1>1, <2>2 DEF Serving
  <2>3. \A u \in Threads :
           call'[u].page = call[u].page \/ call'[u].page \in Pages \cup {NoPage}
    BY <1>2
  <2> QED
    BY <1>1, <1>4, <2>1, <2>2, <2>3, OwnerKept DEF OrphanInv
<1>5. CASE Fails(t)
  <2>1. UNCHANGED page /\ strayed \subseteq strayed'
        /\ (IsLogin(t) /\ answer[t].session # NoSession => answer[t].session \in strayed')
    BY <1>5 DEF Fails
  <2>2. OwnerInv'
    BY <1>4, <2>1
  <2>3. \A k \in OpenIds, u \in Threads : Bears(u, k) => Tended(k)'
    BY <1>3, <2>1 DEF Tended, Bears, OpenIds
  <2>4. \A k \in OpenIds, q \in Pages : Keeps(q, k) => Tended(k)'
    BY <2>1 DEF Tended, Keeps
  <2> QED
    BY <1>1, <2>1, <2>2, <2>3, <2>4, TendedStays DEF OrphanInv
<1>6. CASE Succeeds(t)
  <2>1. PICK p \in Pages :
          /\ p = call[t].page /\ strayed' = strayed \cup Overwritten(t, page[p].sid)
          /\ page' = [page EXCEPT ![p] =
                 CASE IsLogin(t) -> AfterLogin(t, @)
                   [] call[t].handler = "logout" -> AfterLogout(@)
                   [] OTHER -> @]
          /\ answer[t].status = 200
    BY <1>6 DEF Succeeds, CheckStatus, OrphanInv, OwnerInv
  <2>2. \A q \in Pages \ {p} : page'[q] = page[q]
    BY <2>1 DEF OrphanInv, PagesInv, Shape
  <2>3. ASSUME \A k \in OpenIds : Keeps(p, k) \/ Bears(t, k) => Tended(k)'
        PROVE  NoOrphanSessions'
    <3>1. \A q \in Pages \ {p}, k \in OpenIds : Keeps(q, k) => Tended(k)'
      BY <2>2 DEF Tended, Keeps
    <3>2. \A u \in Threads \ {t}, k \in OpenIds : Bears(u, k) => Tended(k)'
      BY <1>3 DEF Tended
    <3>3. strayed \subseteq strayed'
      BY <2>1
    <3>4. /\ \A q \in Pages, k \in OpenIds : Keeps(q, k) => Tended(k)'
          /\ \A u \in Threads, k \in OpenIds : Bears(u, k) => Tended(k)'
      BY <2>3, <3>1, <3>2
    <3> QED
      BY <1>1, <3>3, <3>4, TendedStays DEF OrphanInv
  <2>4. IsLogin(t) => call[t].handler # "logout"
    BY DEF IsLogin
  <2>5. CASE IsLogin(t)
    <3>1. /\ page'[p].user = request[t].name /\ page'[p].loggedIn = TRUE
          /\ page'[p].sid = answer[t].session
      <4>1. page'[p] = AfterLogin(t, page[p])
        BY <2>1, <2>5, <2>4 DEF OrphanInv, PagesInv, Shape
      <4> QED
        BY <4>1 DEF AfterLogin
    <3>2. OwnerInv'
      BY <1>4, <2>2, <3>1
    <3>3. \A k : Bears(t, k) => Tended(k)'
      BY <3>1 DEF Bears, Tended, Keeps
    <3>4. {page[p].sid} \ {NoSession, answer[t].session} \subseteq strayed'
      BY <2>1, <2>5, <2>4 DEF Overwritten
    <3>5. ASSUME NEW k \in OpenIds, Keeps(p, k) PROVE Tended(k)'
      <4>1. CASE k = answer[t].session
        BY <3>1, <4>1 DEF Tended, Keeps
      <4>2. CASE k # answer[t].session
        BY <3>4, <3>5, <4>2 DEF Tended, Keeps, OpenIds
      <4> QED
        BY <4>1, <4>2
    <3> QED
      BY <2>3, <3>2, <3>3, <3>5
  <2>6. CASE call[t].handler = "logout"
    <3>1. /\ ~ IsLogin(t) /\ request[t].kind = "update"
          /\ HasEnded(t) /\ BelongsTo(request[t].name, request[t].session)
      BY <1>1, <2>6 DEF IsLogin, OrphanInv, PagesInv, CallInv, OwnerInv, Serving
    <3>2. page'[p].user = page[p].user /\ page'[p].sid = page[p].sid
      BY <2>1, <2>6, <3>1 DEF AfterLogout, OrphanInv, PagesInv, Shape, PageFields
    <3>3. OwnerInv'
      BY <1>4, <2>2, <3>2
    <3>4. {page[p].sid} \ {request[t].session} \subseteq strayed'
      BY <2>1, <2>6, <3>1 DEF Overwritten
    <3>5. request[t].session \notin OpenIds
      BY <1>1, <2>1, <3>1 DEF HasEnded, BelongsTo, OpenIds
    <3>6. \A k \in OpenIds : Keeps(p, k) => Tended(k)'
      BY <3>4, <3>5 DEF Keeps, Tended
    <3>7. \A k : ~ Bears(t, k)
      BY <3>1 DEF Bears
    <3> QED
      BY <2>3, <3>3, <3>6, <3>7
  <2>7. CASE ~ IsLogin(t) /\ call[t].handler # "logout"
    <3>1. \A q \in Pages : page'[q] = page[q]
      BY <2>1, <2>7 DEF OrphanInv, PagesInv, Shape
    <3>2. OwnerInv'
      BY <1>4, <3>1
    <3>3. \A k \in OpenIds : Keeps(p, k) \/ Bears(t, k) => Tended(k)'
      BY <2>7, <3>1 DEF Bears, Keeps, Tended
    <3> QED
      BY <2>3, <3>2, <3>3
  <2> QED
    BY <2>5, <2>6, <2>7
<1> QED
  BY <1>5, <1>6 DEF Deliver

LEMMA OrphanNext == OrphanInv /\ [NextPages]_allVars => OrphanInv'
<1> SUFFICES ASSUME OrphanInv, [NextPages]_allVars PROVE OwnerInv' /\ NoOrphanSessions'
  BY PagesNext DEF OrphanInv
<1>1. ASSUME NEW p \in Pages, Play(p) PROVE OwnerInv' /\ NoOrphanSessions'
  BY <1>1, OrphanPlay
<1>2. ASSUME NEW p \in Pages, Unload(p) PROVE OwnerInv' /\ NoOrphanSessions'
  BY <1>2, OrphanUnload
<1>3. ASSUME NEW t \in Threads,
             LoginAfterCreate(t) \/ \E p \in Pages : Submit(t, p) \/ Logout(t, p)
      PROVE  OwnerInv' /\ NoOrphanSessions'
  BY <1>3, OrphanCalls
<1>4. ASSUME NEW t \in Threads, Work(t) PROVE OwnerInv' /\ NoOrphanSessions'
  BY <1>4, OrphanWork
<1>5. ASSUME NEW t \in Threads, Deliver(t) PROVE OwnerInv' /\ NoOrphanSessions'
  BY <1>5, OrphanDeliver
<1>6. CASE Restart
  BY <1>6, OrphanRestart
<1>7. CASE UNCHANGED allVars
  <2>1. OwnerInv'
    BY <1>7 DEF allVars, vars, stored, pageVars, OrphanInv, OwnerInv, BelongsTo, HasEnded,
                Serving
  <2>2. NoOrphanSessions'
    BY <1>7 DEF allVars, vars, stored, pageVars, OrphanInv, NoOrphanSessions, Keeps, Bears,
                IsLogin
  <2> QED
    BY <2>1, <2>2
<1> QED
  BY <1>1, <1>2, <1>3, <1>4, <1>5, <1>6, <1>7 DEF NextPages

\* Whoever is online can log out: some page has the id of the session or is about
\* to be answered it, unless a page was closed or made to forget it
\* (index.js:421, 452, 517-535).
THEOREM NoOrphanSessionsTheorem == SpecPages => []NoOrphanSessions
<1>1. OrphanInv => NoOrphanSessions
  BY DEF OrphanInv
<1> QED
  BY <1>1, OrphanInit, OrphanNext, PTL DEF SpecPages

-----------------------------------------------------------------------------
(* Type correctness.                                                       *)

PageTypes == [user : Names \cup {NoName}, sid : SessionIds \cup {NoSession},
              counts : Counts, loggedIn : BOOLEAN, base : Counts \cup {NoSave}]

CallTypes == [page : Pages \cup {NoPage},
              handler : {"none", "create", "created", "firstLogin", "login", "logout"},
              asked : PageRequests \cup {NoRequest},
              base : Counts \cup {NoSave}]

\* The answer to a login carries a session and counts.
Answered(t) ==
    stage[t] = "answered" /\ IsLogin(t) /\ answer[t].status = 200
        => answer[t].session \in SessionIds /\ Progress(answer[t]) \in Counts

\* A handler awaits the answer to a request of its page.
Asked(t) == call[t] # NoCall => call[t].asked \in PageRequests

\* A page that awaits the answer to a logout keeps the id of a session.
Leaving(t) ==
    call[t].handler = "logout" /\ call[t].page # NoPage
        => page[call[t].page].sid \in SessionIds

\* What is stored and answered was counted by some page, and a page that has a
\* name has a session id to save with.
TypesInv ==
    /\ page \in [Pages -> PageTypes]
    /\ call \in [Threads -> CallTypes]
    /\ strayed \subseteq SessionIds
    /\ \A n \in Names : Registered(n) => Progress(account[n]) \in Counts
    /\ \A p \in Pages : page[p].user # NoName \/ page[p].loggedIn
                            => page[p].sid \in SessionIds
    /\ \A t \in Threads : Answered(t) /\ Asked(t) /\ Leaving(t)

LEMMA TypesInit == InitPages => TypesInv
<1> SUFFICES ASSUME InitPages PROVE TypesInv
  OBVIOUS
<1>1. NewPage \in PageTypes
  BY CountsAssumption DEF NewPage, PageTypes
<1>2. NoCall \in CallTypes
  BY DEF NoCall, CallTypes
<1>3. /\ page \in [Pages -> PageTypes] /\ call \in [Threads -> CallTypes]
      /\ strayed \subseteq SessionIds
  BY <1>1, <1>2 DEF InitPages
<1>4. \A n \in Names : ~ Registered(n)
  BY DEF InitPages, Init, Registered
<1>5. \A p \in Pages : page[p].user = NoName /\ page[p].loggedIn = FALSE
  BY DEF InitPages, NewPage
<1>6. \A t \in Threads : stage[t] = "none"
  BY DEF InitPages, Init
<1> QED
  <2>1. \A t \in Threads : Answered(t) /\ Asked(t) /\ Leaving(t)
    BY <1>6 DEF Answered, Asked, Leaving, InitPages, NoCall
  <2> QED
    BY <1>3, <1>4, <1>5, <2>1 DEF TypesInv

\* The requests of pages.
LEMMA FormTypes ==
    ASSUME NEW p \in Pages, NEW kind \in {"create", "login"}, NEW n \in Names,
           NEW pw \in Passwords
    PROVE  /\ Form(p, kind, n, pw) \in CallTypes
           /\ Form(p, kind, n, pw).asked \in PageRequests
<1>1. Form(p, kind, n, pw).asked \in PageRequests
  BY DEF Form, PageRequests
<1> QED
  BY <1>1 DEF Form, CallTypes

LEMMA SaveTypes ==
    ASSUME NEW p \in Pages, page[p] \in PageTypes, page[p].user \in Names,
           page[p].sid \in SessionIds
    PROVE  /\ LogoutOf(p) \in CallTypes
           /\ [LogoutOf(p) EXCEPT !.page = NoPage] \in CallTypes
           /\ LogoutOf(p).asked \in PageRequests
           /\ [LogoutOf(p) EXCEPT !.page = NoPage].asked \in PageRequests
<1>1. page[p].counts \in Counts /\ page[p].base \in Counts \cup {NoSave}
  BY DEF PageTypes
<1>2. SaveOf(p) \in PageRequests
  BY <1>1 DEF SaveOf, PageRequests
<1> QED
  BY <1>1, <1>2 DEF LogoutOf, CallTypes

\* Steps of pages: nothing is stored or answered.
LEMMA AnsweredStays ==
    ASSUME NEW t \in Threads, Answered(t), answer'[t] = answer[t],
           stage'[t] = stage[t] \/ stage'[t] # "answered",
           call'[t].handler = call[t].handler \/ ~ IsLogin(t)'
    PROVE  Answered(t)'
  BY DEF Answered, IsLogin, Progress

LEMMA TypesPlay ==
    ASSUME TypesInv, PagesInv, NEW p \in Pages, Play(p)
    PROVE  TypesInv'
<1>1. PICK c \in Counts : page' = [page EXCEPT ![p].counts = c]
  BY DEF Play
<1>2. UNCHANGED <<account, stage, answer, call, strayed>>
  BY DEF Play, vars, stored
<1>3. page' \in [Pages -> PageTypes]
  BY <1>1 DEF TypesInv, PageTypes
<1>4. \A q \in Pages : /\ page'[q].user = page[q].user /\ page'[q].sid = page[q].sid
                       /\ page'[q].loggedIn = page[q].loggedIn
  BY <1>1 DEF PagesInv, Shape, PageFields
<1>5. \A t \in Threads : Answered(t)' /\ Asked(t)'
  BY <1>2, AnsweredStays DEF TypesInv, Asked
<1>6. ASSUME NEW t \in Threads PROVE Leaving(t)'
  <2>1. call[t] \in CallTypes /\ Leaving(t) /\ call'[t] = call[t]
    BY <1>2 DEF TypesInv
  <2> QED
    BY <1>4, <2>1 DEF CallTypes, Leaving
<1> QED
  BY <1>2, <1>3, <1>4, <1>5, <1>6 DEF TypesInv, Registered, Progress

\* A call is sent with the handler c.
LEMMA TypesSend ==
    ASSUME TypesInv, PagesInv, NEW t \in Threads, NEW r, NEW c \in CallTypes,
           Send(t, r, c), c.asked \in PageRequests,
           c.handler = "logout" => page[c.page].sid \in SessionIds, UNCHANGED <<page, strayed>>
    PROVE  TypesInv'
<1>1. /\ UNCHANGED <<account, answer>> /\ stage' = [stage EXCEPT ![t] = "called"]
      /\ call' = [call EXCEPT ![t] = c]
  BY DEF Send, Call, Enter, stored
<1>2. call' \in [Threads -> CallTypes]
  BY <1>1 DEF TypesInv
<1>3. ASSUME NEW u \in Threads PROVE Answered(u)' /\ Asked(u)' /\ Leaving(u)'
  <2>1. CASE u = t
    BY <1>1, <2>1 DEF PagesInv, Shape, Answered, Asked, Leaving
  <2>2. CASE u # t
    <3>1. call'[u] = call[u] /\ stage'[u] = stage[u]
      BY <1>1, <2>2
    <3> QED
      BY <1>1, <3>1, AnsweredStays DEF TypesInv, Asked, Leaving
  <2> QED
    BY <2>1, <2>2
<1> QED
  BY <1>1, <1>2, <1>3 DEF TypesInv, Registered, Progress

LEMMA TypesCalls ==
    ASSUME TypesInv, PagesInv, NEW t \in Threads,
           LoginAfterCreate(t) \/ \E p \in Pages : Submit(t, p) \/ Logout(t, p)
    PROVE  TypesInv'
<1>1. ASSUME NEW p \in Pages, Submit(t, p) PROVE TypesInv'
  <2>1. PICK kind \in {"create", "login"}, n \in Names, pw \in Passwords :
            Send(t, Form(p, kind, n, pw).asked, Form(p, kind, n, pw))
    BY <1>1 DEF Submit
  <2>2. UNCHANGED <<page, strayed>>
    BY <1>1 DEF Submit
  <2>3. /\ Form(p, kind, n, pw) \in CallTypes
        /\ Form(p, kind, n, pw).asked \in PageRequests
    BY FormTypes
  <2>4. Form(p, kind, n, pw).handler # "logout"
    BY DEF Form
  <2> QED
    BY <2>1, <2>2, <2>3, <2>4, TypesSend
<1>2. ASSUME NEW p \in Pages, Logout(t, p) PROVE TypesInv'
  <2>1. Send(t, SaveOf(p), LogoutOf(p)) /\ UNCHANGED <<page, strayed>>
    BY <1>2 DEF Logout
  <2>2. page[p].user \in Names /\ page[p].sid \in SessionIds /\ page[p] \in PageTypes
    BY <1>2 DEF Logout, PagesInv, PageInv, TypesInv
  <2>3. LogoutOf(p) \in CallTypes /\ LogoutOf(p).asked \in PageRequests
    BY <2>2, SaveTypes
  <2>4. LogoutOf(p).page = p
    BY DEF LogoutOf
  <2> QED
    BY <2>1, <2>2, <2>3, <2>4, TypesSend
<1>3. CASE LoginAfterCreate(t)
  <2> DEFINE login == [call[t].asked EXCEPT !.kind = "login"]
             c == [call[t] EXCEPT !.handler = "firstLogin", !.asked = login]
  <2>1. /\ Send(t, login, c) /\ UNCHANGED <<page, strayed>>
        /\ call[t].handler = "created"
    BY <1>3 DEF LoginAfterCreate
  <2>2. /\ DOMAIN call[t].asked = RequestFields /\ call[t].asked.kind = "create"
        /\ call[t].asked.name \in Names
    BY <2>1 DEF PagesInv, CallInv
  <2>3. call[t] \in CallTypes
    BY DEF TypesInv
  <2>4. login \in PageRequests
    <3>1. call[t].asked \in PageRequests
      BY <2>1 DEF TypesInv, Asked, NoCall
    <3> QED
      BY <2>2, <3>1 DEF PageRequests
  <2> HIDE DEF login
  <2>5. c \in CallTypes /\ c.asked \in PageRequests /\ c.handler # "logout"
    BY <2>3, <2>4 DEF CallTypes
  <2> HIDE DEF c
  <2> QED
    BY <2>1, <2>5, TypesSend
<1> QED
  BY <1>1, <1>2, <1>3

LEMMA TypesUnload ==
    ASSUME TypesInv, PagesInv, NEW p \in Pages, Unload(p)
    PROVE  TypesInv'
<1> DEFINE left == [t \in Threads |-> IF call[t].page # p THEN call[t]
                                      ELSE IF call[t].handler = "created" THEN NoCall
                                      ELSE [call[t] EXCEPT !.page = NoPage]]
           put == [LogoutOf(p) EXCEPT !.page = NoPage]
<1>1. /\ page' = [page EXCEPT ![p] = NewPage]
      /\ strayed' = strayed \cup ({page[p].sid} \ {NoSession})
      /\ \/ call' = left /\ UNCHANGED vars
         \/ /\ page[p].user # NoName
            /\ \E t \in Threads : /\ call[t] = NoCall /\ Call(t, SaveOf(p))
                                  /\ call' = [left EXCEPT ![t] = put]
  BY DEF Unload
<1>2. UNCHANGED <<account, answer>>
  BY <1>1 DEF vars, stored, Call
<1>3. NewPage \in PageTypes /\ NewPage.user = NoName /\ NewPage.loggedIn = FALSE
  BY CountsAssumption DEF NewPage, PageTypes
<1>4. /\ page' \in [Pages -> PageTypes]
      /\ \A q \in Pages : page'[q].user # NoName \/ page'[q].loggedIn
                              => page'[q].sid \in SessionIds
  BY <1>1, <1>3 DEF TypesInv
<1>5. strayed' \subseteq SessionIds
  <2>1. page[p].sid \in SessionIds \cup {NoSession}
    BY DEF TypesInv, PageTypes
  <2> QED
    BY <1>1, <2>1 DEF TypesInv
<1>6. NoCall \in CallTypes
  BY DEF NoCall, CallTypes
<1>7. ASSUME NEW t \in Threads
      PROVE  /\ left[t] \in CallTypes
             /\ left[t].handler = call[t].handler \/ left[t] = NoCall
             /\ left[t] # NoCall => left[t].asked \in PageRequests
             /\ \/ left[t] = NoCall \/ left[t].page = NoPage
                \/ left[t] = call[t] /\ call[t].page # p
  <2>1. call[t] \in CallTypes /\ (call[t] # NoCall => call[t].asked \in PageRequests)
    BY DEF TypesInv, Asked
  <2>2. CASE left[t] = call[t] /\ call[t].page # p
    BY <2>1, <2>2
  <2>3. CASE left[t] = NoCall
    BY <1>6, <2>3
  <2>4. CASE left[t] = [call[t] EXCEPT !.page = NoPage] /\ call[t].page = p
    <3>1. call[t] # NoCall \/ left[t] = NoCall
      BY <2>4 DEF NoCall
    <3>2. /\ left[t].handler = call[t].handler /\ left[t].asked = call[t].asked
          /\ left[t] \in CallTypes /\ left[t].page = NoPage
      BY <2>1, <2>4 DEF CallTypes
    <3> QED
      BY <2>1, <3>1, <3>2
  <2> QED
    BY <2>2, <2>3, <2>4
<1>8. DOMAIN left = Threads
  OBVIOUS
<1> HIDE DEF left
<1>9. ASSUME NEW t \in Threads, call'[t] = left[t], stage'[t] = stage[t]
      PROVE  Answered(t)' /\ Asked(t)' /\ Leaving(t)'
  <2>1. call'[t].handler = call[t].handler \/ ~ IsLogin(t)'
    BY <1>7, <1>9 DEF IsLogin, NoCall
  <2>2. Answered(t)'
    BY <1>2, <1>9, <2>1, AnsweredStays DEF TypesInv
  <2>3. Leaving(t)'
    <3>1. CASE left[t] = NoCall \/ left[t].page = NoPage
      BY <1>9, <3>1 DEF Leaving, NoCall
    <3>2. CASE left[t] = call[t] /\ call[t].page # p
      <4>1. call[t] \in CallTypes /\ Leaving(t)
        BY DEF TypesInv
      <4>2. \A q \in Pages : q # p => page'[q] = page[q]
        BY <1>1 DEF TypesInv
      <4> QED
        BY <1>9, <3>2, <4>1, <4>2 DEF CallTypes, Leaving
    <3> QED
      BY <1>7, <3>1, <3>2
  <2> QED
    BY <1>7, <1>9, <2>2, <2>3 DEF Asked
<1>10. ASSUME call' \in [Threads -> CallTypes],
              \A t \in Threads : Answered(t)' /\ Asked(t)' /\ Leaving(t)'
       PROVE  TypesInv'
  BY <1>2, <1>4, <1>5, <1>10 DEF TypesInv, Registered, Progress
<1>11. CASE call' = left /\ UNCHANGED vars
  <2>1. call' \in [Threads -> CallTypes]
    BY <1>7, <1>8, <1>11 DEF left
  <2> QED
    BY <1>9, <1>10, <1>11, <2>1 DEF vars
<1>12. ASSUME NEW t \in Threads, page[p].user # NoName, Call(t, SaveOf(p)),
              call' = [left EXCEPT ![t] = put]
       PROVE  TypesInv'
  <2>1. page[p].user \in Names /\ page[p].sid \in SessionIds /\ page[p] \in PageTypes
    BY <1>12 DEF PagesInv, PageInv, TypesInv
  <2>2. put \in CallTypes /\ put.asked \in PageRequests /\ put.page = NoPage
    BY <2>1, SaveTypes DEF LogoutOf
  <2> HIDE DEF put
  <2>3. left \in [Threads -> CallTypes]
    BY <1>7 DEF left
  <2>4. call' \in [Threads -> CallTypes]
    BY <1>12, <2>2, <2>3
  <2>5. ASSUME NEW u \in Threads PROVE Answered(u)' /\ Asked(u)' /\ Leaving(u)'
    <3>1. CASE u = t
      BY <1>8, <1>12, <2>2, <3>1
      DEF PagesInv, Shape, Call, Enter, Answered, Asked, Leaving
    <3>2. CASE u # t
      <4>1. call'[u] = left[u] /\ stage'[u] = stage[u]
        BY <1>8, <1>12, <3>2 DEF PagesInv, Shape, Call, Enter
      <4> QED
        BY <1>9, <4>1
    <3> QED
      BY <3>1, <3>2
  <2> QED
    BY <1>10, <2>4, <2>5
<1> QED
  BY <1>1, <1>11, <1>12

\* Steps of the server: what is stored was counted by a page, what a login is
\* answered was stored.
LEMMA SavedCounts ==
    ASSUME NEW old, NEW save \in Counts
    PROVE  Progress(Stored(old, save)) = save
<1>1. save \in [radish : Int, upgrades : [Types -> Int]]
  BY CountsAssumption
<1>2. \A u \in Types : save.upgrades[u] # NotMentioned
  BY <1>1, NotMentionedAssumption
<1> DEFINE merged == [u \in Types |-> IF save.upgrades[u] = NotMentioned
                                      THEN old.upgrades[u] ELSE save.upgrades[u]]
<1>3. merged = save.upgrades
  BY <1>1, <1>2
<1>4. Progress(Stored(old, save)) = [radish |-> save.radish, upgrades |-> merged]
  BY DEF Progress, Stored
<1> HIDE DEF merged
<1> QED
  BY <1>1, <1>3, <1>4

\* The answer to one request: nothing else changes but accounts.
LEMMA TypesServe ==
    ASSUME TypesInv, PagesInv, NEW t \in Threads, UNCHANGED pageVars,
           \A u \in Threads \ {t} : stage'[u] = stage[u] /\ answer'[u] = answer[u],
           Answered(t)',
           \A n \in Names : Registered(n)' => Progress(account[n])' \in Counts
    PROVE  TypesInv'
<1>1. ASSUME NEW u \in Threads PROVE Answered(u)' /\ Asked(u)' /\ Leaving(u)'
  <2>1. CASE u # t
    <3>1. stage'[u] = stage[u] /\ answer'[u] = answer[u]
      BY <2>1
    <3> QED
      BY <3>1, AnsweredStays DEF TypesInv, Asked, Leaving, pageVars
  <2> QED
    BY <2>1 DEF TypesInv, Asked, Leaving, pageVars
<1> QED
  BY <1>1 DEF TypesInv, pageVars

LEMMA TypesWork ==
    ASSUME TypesInv, PagesInv, NEW t \in Threads, Work(t)
    PROVE  TypesInv'
<1>1. UNCHANGED pageVars /\ DOMAIN answer = Threads /\ DOMAIN stage = Threads
  BY DEF Work, PagesInv, Shape
<1>2. ASSUME UNCHANGED account
      PROVE  \A n \in Names : Registered(n)' => Progress(account[n])' \in Counts
  BY <1>2 DEF TypesInv, Registered, Progress
<1>3. CASE Check(t) \/ (stage[t] = "passed" /\ Miss(t))
  <2>1. PICK s \in {"passed", "failed"} : stage' = [stage EXCEPT ![t] = s]
    BY <1>3 DEF Check, Miss, Enter
  <2>2. UNCHANGED <<account, answer>>
    BY <1>3 DEF Check, Miss, stored
  <2>3. Answered(t)' /\ \A u \in Threads \ {t} : stage'[u] = stage[u]
    BY <1>1, <2>1 DEF Answered
  <2> QED
    BY <1>1, <1>2, <2>2, <2>3, TypesServe
<1>4. CASE stage[t] # "none" /\ Refuse(t)
  <2>1. PICK code \in {400, 422, 500} : Answer(t, [NoAnswer EXCEPT !.status = code])
    BY <1>4 DEF Refuse, Refusals
  <2>2. /\ stage' = [stage EXCEPT ![t] = "answered"]
        /\ answer' = [answer EXCEPT ![t] = [NoAnswer EXCEPT !.status = code]]
        /\ UNCHANGED account
    BY <1>4, <2>1 DEF Refuse, Answer, Enter
  <2>3. answer'[t].status # 200
    BY <1>1, <2>2 DEF NoAnswer
  <2>4. \A u \in Threads \ {t} : stage'[u] = stage[u] /\ answer'[u] = answer[u]
    BY <1>1, <2>2
  <2>5. Answered(t)'
    BY <2>3 DEF Answered
  <2> QED
    BY <1>1, <1>2, <2>2, <2>4, <2>5, TypesServe
\* The answer to another request carries no session.
<1>5. ASSUME stage[t] = "passed", Succeed(t), request[t].kind # "login"
      PROVE  /\ Answered(t)'
             /\ \A u \in Threads \ {t} : stage'[u] = stage[u] /\ answer'[u] = answer[u]
  <2>1. ~ IsLogin(t)
    BY <1>5 DEF PagesInv, CallInv, Serving
  <2> QED
    BY <1>1, <1>5, <2>1 DEF Answered, IsLogin, pageVars, Succeed, Answer, Enter
<1>6. CASE stage[t] = "passed" /\ Create(t)
  <2>1. Succeed(t) /\ request[t].kind # "login"
    BY <1>6 DEF Create
  <2>2. ASSUME NEW n \in Names, Registered(n)' PROVE Progress(account[n])' \in Counts
    <3>1. CASE account'[n] = account[n]
      BY <2>2, <3>1 DEF TypesInv, Registered, Progress
    <3>2. CASE account'[n] = NewAccount(request[t].pass)
      <4>1. Progress(account[n])' = Zero
        BY <3>2 DEF Progress, NewAccount, Zero
      <4> QED
        BY <4>1, CountsAssumption
    <3> QED
      BY <1>6, <3>1, <3>2 DEF Create, PagesInv, Shape
  <2> QED
    BY <1>1, <1>5, <1>6, <2>1, <2>2, TypesServe
<1>7. CASE stage[t] = "passed" /\ Update(t)
  <2>1. Succeed(t) /\ request[t].kind = "update"
    BY <1>7 DEF Update
  <2>2. request[t] \in PageRequests
    <3>1. call[t].asked = request[t] /\ call[t].handler = "logout"
      BY <1>7, <2>1 DEF PagesInv, CallInv, Serving
    <3> QED
      BY <3>1 DEF TypesInv, Asked, NoCall
  <2>3. request[t].save \in Counts
    BY <2>1, <2>2 DEF PageRequests
  <2>4. ASSUME NEW n \in Names, Registered(n)' PROVE Progress(account[n])' \in Counts
    <3>1. CASE account'[n] = account[n]
      BY <2>4, <3>1 DEF TypesInv, Registered, Progress
    <3>2. CASE account'[n] = Stored(account[n], request[t].save)
      <4>1. Progress(Stored(account[n], request[t].save)) \in Counts
        BY <2>3, SavedCounts
      <4>2. Progress(account[n])' = Progress(Stored(account[n], request[t].save))
        BY <3>2 DEF Progress
      <4> QED
        BY <4>1, <4>2
    <3> QED
      BY <1>7, <3>1, <3>2 DEF Update, PagesInv, Shape
  <2> QED
    BY <1>1, <1>5, <1>7, <2>1, <2>4, TypesServe
<1>8. CASE stage[t] = "passed" /\ Login(t)
  <2> DEFINE n == request[t].name
  <2>1. Registered(n) /\ n \in Names /\ UNCHANGED account
    BY <1>8 DEF Login, PagesInv, CallInv, Serving
  <2>2. PICK k \in SessionIds :
          Answer(t, [status |-> 200, session |-> k, radish |-> account[n].radish,
                     upgrades |-> account[n].upgrades])
    BY <1>8 DEF Login
  <2> DEFINE b == [status |-> 200, session |-> k, radish |-> account[n].radish,
                   upgrades |-> account[n].upgrades]
  <2>3. b.session = k /\ Progress(b) = Progress(account[n])
    BY DEF Progress
  <2>4. stage' = [stage EXCEPT ![t] = "answered"] /\ answer' = [answer EXCEPT ![t] = b]
    BY <2>2 DEF Answer, Enter
  <2> HIDE DEF b, n
  <2>5. answer'[t] = b
    BY <1>1, <2>4
  <2>6. \A u \in Threads \ {t} : stage'[u] = stage[u] /\ answer'[u] = answer[u]
    BY <1>1, <2>4
  <2>7. Progress(b) \in Counts /\ b.session \in SessionIds
    BY <2>1, <2>3 DEF TypesInv
  <2>8. Answered(t)'
    BY <2>5, <2>7 DEF Answered, Progress
  <2> QED
    BY <1>1, <1>2, <2>1, <2>6, <2>8, TypesServe
<1> QED
  BY <1>3, <1>4, <1>6, <1>7, <1>8 DEF Work

LEMMA TypesDeliver ==
    ASSUME TypesInv, PagesInv, NEW t \in Threads, Deliver(t)
    PROVE  TypesInv'
<1>1. /\ stage[t] = "answered" /\ stage' = [stage EXCEPT ![t] = "none"]
      /\ answer' = [answer EXCEPT ![t] = NoAnswer] /\ UNCHANGED account
      /\ DOMAIN stage = Threads /\ DOMAIN answer = Threads
      /\ Serving(t) /\ request[t].name \in Names
  BY DEF Deliver, Return, Enter, PagesInv, Shape, CallInv, Serving
<1>2. PICK c : /\ call' = [call EXCEPT ![t] = c]
               /\ \/ c = NoCall
                  \/ c = [call[t] EXCEPT !.handler = "created"] /\ call[t].handler = "create"
  BY DEF Deliver, Succeeds, Fails, PagesInv, Shape
<1>3. c \in CallTypes /\ (c # NoCall => c.asked \in PageRequests)
  <2>1. CASE c = NoCall
    BY <2>1 DEF NoCall, CallTypes
  <2>2. CASE c = [call[t] EXCEPT !.handler = "created"] /\ call[t].handler = "create"
    <3>1. call[t] \in CallTypes /\ call[t].asked \in PageRequests
      BY <2>2 DEF TypesInv, Asked, NoCall
    <3> QED
      BY <2>2, <3>1 DEF CallTypes
  <2> QED
    BY <1>2, <2>1, <2>2
<1>4. call' \in [Threads -> CallTypes]
  BY <1>2, <1>3 DEF TypesInv
<1>5. ASSUME NEW u \in Threads PROVE Answered(u)' /\ Asked(u)'
  <2>1. CASE u = t
    BY <1>1, <1>2, <1>3, <2>1 DEF Answered, Asked, TypesInv
  <2>2. CASE u # t
    <3>1. call'[u] = call[u] /\ stage'[u] = stage[u] /\ answer'[u] = answer[u]
      BY <1>1, <1>2, <2>2
    <3> QED
      BY <3>1, AnsweredStays DEF TypesInv, Asked
  <2> QED
    BY <2>1, <2>2
<1>6. answer[t].session \in SessionIds \cup {NoSession}
  BY DEF PagesInv, AnswerInv
<1> DEFINE Named(p) == page'[p].user # NoName \/ page'[p].loggedIn
                           => page'[p].sid \in SessionIds
           Kept(p) == page[p].sid \in SessionIds => page'[p].sid \in SessionIds
<1>7. ASSUME strayed' \subseteq SessionIds, page' \in [Pages -> PageTypes],
             \A p \in Pages : Named(p) /\ Kept(p)
      PROVE  TypesInv'
  <2>1. ASSUME NEW u \in Threads PROVE Leaving(u)'
    <3>1. CASE u = t
      BY <1>2, <3>1 DEF Leaving, NoCall, TypesInv, CallTypes
    <3>2. CASE u # t
      <4>1. call[u] \in CallTypes /\ Leaving(u) /\ call'[u] = call[u]
        BY <1>2, <3>2 DEF TypesInv
      <4> QED
        BY <1>7, <4>1 DEF Leaving, CallTypes
    <3> QED
      BY <3>1, <3>2
  <2> HIDE DEF Named
  <2>2. \A p \in Pages : page'[p].user # NoName \/ page'[p].loggedIn
                           => page'[p].sid \in SessionIds
    BY <1>7 DEF Named
  <2> QED
    BY <1>1, <1>4, <1>5, <1>7, <2>1, <2>2 DEF TypesInv, Registered, Progress
<1>8. CASE Fails(t)
  BY <1>6, <1>7, <1>8 DEF Fails, TypesInv
<1>9. CASE Succeeds(t)
  <2> DEFINE p == call[t].page
             new == CASE IsLogin(t) -> AfterLogin(t, page[p])
                      [] call[t].handler = "logout" -> AfterLogout(page[p])
                      [] OTHER -> page[p]
  <2>1. /\ p # NoPage /\ answer[t].status = 200
        /\ page' = [page EXCEPT ![p] = new]
        /\ strayed' = strayed \cup Overwritten(t, page[p].sid)
    BY <1>9 DEF Succeeds, CheckStatus
  <2>2. p \in Pages
    BY <2>1 DEF TypesInv, CallTypes
  <2>3. page[p] \in PageTypes
    BY <2>2 DEF TypesInv
  <2>4. strayed' \subseteq SessionIds
    <3>1. page[p].sid \in SessionIds \cup {NoSession} /\ strayed \subseteq SessionIds
      BY <2>3 DEF PageTypes, TypesInv
    <3>2. call[t].handler = "logout" => page[p].sid \in SessionIds
      BY <2>1 DEF TypesInv, Leaving
    <3>3. Overwritten(t, page[p].sid) \subseteq SessionIds
      BY <3>1, <3>2 DEF Overwritten
    <3> QED
      BY <2>1, <3>1, <3>3
  <2>5. /\ new \in PageTypes
        /\ new.user # NoName \/ new.loggedIn => new.sid \in SessionIds
        /\ page[p].sid \in SessionIds => new.sid \in SessionIds
    <3>1. CASE IsLogin(t)
      <4>1. answer[t].session \in SessionIds /\ Progress(answer[t]) \in Counts
        BY <1>1, <2>1, <3>1 DEF TypesInv, Answered
      <4>2. page[p].counts \in Counts
        BY <2>3 DEF PageTypes
      <4>3. Loaded(page[p].counts, answer[t]) \in Counts
        <5>1. Loaded(page[p].counts, answer[t])
                = Loaded(page[p].counts, Progress(answer[t]))
          BY DEF Loaded, Progress
        <5> QED
          BY <4>1, <4>2, <5>1, CountsAssumption
      <4>4. AfterLogin(t, page[p]) \in PageTypes
        BY <1>1, <4>1, <4>2, <4>3 DEF AfterLogin, PageTypes
      <4>5. AfterLogin(t, page[p]).sid = answer[t].session
        BY DEF AfterLogin
      <4>6. new = AfterLogin(t, page[p])
        BY <3>1 DEF IsLogin
      <4> HIDE DEF new
      <4> QED
        BY <4>1, <4>4, <4>5, <4>6
    <3>2. CASE call[t].handler = "logout"
      <4>1. AfterLogout(page[p]) \in PageTypes
            /\ AfterLogout(page[p]).sid = page[p].sid
        BY <2>3, CountsAssumption DEF AfterLogout, PageTypes
      <4>2. page[p].sid \in SessionIds
        BY <2>1, <3>2 DEF TypesInv, Leaving
      <4>3. new = AfterLogout(page[p])
        BY <3>2 DEF IsLogin
      <4> HIDE DEF new
      <4> QED
        BY <4>1, <4>2, <4>3
    <3>3. CASE ~ IsLogin(t) /\ call[t].handler # "logout"
      <4>1. new = page[p]
        BY <3>3
      <4> HIDE DEF new
      <4> QED
        BY <2>2, <2>3, <4>1 DEF TypesInv
    <3> QED
      BY <3>1, <3>2, <3>3
  <2> HIDE DEF new, p
  <2>6. page' \in [Pages -> PageTypes] /\ \A q \in Pages : Named(q) /\ Kept(q)
    BY <2>1, <2>2, <2>5 DEF TypesInv
  <2> QED
    BY <1>7, <2>4, <2>6
<1> QED
  BY <1>8, <1>9 DEF Deliver

LEMMA TypesRestart ==
    ASSUME TypesInv, PagesInv, Restart
    PROVE  TypesInv'
<1>1. UNCHANGED <<account, page>>
  BY DEF Restart, Crash, stored
<1>2. ASSUME NEW t \in Threads
      PROVE  /\ stage'[t] = "none"
             /\ call'[t] = call[t] \/ call'[t] = NoCall
  BY DEF Restart, Crash
<1>3. call' \in [Threads -> CallTypes]
  <2>1. NoCall \in CallTypes
    BY DEF NoCall, CallTypes
  <2> QED
    BY <2>1 DEF Restart, TypesInv
<1>4. strayed' \subseteq SessionIds
  <2>1. \A t \in Threads : answer[t].session \in SessionIds \cup {NoSession}
    BY DEF PagesInv, AnswerInv
  <2> QED
    BY <2>1 DEF Restart, TypesInv
<1>5. ASSUME NEW t \in Threads PROVE Answered(t)' /\ Asked(t)' /\ Leaving(t)'
  BY <1>1, <1>2 DEF TypesInv, Answered, Asked, Leaving, NoCall
<1> QED
  BY <1>1, <1>3, <1>4, <1>5 DEF TypesInv, Registered, Progress

LEMMA TypesNext == TypesInv /\ PagesInv /\ [NextPages]_allVars => TypesInv'
<1> SUFFICES ASSUME TypesInv, PagesInv, [NextPages]_allVars PROVE TypesInv'
  OBVIOUS
<1>1. ASSUME NEW p \in Pages, Play(p) PROVE TypesInv'
  BY <1>1, TypesPlay
<1>2. ASSUME NEW p \in Pages, Unload(p) PROVE TypesInv'
  BY <1>2, TypesUnload
<1>3. ASSUME NEW t \in Threads,
             LoginAfterCreate(t) \/ \E p \in Pages : Submit(t, p) \/ Logout(t, p)
      PROVE  TypesInv'
  BY <1>3, TypesCalls
<1>4. ASSUME NEW t \in Threads, Work(t) PROVE TypesInv'
  BY <1>4, TypesWork
<1>5. ASSUME NEW t \in Threads, Deliver(t) PROVE TypesInv'
  BY <1>5, TypesDeliver
<1>6. CASE Restart
  BY <1>6, TypesRestart
<1>7. CASE UNCHANGED allVars
  <2>1. UNCHANGED <<account, stage, answer, page, call, strayed>>
    BY <1>7 DEF allVars, vars, stored, pageVars
  <2>2. \A t \in Threads : Answered(t)' /\ Asked(t)' /\ Leaving(t)'
    BY <2>1 DEF TypesInv, Answered, Asked, Leaving, IsLogin, Progress
  <2> QED
    BY <2>1, <2>2 DEF TypesInv, Registered, Progress
<1> QED
  BY <1>1, <1>2, <1>3, <1>4, <1>5, <1>6, <1>7 DEF NextPages

\* Whatever players click and whichever answers get lost, the pages keep counts
\* that they may count, the handlers await answers to requests that pages make,
\* and only ids of sessions stray (index.js:413-531, login.js:17-103).
THEOREM PagesTypeCorrect == SpecPages => []PagesTypeOK
<1>1. TypesInv => PagesTypeOK
  BY DEF TypesInv, PagesTypeOK, PageTypes, CallTypes
<1> QED
  BY <1>1, TypesInit, TypesNext, PagesCorrect, PTL DEF SpecPages
=============================================================================
