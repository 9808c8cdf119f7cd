----------------------------- MODULE GamePages -----------------------------
(***************************************************************************)
(* The pages of the game (index.js, login.js) and the server they call,    *)
(* which is what Game promises: GameStore implements it.                   *)
(*                                                                         *)
(* A page is the script of one window: the counts the player sees, the     *)
(* name and the session id of the last login that was answered, and which  *)
(* button is shown.  Its handlers await one call at a time, but nothing    *)
(* keeps the player from clicking again meanwhile, and what a handler      *)
(* finds when it goes on is not what it left.  A call that is not looked   *)
(* at yet is on its way, and so is an answer that has not returned.        *)
(*                                                                         *)
(* Players know their passwords: GameStore has the wrong ones.             *)
(***************************************************************************)
EXTENDS Game

CONSTANTS
    Pages,    \* windows with the game
    NoPage,   \* nobody awaits the call
    NoName,   \* nobody has logged in with this page
    NoSave,   \* the request saves nothing, the page was answered nothing
    Counts    \* bound: what a page may count, [radish, upgrades]

VARIABLES
    page,     \* page[p]: the variables of the script
    call,     \* call[t]: the handler that awaits the answer to request[t]
    strayed   \* history: session ids no page is left to end the session with

pageVars == <<page, call, strayed>>
allVars == <<vars, pageVars>>

Zero == [radish |-> 0, upgrades |-> [u \in Types |-> 0]]

\* base: history, the progress that the last login was answered.
NewPage == [user |-> NoName, sid |-> NoSession, counts |-> Zero,
            loggedIn |-> FALSE, base |-> NoSave]

NoCall == [page |-> NoPage, handler |-> "none", asked |-> NoRequest, base |-> NoSave]

InitPages ==
    /\ Init
    /\ page = [p \in Pages |-> NewPage]
    /\ call = [t \in Threads |-> NoCall]
    /\ strayed = {}

-----------------------------------------------------------------------------
(* What the player does.                                                   *)

\* Clicks, ticks, sales and purchases, any number of them.
Play(p) ==
    /\ \E c \in Counts \ {page[p].counts} : page' = [page EXCEPT ![p].counts = c]
    /\ UNCHANGED <<vars, call, strayed>>

Send(t, r, handler) ==
    /\ Call(t, r)
    /\ call' = [call EXCEPT ![t] = handler]

Form(p, kind, n, pw) ==
    [page |-> p, handler |-> kind, base |-> NoSave,
     asked |-> [kind |-> kind, name |-> n, pass |-> pw,
                session |-> NoSession, save |-> NoSave]]

\* The form stays open, and its buttons enabled, until the answer comes.
Submit(t, p) ==
    /\ ~ page[p].loggedIn
    /\ call[t] = NoCall
    /\ \E kind \in {"create", "login"}, n \in Names, pw \in Passwords :
        LET form == Form(p, kind, n, pw) IN Send(t, form.asked, form)
    /\ UNCHANGED <<page, strayed>>

\* The handler of a create that was answered 200 goes on to log in.
LoginAfterCreate(t) ==
    /\ call[t].handler = "created"
    /\ LET login == [call[t].asked EXCEPT !.kind = "login"]
       IN  Send(t, login, [call[t] EXCEPT !.handler = "firstLogin", !.asked = login])
    /\ UNCHANGED <<page, strayed>>

\* The counts that are sent are those of the click; all upgrades are mentioned.
SaveOf(p) ==
    [kind |-> "update", name |-> page[p].user, pass |-> NoSession,
     session |-> page[p].sid, save |-> page[p].counts]

LogoutOf(p) == [page |-> p, handler |-> "logout", asked |-> SaveOf(p), base |-> page[p].base]

\* Mutant: the button is there before the login, too.
LogoutAnytime(t, p) ==
    /\ call[t] = NoCall
    /\ Send(t, SaveOf(p), LogoutOf(p))
    /\ UNCHANGED <<page, strayed>>

Logout(t, p) ==
    /\ page[p].loggedIn
    /\ call[t] = NoCall
    /\ Send(t, SaveOf(p), LogoutOf(p))
    /\ UNCHANGED <<page, strayed>>

\* The page is closed or loaded anew.  beforeunload sends a PUT, which the
\* browser may cancel; without a name it is refused.  Nobody awaits an answer.
Unload(p) ==
    /\ page[p] # NewPage \/ \E t \in Threads : call[t].page = p
    /\ page' = [page EXCEPT ![p] = NewPage]
    /\ strayed' = strayed \cup ({page[p].sid} \ {NoSession})
    /\ LET left == [t \in Threads |-> IF call[t].page # p THEN call[t]
                                      ELSE IF call[t].handler = "created" THEN NoCall
                                      ELSE [call[t] EXCEPT !.page = NoPage]]
       IN  \/ call' = left /\ UNCHANGED vars
           \/ /\ page[p].user # NoName
              /\ \E t \in Threads :
                    /\ call[t] = NoCall
                    /\ Call(t, SaveOf(p))
                    /\ call' = [left EXCEPT ![t] = [LogoutOf(p) EXCEPT !.page = NoPage]]

-----------------------------------------------------------------------------
(* What the handlers do with an answer.                                    *)

\* if(data.radish_num) radishCount = data.radish_num, and so on: zeros are not
\* loaded.
Loaded(old, new) ==
    [radish |-> IF new.radish # 0 THEN new.radish ELSE old.radish,
     upgrades |-> [u \in Types |-> IF new.upgrades[u] # 0 THEN new.upgrades[u]
                                                          ELSE old.upgrades[u]]]

\* A page may come to count what it is answered.
ASSUME CountsAssumption ==
    /\ Counts \subseteq [radish : Int, upgrades : [Types -> Int]]
    /\ Zero \in Counts
    /\ \A old, new \in Counts : Loaded(old, new) \in Counts

ASSUME NotMentionedAssumption == NotMentioned \notin Int

Progress(a) == [radish |-> a.radish, upgrades |-> a.upgrades]

\* A handler that has created the account loads nothing: it is new.
AfterLogin(t, old) ==
    [user |-> request[t].name, sid |-> answer[t].session, loggedIn |-> TRUE,
     counts |-> IF call[t].handler = "firstLogin" THEN old.counts
                ELSE Loaded(old.counts, answer[t]),
     base |-> Progress(answer[t])]

\* doLogout leaves name and session id as they are.
AfterLogout(old) == [old EXCEPT !.counts = Zero, !.loggedIn = FALSE]

IsLogin(t) == call[t].handler \in {"login", "firstLogin"}

\* The session k of a page that another login, or the late answer to a logout,
\* makes the page forget.
Overwritten(t, k) ==
    CASE IsLogin(t) -> {k} \ {NoSession, answer[t].session}
      [] call[t].handler = "logout" -> {k} \ {request[t].session}
      [] OTHER -> {}

\* Mutant: the promise of fetch is fulfilled whatever the status is.
AnyStatus(t) == TRUE

CheckStatus(t) == answer[t].status = 200

Succeeds(t) ==
    LET p == call[t].page
    IN  /\ p # NoPage /\ CheckStatus(t)
        /\ page' = [page EXCEPT ![p] =
               CASE IsLogin(t) -> AfterLogin(t, @)
                 [] call[t].handler = "logout" -> AfterLogout(@)
                 [] OTHER -> @]
        /\ call' = [call EXCEPT ![t] = IF call[t].handler = "create"
                                       THEN [@ EXCEPT !.handler = "created"]
                                       ELSE NoCall]
        /\ strayed' = strayed \cup Overwritten(t, page[p].sid)

\* The page is gone, the answer is an error or does not arrive.
Fails(t) ==
    /\ call' = [call EXCEPT ![t] = NoCall]
    /\ strayed' = IF IsLogin(t) THEN strayed \cup ({answer[t].session} \ {NoSession})
                                ELSE strayed
    /\ UNCHANGED page

Deliver(t) == Return(t) /\ (Succeeds(t) \/ Fails(t))

\* A request of a page has the right form.  Without wrong passwords no session
\* is open for a user who does not exist yet.
Work(t) ==
    /\ \/ Check(t)
       \/ /\ stage[t] = "passed"
          /\ Miss(t) \/ Create(t) \/ Login(t) \/ Update(t)
       \/ stage[t] # "none" /\ Refuse(t)
    /\ request[t].kind = "create" => session' = session
    /\ UNCHANGED pageVars

\* The process ends: every call that waits for it fails.
Restart ==
    /\ Crash
    /\ call' = [t \in Threads |-> IF stage[t] = "none" THEN call[t] ELSE NoCall]
    /\ strayed' = strayed \cup ({answer[t].session : t \in {u \in Threads : IsLogin(u)}}
                               \ {NoSession})
    /\ UNCHANGED page

NextPages ==
    \/ \E p \in Pages :
        \/ Play(p) \/ Unload(p)
        \/ \E t \in Threads : Submit(t, p) \/ Logout(t, p)
    \/ \E t \in Threads : LoginAfterCreate(t) \/ Work(t) \/ Deliver(t)
    \/ Restart

SpecPages == InitPages /\ [][NextPages]_allVars
-----------------------------------------------------------------------------
(* Properties.                                                             *)

\* Requests that pages make.
PageRequests ==
    [kind : {"create", "login"}, name : Names, pass : Passwords,
     session : {NoSession}, save : {NoSave}]
    \cup
    [kind : {"update"}, name : Names, pass : {NoSession},
     session : SessionIds, save : Counts]

PagesTypeOK ==
    /\ page \in [Pages -> [user : Names \cup {NoName},
                           sid : SessionIds \cup {NoSession},
                           counts : Counts, loggedIn : BOOLEAN,
                           base : Counts \cup {NoSave}]]
    /\ call \in [Threads -> [page : Pages \cup {NoPage},
                             handler : {"none", "create", "created", "firstLogin",
                                        "login", "logout"},
                             asked : PageRequests \cup {NoRequest},
                             base : Counts \cup {NoSave}]]
    /\ strayed \subseteq SessionIds

\* No save is stale: what the server stores is replaced only by a page whose
\* last login was answered just that. Between this login and the save that ends
\* its session (index.js:452-457, 517-535) no other page, window or late request
\* has saved. That the page loaded what it was answered is not said, and not so
\* of the first login after a create (index.js:435, NewAccountsAreEmpty below).
NoStaleSaves ==
    [][\A n \in Names :
          /\ account[n] # NoAccount
          /\ Progress(account[n])' # Progress(account[n])
          => \E t \in Threads : /\ stage[t] = "passed" /\ stage[t]' = "answered"
                                /\ call[t].handler = "logout"
                                /\ call[t].base = Progress(account[n])]_allVars

Keeps(p, k) == page[p].loggedIn /\ page[p].sid = k

Bears(t, k) == IsLogin(t) /\ answer[t].status = 200 /\ answer[t].session = k

\* A user whose session is open can end it: some page that is logged in has its
\* id, or the answer to a login brings it, unless the page was closed, lost the
\* answer, or was made to forget it by another handler of its own that was
\* still awaiting its call (index.js:421, 452, 517-535).
NoOrphanSessions ==
    \A n \in Names : session[n] # NoSession =>
        \/ session[n] \in strayed
        \/ \E p \in Pages : Keeps(p, session[n])
        \/ \E t \in Threads : Bears(t, session[n])

-----------------------------------------------------------------------------
(* What the pages say and the code does not do.                            *)

\* "Logout Successful!": a logout that is answered 200 has saved what it sent.
LogoutsAreSaved ==
    [][\A t \in Threads :
          /\ stage[t] = "passed" /\ stage[t]' = "answered" /\ answer[t].status' = 200
          /\ call[t].handler = "logout" /\ call[t].page # NoPage
          => Progress(account[request[t].name])' = request[t].save]_allVars

\* "don't load radishes and other data since we JUST made the account": the
\* first login after a create finds nothing stored.
NewAccountsAreEmpty ==
    \A t \in Threads :
        call[t].handler = "firstLogin" /\ answer[t].status = 200
            => Progress(answer[t]) = Zero
=============================================================================
