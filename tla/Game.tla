-------------------------------- MODULE Game --------------------------------
(***************************************************************************)
(* What the clicker game promises its clients, whatever queries, locks and *)
(* transactions GameRequestHandler makes of it.  A request is looked at in *)
(* one step, which decides whether it is refused, and takes effect in      *)
(* another: on accounts, on sessions and on the answer at once, and only   *)
(* the session ids are unpredictable.  Between the two other requests may  *)
(* take effect, and what was looked at may be so no longer.                *)
(***************************************************************************)
EXTENDS Integers

CONSTANTS
    Threads,      \* requests that are served at a time
    Names, Passwords,
    Types,        \* kinds of upgrades
    Requests,     \* [kind, name, pass, session, save]
    NoRequest,    \* no request, or one refused for its form
    SessionIds,   \* ids of sessions
    NoSession,    \* the user is offline, the answer carries no session id
    NotMentioned, \* the count of an upgrade that a save leaves out
    Garbage       \* a number of radishes nobody stored

VARIABLES
    account,   \* account[n]: password, radishes and upgrades of user n
    session,   \* session[n]: the id of the open session of user n
    told,      \* the session ids that clients have been answered
    request,   \* request[t]: the request that is served
    stage,     \* stage[t]: how far it is
    answer     \* answer[t]: the answer, when there is one

stored == <<account, session, told>>
vars == <<stored, request, stage, answer>>

NoAccount == [pass |-> NoSession]

NewAccount(p) == [pass |-> p, radish |-> 0, upgrades |-> [u \in Types |-> 0]]

Registered(n) == account[n] # NoAccount

Online(n) == session[n] # NoSession

\* A login that finds nothing answers with this.
NoAnswer == [status |-> 0, session |-> NoSession, radish |-> Garbage,
             upgrades |-> [u \in Types |-> 0]]

\* An id that no client and no user has.
Fresh(k) ==
    /\ k \in SessionIds \ told
    /\ \A n \in Names : session[n] # k
    /\ \A t \in Threads : answer[t].session # k

Stored(old, save) ==
    [pass |-> old.pass, radish |-> save.radish,
     upgrades |-> [u \in Types |-> IF save.upgrades[u] = NotMentioned
                                   THEN old.upgrades[u] ELSE save.upgrades[u]]]

Init ==
    /\ account = [n \in Names |-> NoAccount]
    /\ session = [n \in Names |-> NoSession]
    /\ told = {}
    /\ request = [t \in Threads |-> NoRequest]
    /\ stage = [t \in Threads |-> "none"]
    /\ answer = [t \in Threads |-> NoAnswer]

Enter(t, s) == stage' = [stage EXCEPT ![t] = s]

Call(t, r) ==
    /\ stage[t] = "none"
    /\ Enter(t, "called")
    /\ request' = [request EXCEPT ![t] = r]
    /\ UNCHANGED <<stored, answer>>

\* The name of a create is free, the user of a login offline and of an update
\* online, when it is looked at.
Passes(r) ==
    CASE r.kind = "create" -> ~ Registered(r.name)
      [] r.kind = "login" -> ~ Online(r.name)
      [] r.kind = "update" -> Online(r.name)

Check(t) ==
    /\ stage[t] = "called"
    /\ Enter(t, IF Passes(request[t]) THEN "passed" ELSE "failed")
    /\ UNCHANGED <<stored, request, answer>>

\* A user who does not exist is offline, too.
Miss(t) ==
    /\ request[t].kind = "login" /\ ~ Registered(request[t].name)
    /\ Enter(t, "failed")
    /\ UNCHANGED <<stored, request, answer>>

Answer(t, a) ==
    /\ Enter(t, "answered")
    /\ answer' = [answer EXCEPT ![t] = a]
    /\ UNCHANGED <<told, request>>

Succeed(t) == Answer(t, [NoAnswer EXCEPT !.status = 200])

\* Who comes second is told that the account was created.  A new user may find
\* a session that a login with a wrong password has opened for the next user.
Create(t) ==
    LET n == request[t].name
    IN  /\ request[t].kind = "create"
        /\ Succeed(t)
        /\ IF Registered(n) THEN UNCHANGED <<account, session>>
           ELSE /\ account' = [account EXCEPT ![n] = NewAccount(request[t].pass)]
                /\ \E k \in SessionIds \cup {NoSession} :
                    /\ k # NoSession => Fresh(k)
                    /\ session' = [session EXCEPT ![n] = k]

\* The stored progress, and a session: a new one or the one that is open.
Login(t) ==
    LET n == request[t].name
    IN  /\ request[t].kind = "login"
        /\ Registered(n) /\ account[n].pass = request[t].pass
        /\ \E k \in SessionIds :
            /\ IF Online(n) THEN k = session[n] ELSE Fresh(k)
            /\ session' = [session EXCEPT ![n] = k]
            /\ Answer(t, [status |-> 200, session |-> k, radish |-> account[n].radish,
                          upgrades |-> account[n].upgrades])
        /\ UNCHANGED account

\* Nothing is told, but some user may be online from now on.
LoginWithWrongPassword(t) ==
    LET n == request[t].name
    IN  /\ request[t].kind = "login"
        /\ Registered(n) /\ account[n].pass # request[t].pass
        /\ Succeed(t)
        /\ \/ UNCHANGED session
           \/ \E m \in Names, k \in SessionIds :
                /\ Registered(m) /\ ~ Online(m) /\ Fresh(k)
                /\ session' = [session EXCEPT ![m] = k]
        /\ UNCHANGED account

\* Mutant: whoever knows the name saves, with any session id.
UpdateAnySession(t) ==
    LET n == request[t].name
    IN  /\ request[t].kind = "update"
        /\ Succeed(t)
        /\ account' = [account EXCEPT ![n] = Stored(@, request[t].save)]
        /\ session' = [session EXCEPT ![n] = NoSession]

\* All of the save and the end of the session, or neither when the session is
\* another one; the answer is the same.
Update(t) ==
    LET n == request[t].name
    IN  /\ request[t].kind = "update"
        /\ Succeed(t)
        /\ IF Online(n) /\ session[n] = request[t].session
           THEN /\ account' = [account EXCEPT ![n] = Stored(@, request[t].save)]
                /\ session' = [session EXCEPT ![n] = NoSession]
           ELSE UNCHANGED <<account, session>>

\* A request of a wrong form, one that failed its check, an error.
Refusals(s) ==
    CASE s = "none" -> {400, 422}
      [] s = "failed" -> {400, 500}
      [] OTHER -> {500}

Refuse(t) ==
    /\ stage[t] # "answered"
    /\ \E code \in Refusals(stage[t]) :
        Answer(t, [NoAnswer EXCEPT !.status = code])
    /\ UNCHANGED <<account, session>>

Return(t) ==
    /\ stage[t] = "answered"
    /\ Enter(t, "none")
    /\ told' = told \cup ({answer[t].session} \ {NoSession})
    /\ request' = [request EXCEPT ![t] = NoRequest]
    /\ answer' = [answer EXCEPT ![t] = NoAnswer]
    /\ UNCHANGED <<account, session>>

\* The server forgets its requests, and nothing that was stored.
Crash ==
    /\ request' = [t \in Threads |-> NoRequest]
    /\ stage' = [t \in Threads |-> "none"]
    /\ answer' = [t \in Threads |-> NoAnswer]
    /\ UNCHANGED stored

Serve(t) == Create(t) \/ Login(t) \/ LoginWithWrongPassword(t) \/ Update(t)

Next ==
    \/ \E t \in Threads :
        \/ \E r \in Requests : Call(t, r)
        \/ Check(t)
        \/ stage[t] = "passed" /\ (Miss(t) \/ Serve(t))
        \/ Refuse(t) \/ Return(t)
    \/ Crash

Spec == Init /\ [][Next]_vars
=============================================================================
