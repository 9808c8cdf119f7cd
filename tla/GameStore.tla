----------------------------- MODULE GameStore -----------------------------
(***************************************************************************)
(* GameRequestHandler and the SQLite database behind the clicker game.     *)
(*                                                                         *)
(* Two io threads serve requests, each through connections of its own: a   *)
(* request is a chain of single queries (is_online, user_exists, ...), each *)
(* on a connection it opens and closes, then one INSERT (add_user) or one  *)
(* transaction (get_values, update_values).  No busy timeout is set, so a  *)
(* lock that cannot be had at once is an error, a runtime_error and a 500. *)
(*                                                                         *)
(* The database is one value, db.  A transaction works on a copy, work,    *)
(* that COMMIT puts in its place: what SQLite's page cache and rollback    *)
(* journal amount to.  Locks are SQLite's: many readers hold SHARED, one   *)
(* writer RESERVED beside them, and EXCLUSIVE excludes all others.         *)
(***************************************************************************)
EXTENDS Integers, FiniteSets

CONSTANTS
    Threads,      \* io threads of the server
    Names,        \* user names
    NoName,       \* the request has no name that a query would use
    Passwords,    \* passwords; the salted hash is the password itself
    NoPass,       \* the request carries no password, the name no account
    Types,        \* kinds of upgrades
    Saves,        \* what clients save: [radish, upgrades]
    NoSave,       \* the request saves nothing
    MaxLogins,    \* bound on the logins of one behaviour
    DiskFaults,   \* may SQLite report an error other than a lock?
    Crashes       \* may the process be killed at any moment?

ASSUME MaxLoginsAssumption == MaxLogins \in Nat

\* The count of an upgrade that a save leaves out.
NotMentioned == -1

ASSUME SavesAssumption ==
    Saves \subseteq [radish : Nat, upgrades : [Types -> Nat \cup {NotMentioned}]]

ASSUME NamesAssumption == IsFiniteSet(Names)

\* server_main starts a fixed number of them.
ASSUME ThreadsAssumption == IsFiniteSet(Threads)

ASSUME SentinelsAssumption == NoPass \notin Passwords /\ NoSave \notin Saves

\* radish_num of the GameData a handler starts with is never initialised.
Garbage == -1

\* A session id is 32 hexadecimal digits; number 0 is one nobody was given.
SessionId(n) == [number |-> n, chars |-> 32]
NoSid == [number |-> 0, chars |-> 0]
Sids == {SessionId(n) : n \in 0 .. MaxLogins}

\* sqlite3_bind_text(stmt, 2, session_id.c_str(), 16, ...)
Prefix(sid) == [sid EXCEPT !.chars = 16]

\* A session id in the hands of a client, and what the client logged in with.
Told == [name : Names, pass : Passwords, number : 1 .. MaxLogins]

\* Values of user_id: one for every user and one for every login.
Uids == 1 .. Cardinality(Names) + MaxLogins

Upgrades == [Types -> Nat]
NoUpgrades == [u \in Types |-> 0]

Databases ==
    [uid : [Names -> Uids \cup {0}],              \* 0: no such user
     pass : [Names -> Passwords \cup {NoPass}],
     radish : [Names -> Nat],
     upgrades : [Names -> Upgrades],
     session : [Uids -> Sids \cup {NoSid}],       \* the table sessions
     orphaned : BOOLEAN]                          \* upgrades of user_id NULL

EmptyDatabase ==
    [uid |-> [n \in Names |-> 0],
     pass |-> [n \in Names |-> NoPass],
     radish |-> [n \in Names |-> 0],
     upgrades |-> [n \in Names |-> NoUpgrades],
     session |-> [i \in Uids |-> NoSid],
     orphaned |-> FALSE]

\* A request refused for its form; also what req[t] holds between requests.
NoRequest == [kind |-> "malformed", name |-> NoName, pass |-> NoPass,
              sid |-> NoSid, save |-> NoSave]

Requests ==
    [kind : {"create", "login"}, name : Names, pass : Passwords,
     sid : {NoSid}, save : {NoSave}]
    \cup
    [kind : {"update"}, name : Names, pass : {NoPass}, sid : Sids, save : Saves]
    \cup
    {NoRequest}

Queries == {"is_online", "user_exists", "has_session_id", "salt"}

Statements == {"get_radish", "get_upgrades", "add_session", "get_session",
               "set_radish", "set_upgrade", "drop_session", "commit"}

Steps == Queries \cup Statements \cup {"idle", "insert", "begin", "done"}

Locks == {"none", "shared", "reserved", "exclusive"}

\* game_data_, what a login answers with.
GameData == [radish : Nat \cup {Garbage}, upgrades : Upgrades, sid : Sids \cup {NoSid}]
FreshGameData == [radish |-> Garbage, upgrades |-> NoUpgrades, sid |-> NoSid]

VARIABLES
    pc,        \* pc[t]: the query or statement thread t is at
    req,       \* req[t]: the request thread t serves
    found,     \* found[t]: did the current query return a row?
    left,      \* left[t]: the upgrades update_values has yet to store
    data,      \* data[t]: game_data_ of the handler
    status,    \* status[t]: the status of the response, 0 before there is one
    db,        \* the committed database
    work,      \* the database as the open transaction sees it
    lock,      \* lock[t]: the lock the connection of thread t holds
    leaked,    \* did a connection nobody closes keep an EXCLUSIVE lock?
    issued,    \* the number of session ids drawn so far
    known      \* the session ids that clients have been sent, each with
               \* the name and the password it was sent for

local == <<pc, req, found, left, data, status>>
ids == <<issued, known>>
vars == <<local, db, work, lock, leaked, ids>>

-----------------------------------------------------------------------------
(* The database.                                                           *)

Registered(d, n) == d.uid[n] # 0

Online(d, n) == Registered(d, n) /\ d.session[d.uid[n]] # NoSid

\* ... FROM sessions JOIN users ... WHERE username=? AND session_id=?
Holds(d, n, sid) == Online(d, n) /\ d.session[d.uid[n]] = sid

\* ... FROM users WHERE username=? AND hashed_pass=?
Matches(d, n, p) == Registered(d, n) /\ d.pass[n] = p

Progress(d, n) == [radish |-> d.radish[n], upgrades |-> d.upgrades[n]]

\* The upgrades that save s mentions.
Mentioned(s) == {u \in Types : s.upgrades[u] # NotMentioned}

\* The upgrades in a save replace those stored, the others stay.
Merge(p, s) ==
    [radish |-> s.radish,
     upgrades |-> [u \in Types |-> IF u \in Mentioned(s) THEN s.upgrades[u]
                                                          ELSE p.upgrades[u]]]

\* user_id of the next user: no user is ever removed.
NextUid(d) == Cardinality({n \in Names : Registered(d, n)}) + 1

\* The rowid SQLite gives a row of sessions whose user_id is NULL.
NextSessionUid(d) ==
    LET taken == {i \in Uids : d.session[i] # NoSid}
    IN  CHOOSE k \in Uids \cup {Cardinality(Uids) + 1} :
            /\ \A i \in taken : i < k
            /\ k = 1 \/ k - 1 \in taken

(* Locks.                                                                  *)

OthersHoldOnly(t, ls) ==
    ~ leaked /\ \A u \in Threads \ {t} : lock[u] \in ls

CanRead(t) == OthersHoldOnly(t, {"none", "shared", "reserved"})
CanReserve(t) == OthersHoldOnly(t, {"none", "shared"})
CanExclude(t) == OthersHoldOnly(t, {"none"})

SetLock(t, l) == lock' = [lock EXCEPT ![t] = l]

InTransaction(t) == pc[t] \in Statements

Init ==
    /\ pc = [t \in Threads |-> "idle"]
    /\ req = [t \in Threads |-> NoRequest]
    /\ found = [t \in Threads |-> FALSE]
    /\ left = [t \in Threads |-> {}]
    /\ data = [t \in Threads |-> FreshGameData]
    /\ status = [t \in Threads |-> 0]
    /\ db = EmptyDatabase
    /\ work = EmptyDatabase
    /\ lock = [t \in Threads |-> "none"]
    /\ leaked = FALSE
    /\ issued = 0
    /\ known = {}
-----------------------------------------------------------------------------
(* Requests.                                                               *)

Goto(t, step) == pc' = [pc EXCEPT ![t] = step]

Answer(t, code) ==
    Goto(t, "done") /\ status' = [status EXCEPT ![t] = code]

FirstStep(r) ==
    CASE r.kind = "create" -> "user_exists"
      [] r.kind \in {"login", "update"} -> "is_online"

\* The logins that have drawn or may yet draw a session id.
Logins ==
    issued + Cardinality({t \in Threads : req[t].kind = "login" /\ pc[t] # "done"})

\* Bound: MaxLogins logins.  Clients do not guess session ids.
Possible(r) ==
    /\ r.kind = "login" => Logins < MaxLogins
    /\ r.kind = "update" => \E k \in known : k.number = r.sid.number

Accept(t, r) ==
    /\ pc[t] = "idle"
    /\ req' = [req EXCEPT ![t] = r]
    /\ left' = [left EXCEPT ![t] = IF r.kind = "update"
                                   THEN Mentioned(r.save) ELSE {}]
    /\ Goto(t, FirstStep(r))
    /\ UNCHANGED <<found, data, status, db, work, lock, leaked, ids>>

Begin(t, r) == r # NoRequest /\ Possible(r) /\ Accept(t, r)

\* A body that is not JSON, lacks a field, has one of a wrong type, names an
\* unknown action or comes with another method.
Refuse(t) ==
    /\ pc[t] = "idle"
    /\ \E code \in {400, 422} : Answer(t, code)
    /\ UNCHANGED <<req, found, left, data, db, work, lock, leaked, ids>>

\* The response is handed over and the handler, game_data_ included, is gone.
Respond(t) ==
    /\ pc[t] = "done"
    /\ Goto(t, "idle")
    /\ req' = [req EXCEPT ![t] = NoRequest]
    /\ found' = [found EXCEPT ![t] = FALSE]
    /\ left' = [left EXCEPT ![t] = {}]
    /\ known' = known \cup {k \in Told : /\ status[t] = 200
                                        /\ k.number = data[t].sid.number
                                        /\ k.name = req[t].name
                                        /\ k.pass = req[t].pass}
    /\ data' = [data EXCEPT ![t] = FreshGameData]
    /\ status' = [status EXCEPT ![t] = 0]
    /\ UNCHANGED <<db, work, lock, leaked, issued>>

-----------------------------------------------------------------------------
(* Single queries: SHARED from sqlite3_step to sqlite3_finalize.           *)

HasRow(t) ==
    LET n == req[t].name
    IN  CASE pc[t] = "is_online" -> Online(db, n)
          [] pc[t] = "user_exists" -> Registered(db, n)
          [] pc[t] = "has_session_id" -> Holds(db, n, Prefix(req[t].sid))
          [] pc[t] = "salt" -> Registered(db, n)

Query(t) ==
    /\ pc[t] \in Queries /\ lock[t] = "none"
    /\ CanRead(t)
    /\ SetLock(t, "shared")
    /\ found' = [found EXCEPT ![t] = HasRow(t)]
    /\ UNCHANGED <<pc, req, left, data, status, db, work, leaked, ids>>

\* The answers for which add_user, get_values or update_values gives up.
GivesUp(kind, query, row) ==
    \/ kind = "create" /\ query = "user_exists" /\ row
    \/ kind = "login" /\ query = "is_online" /\ row
    \/ kind = "login" /\ query = "user_exists" /\ ~ row
    \/ kind = "update" /\ query = "is_online" /\ ~ row
    \/ kind = "update" /\ query = "has_session_id" /\ row

\* What comes after a query that found what it should.
After(kind, query) ==
    CASE kind = "create" -> "insert"
      [] kind = "login" -> CASE query = "is_online" -> "user_exists"
                             [] query = "user_exists" -> "salt"
                             [] OTHER -> "begin"
      [] kind = "update" -> IF query = "is_online" THEN "has_session_id"
                                                   ELSE "begin"

\* Finalize and close: the lock goes, and the handler looks at the result.
Finalize(t) ==
    /\ pc[t] \in Queries /\ lock[t] = "shared"
    /\ SetLock(t, "none")
    /\ IF GivesUp(req[t].kind, pc[t], found[t])
       THEN Answer(t, 400)
       ELSE Goto(t, After(req[t].kind, pc[t])) /\ UNCHANGED status
    /\ UNCHANGED <<req, found, left, data, db, work, leaked, ids>>

-----------------------------------------------------------------------------
(* add_user: one INSERT OR IGNORE in a transaction of its own.             *)

Reserve(t) ==
    /\ pc[t] = "insert" /\ lock[t] = "none"
    /\ CanReserve(t)
    /\ SetLock(t, "reserved")
    /\ UNCHANGED <<local, db, work, leaked, ids>>

Promote(t) ==
    /\ pc[t] = "insert" /\ lock[t] = "reserved"
    /\ CanExclude(t)
    /\ SetLock(t, "exclusive")
    /\ UNCHANGED <<local, db, work, leaked, ids>>

\* Mutant: ON CONFLICT DO UPDATE, whoever comes second sets the password.
UpsertUser(d, n, p) ==
    [d EXCEPT !.uid[n] = IF @ = 0 THEN NextUid(d) ELSE @, !.pass[n] = p]

WithUser(d, n, p) ==
    IF Registered(d, n) THEN d
    ELSE [d EXCEPT !.uid[n] = NextUid(d), !.pass[n] = p]

\* Whether the name was taken in the meantime is not looked at: 200.
InsertUser(t) ==
    /\ pc[t] = "insert" /\ lock[t] = "exclusive"
    /\ db' = WithUser(db, req[t].name, req[t].pass)
    /\ work' = db'
    /\ SetLock(t, "none")
    /\ Answer(t, 200)
    /\ UNCHANGED <<req, found, left, data, leaked, ids>>

-----------------------------------------------------------------------------
(* The transactions of get_values and update_values.                       *)

\* Mutant: BEGIN TRANSACTION, which takes no lock before the first statement.
BeginDeferred(t) ==
    /\ pc[t] = "begin"
    /\ CanRead(t)
    /\ SetLock(t, "shared")
    /\ work' = db
    /\ Goto(t, IF req[t].kind = "login" THEN "get_radish" ELSE "set_radish")
    /\ UNCHANGED <<req, found, left, data, status, db, leaked, ids>>

BeginExclusive(t) ==
    /\ pc[t] = "begin"
    /\ CanExclude(t)
    /\ SetLock(t, "exclusive")
    /\ Goto(t, IF req[t].kind = "login" THEN "get_radish" ELSE "set_radish")
    /\ UNCHANGED <<req, found, left, data, status, db, work, leaked, ids>>

\* Mutant: statements outside a transaction, each of which commits.
Autocommit(w) == work' = w /\ db' = w

\* A statement that writes, inside the transaction.
Execute(w) == work' = w /\ UNCHANGED db

\* With another password the row is not found and the number stays garbage.
GetRadish(t) ==
    /\ pc[t] = "get_radish"
    /\ data' = [data EXCEPT ![t].radish =
                   IF Matches(work, req[t].name, req[t].pass)
                   THEN work.radish[req[t].name] ELSE @]
    /\ Goto(t, "get_upgrades")
    /\ UNCHANGED <<req, found, left, status, db, work, lock, leaked, ids>>

GetUpgrades(t) ==
    /\ pc[t] = "get_upgrades"
    /\ data' = [data EXCEPT ![t].upgrades =
                   IF Matches(work, req[t].name, req[t].pass)
                   THEN work.upgrades[req[t].name] ELSE @]
    /\ Goto(t, "add_session")
    /\ UNCHANGED <<req, found, left, status, db, work, lock, leaked, ids>>

\* Mutant: a column CHAR(16) that really holds 16 characters.
ShortSid == Prefix(SessionId(issued + 1))

\* DEFAULT (lower(hex(randomblob(16)))): 32 digits, never drawn before.
NewSid == SessionId(issued + 1)

\* INSERT OR IGNORE INTO sessions (user_id) VALUES ((SELECT user_id ...)).
\* With another password the SELECT yields NULL, for which SQLite takes the
\* next rowid: a session of whoever has that id.
AddSession(t) ==
    LET n == req[t].name
        matches == Matches(work, n, req[t].pass)
        uid == IF matches THEN work.uid[n] ELSE NextSessionUid(work)
    IN  /\ pc[t] = "add_session"
        /\ IF matches /\ Online(work, n)
           THEN UNCHANGED <<db, work, issued>>
           ELSE /\ Execute([work EXCEPT !.session[uid] = NewSid])
                /\ issued' = issued + 1
        /\ Goto(t, "get_session")
        /\ UNCHANGED <<req, found, left, data, status, lock, leaked, known>>

\* Mutant: the session is looked up by the name alone.
GetAnySession(t) ==
    /\ pc[t] = "get_session"
    /\ data' = [data EXCEPT ![t].sid =
                   IF Online(work, req[t].name)
                   THEN work.session[work.uid[req[t].name]] ELSE @]
    /\ Goto(t, "commit")
    /\ UNCHANGED <<req, found, left, status, db, work, lock, leaked, ids>>

GetSession(t) ==
    /\ pc[t] = "get_session"
    /\ data' = [data EXCEPT ![t].sid =
                   IF Matches(work, req[t].name, req[t].pass) /\ Online(work, req[t].name)
                   THEN work.session[work.uid[req[t].name]] ELSE @]
    /\ Goto(t, "commit")
    /\ UNCHANGED <<req, found, left, status, db, work, lock, leaked, ids>>

\* Mutant: the loop over the commands leaves out those between the first and
\* the last.
SetRadishOnly(t) ==
    LET n == req[t].name
    IN  /\ pc[t] = "set_radish"
        /\ Execute(IF Holds(work, n, req[t].sid)
                   THEN [work EXCEPT !.radish[n] = req[t].save.radish] ELSE work)
        /\ Goto(t, "drop_session")
        /\ UNCHANGED <<req, found, left, data, status, lock, leaked, ids>>

SetRadish(t) ==
    LET n == req[t].name
    IN  /\ pc[t] = "set_radish"
        /\ Execute(IF Holds(work, n, req[t].sid)
                   THEN [work EXCEPT !.radish[n] = req[t].save.radish] ELSE work)
        /\ Goto(t, IF left[t] = {} THEN "drop_session" ELSE "set_upgrade")
        /\ UNCHANGED <<req, found, left, data, status, lock, leaked, ids>>

\* One INSERT OR REPLACE per upgrade.  When the session id is another one the
\* SELECT yields NULL and a row is stored that belongs to nobody.
SetUpgrade(t) ==
    LET n == req[t].name
    IN  /\ pc[t] = "set_upgrade"
        /\ \E u \in left[t] :
            /\ Execute(IF Holds(work, n, req[t].sid)
                       THEN [work EXCEPT !.upgrades[n][u] = req[t].save.upgrades[u]]
                       ELSE [work EXCEPT !.orphaned = TRUE])
            /\ left' = [left EXCEPT ![t] = @ \ {u}]
            /\ Goto(t, IF left[t] = {u} THEN "drop_session" ELSE "set_upgrade")
        /\ UNCHANGED <<req, found, data, status, lock, leaked, ids>>

DropSession(t) ==
    LET n == req[t].name
    IN  /\ pc[t] = "drop_session"
        /\ Execute(IF Holds(work, n, req[t].sid)
                   THEN [work EXCEPT !.session[work.uid[n]] = NoSid] ELSE work)
        /\ Goto(t, "commit")
        /\ UNCHANGED <<req, found, left, data, status, lock, leaked, ids>>

\* Whether any row was found or changed is not looked at: 200.
Commit(t) ==
    /\ pc[t] = "commit"
    /\ db' = work
    /\ SetLock(t, "none")
    /\ Answer(t, 200)
    /\ UNCHANGED <<req, found, left, data, work, leaked, ids>>

-----------------------------------------------------------------------------
(* Failures.                                                               *)

\* Mutant: a busy handler that waits for the lock, however long it takes.
WaitForLock(t) == FALSE

\* A lock that another connection holds: SQLITE_BUSY, check_rc throws, 500.
Busy(t) ==
    /\ \/ pc[t] \in Queries /\ lock[t] = "none" /\ ~ CanRead(t)
       \/ pc[t] = "insert" /\ lock[t] = "none" /\ ~ CanReserve(t)
       \/ pc[t] = "insert" /\ lock[t] = "reserved" /\ ~ CanExclude(t)
       \/ pc[t] = "begin" /\ ~ CanExclude(t)
    /\ SetLock(t, "none")
    /\ Answer(t, 500)
    /\ UNCHANGED <<req, found, left, data, db, work, leaked, ids>>

\* Outside a transaction SQLite has undone the statement and dropped its lock
\* when it reports the error.
QueryFails(t) ==
    /\ DiskFaults
    /\ pc[t] \in Queries \cup {"insert", "begin"}
    /\ SetLock(t, "none")
    /\ Answer(t, 500)
    /\ UNCHANGED <<req, found, left, data, db, work, leaked, ids>>

\* Inside one the exception leaves the connection open.  SQLite has rolled the
\* transaction back, or it is still open and keeps the database locked.
StatementFails(t) ==
    /\ DiskFaults
    /\ InTransaction(t)
    /\ SetLock(t, "none")
    /\ \/ leaked' = TRUE /\ UNCHANGED work
       \/ work' = db /\ UNCHANGED leaked
    /\ Answer(t, 500)
    /\ UNCHANGED <<req, found, left, data, db, ids>>

\* The process ends and starts again; the journal undoes an open transaction.
Crash ==
    /\ Crashes
    /\ pc' = [t \in Threads |-> "idle"]
    /\ req' = [t \in Threads |-> NoRequest]
    /\ found' = [t \in Threads |-> FALSE]
    /\ left' = [t \in Threads |-> {}]
    /\ data' = [t \in Threads |-> FreshGameData]
    /\ status' = [t \in Threads |-> 0]
    /\ lock' = [t \in Threads |-> "none"]
    /\ leaked' = FALSE
    /\ work' = db
    /\ UNCHANGED <<db, ids>>

Handle(t) == Refuse(t) \/ \E r \in Requests : Begin(t, r)

Login(t) == GetRadish(t) \/ GetUpgrades(t) \/ AddSession(t) \/ GetSession(t)

Update(t) == SetRadish(t) \/ SetUpgrade(t) \/ DropSession(t)

Work(t) ==
    \/ Query(t) \/ Finalize(t)
    \/ Reserve(t) \/ Promote(t) \/ InsertUser(t)
    \/ BeginExclusive(t) \/ Login(t) \/ Update(t) \/ Commit(t)
    \/ Busy(t)

Step(t) == Work(t) \/ Respond(t)

Fault(t) == QueryFails(t) \/ StatementFails(t)

Next == Crash \/ \E t \in Threads : Handle(t) \/ Step(t) \/ Fault(t)

Spec == Init /\ [][Next]_vars

\* The io threads keep running: a request in hand goes on to its next query.
FairSpec == Spec /\ \A t \in Threads : WF_vars(Step(t))
-----------------------------------------------------------------------------
(* Properties.                                                             *)

TypeOK ==
    /\ pc \in [Threads -> Steps]
    /\ req \in [Threads -> Requests]
    /\ found \in [Threads -> BOOLEAN]
    /\ left \in [Threads -> SUBSET Types]
    /\ data \in [Threads -> GameData]
    /\ status \in [Threads -> {0, 200, 400, 422, 500}]
    /\ db \in Databases
    /\ work \in Databases
    /\ lock \in [Threads -> Locks]
    /\ leaked \in BOOLEAN
    /\ issued \in 0 .. MaxLogins
    /\ known \subseteq Told

\* Between BEGIN EXCLUSIVE and COMMIT (game_request_handler.cc:272-307, 479-526)
\* no other thread holds any lock on the database, so that no other thread sees
\* or makes a change.
TransactionsExclude ==
    \A t, u \in Threads :
        t # u /\ InTransaction(t) => lock[u] = "none" /\ ~ InTransaction(u)

\* The stored progress of a user changes only as a whole, by one PUT of that
\* user with the id of the session that is open, and the session ends in the
\* same step (game_request_handler.cc:463-526): nobody sees or keeps half a
\* save, no save counts twice, and a stale or foreign session id saves nothing.
ProgressChangesBySaves ==
    [][\A n \in Names : Progress(db, n)' # Progress(db, n) =>
          \E t \in Threads :
              /\ req[t].kind = "update" /\ req[t].name = n
              /\ Holds(db, n, req[t].sid)
              /\ Progress(db, n)' = Merge(Progress(db, n), req[t].save)
              /\ ~ Online(db, n)']_vars

\* What a login answers is what is stored for as long as the session it opened
\* lasts (game_request_handler.cc:267-305): the two SELECTs and the INSERT of
\* the session see the same progress, and nobody else may change it.
LoginIsCurrent ==
    \A t \in Threads :
        /\ pc[t] = "done" /\ req[t].kind = "login" /\ status[t] = 200
        /\ Holds(db, req[t].name, data[t].sid)
        => [radish |-> data[t].radish, upgrades |-> data[t].upgrades]
               = Progress(db, req[t].name)

\* A session id that a client was sent opens the progress of the user it logged
\* in as, with that user's password, and of nobody else
\* (game_request_handler.cc:267-305): also when a login with a wrong password
\* has stored a session for a user id of SQLite's choice, nobody learns its id
\* without the password of the user it belongs to.
SessionsOpenOwnProgress ==
    \A n \in Names, k \in known :
        Holds(db, n, SessionId(k.number)) => k.name = n /\ Matches(db, n, k.pass)

\* A PUT that is answered 200 while the session it names is the user's has
\* stored all it carried (game_request_handler.cc:463-531).
AcknowledgedSavesAreKept ==
    [][\A t \in Threads :
          /\ pc[t] # "done" /\ pc[t]' = "done" /\ status[t]' = 200
          /\ req[t].kind = "update" /\ Holds(db, req[t].name, req[t].sid)
          => Progress(db, req[t].name)'
                = Merge(Progress(db, req[t].name), req[t].save)]_vars

\* Every request is answered, whatever the other threads do to the database: a
\* lock that is taken is an error and never a wait (check_rc, line 542).
EveryRequestIsAnswered == \A t \in Threads : pc[t] # "idle" ~> pc[t] = "idle"

-----------------------------------------------------------------------------
(* What comments, log messages and the README say and the code does not do. *)

\* "Unable to find offline user and/or username/password mismatch": a login
\* with another password than the account's is not answered 200.
WrongPasswordIsRefused ==
    \A t \in Threads :
        pc[t] = "done" /\ req[t].kind = "login" /\ status[t] = 200
            => Matches(db, req[t].name, req[t].pass)

\* "Note that session ID will be unique per login or session": two logins that
\* are answered 200 do not get the same session id.
LoginsGetDistinctSessions ==
    \A t, u \in Threads :
        /\ t # u
        /\ \A v \in {t, u} : /\ pc[v] = "done" /\ status[v] = 200
                             /\ req[v].kind = "login"
                             /\ data[v].sid # NoSid
        => data[t].sid # data[u].sid
=============================================================================
