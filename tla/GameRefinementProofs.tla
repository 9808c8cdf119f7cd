------------------------ MODULE GameRefinementProofs ------------------------
(***************************************************************************)
(* GameStore implements Game, for any numbers of threads, users,           *)
(* passwords, upgrades, saves and logins.                                  *)
(*                                                                         *)
(* RefineInv, on top of SessionInv: what the queries of a request have     *)
(* found out and is still so, and which row of sessions a transaction has  *)
(* changed when it commits.                                                *)
(***************************************************************************)
EXTENDS GameRefinement, GameSessionsProofs

QueriesOf(kind) ==
    CASE kind = "create" -> {"user_exists"}
      [] kind = "login" -> {"is_online", "user_exists", "salt"}
      [] kind = "update" -> {"is_online", "has_session_id"}
      [] OTHER -> {}

\* The prefix of a session id is nobody's session id, and no user is removed.
QueryInv(t) ==
    /\ lock[t] = "shared" => pc[t] \in Queries
    /\ pc[t] \in Queries => pc[t] \in QueriesOf(req[t].kind)
    /\ lock[t] = "shared" /\ pc[t] = "has_session_id" => ~ found[t]
    /\ /\ req[t].kind = "login"
       /\ \/ pc[t] \in Statements \cup {"salt", "begin"}
          \/ lock[t] = "shared" /\ pc[t] = "user_exists" /\ found[t]
       => Registered(db, req[t].name)

\* Who has no account has no progress.
BlankInv ==
    \A n \in Names : ~ Registered(db, n) => db.radish[n] = 0 /\ db.upgrades[n] = NoUpgrades

\* Until it answers, only a login with the right password has read anything.
FreshInv(t) ==
    \/ pc[t] = "done"
    \/ data[t] = FreshGameData
    \/ /\ pc[t] \in {"get_upgrades", "add_session", "get_session", "commit"}
       /\ req[t].kind = "login" /\ Matches(work, req[t].name, req[t].pass)

\* It opens a session, and reads its id.
OpenInv(t) ==
    LET n == req[t].name
    IN  req[t].kind = "login" /\ Matches(work, n, req[t].pass) =>
            /\ pc[t] = "get_session" => Online(work, n)
            /\ pc[t] = "commit" => Holds(work, n, data[t].sid)

Changed(i) == work.session[i] # db.session[i]

\* Nobody but the login in thread t has a session id with this number.
Unseen(t, k) ==
    /\ \A l \in known : l.number # k
    /\ \A u \in Threads \ {t} : data[u].sid.number # k

\* The row that a transaction changes: of the user, or of a user id of SQLite's
\* choice when a login has the wrong password.
RowInv(t) ==
    LET n == req[t].name
    IN  InTransaction(t) => \A i \in Uids : Changed(i) =>
            /\ \A j \in Uids : Changed(j) => j = i
            /\ \/ /\ req[t].kind = "login" /\ pc[t] \in {"get_session", "commit"}
                  /\ db.session[i] = NoSid
                  /\ Unseen(t, work.session[i].number)
                  /\ Matches(db, n, req[t].pass) => i = db.uid[n]
               \/ /\ req[t].kind = "update" /\ pc[t] = "commit"
                  /\ Holds(db, n, req[t].sid)
                  /\ i = db.uid[n] /\ work.session[i] = NoSid

RefineInv ==
    /\ SessionInv
    /\ BlankInv
    /\ \A t \in Threads : QueryInv(t) /\ FreshInv(t) /\ OpenInv(t) /\ RowInv(t)

-----------------------------------------------------------------------------
(* The queries.                                                            *)

\* The locks and results of other threads stay, too.
LEMMA OthersWait ==
    ASSUME SaveInv, TypeOK, NEW t \in Threads, Handle(t) \/ Step(t) \/ Fault(t),
           NEW u \in Threads \ {t}
    PROVE  lock'[u] = lock[u] /\ found'[u] = found[u]
<1> USE DEF SetLock, TypeOK
<1>1. CASE Handle(t)
  BY <1>1 DEF Handle, Refuse, Begin, Accept
<1>2. CASE Query(t) \/ Finalize(t)
  BY <1>2 DEF Query, Finalize
<1>3. CASE Reserve(t) \/ Promote(t) \/ BeginExclusive(t) \/ Busy(t)
  BY <1>3 DEF Reserve, Promote, BeginExclusive, Busy, local
<1>4. CASE InsertUser(t) \/ Commit(t) \/ Fault(t)
  BY <1>4 DEF InsertUser, Commit, Fault, QueryFails, StatementFails
<1>5. CASE Login(t)
  BY <1>5 DEF Login, GetRadish, GetUpgrades, AddSession, GetSession
<1>6. CASE Update(t)
  BY <1>6 DEF Update, SetRadish, SetUpgrade, DropSession
<1>7. CASE Respond(t)
  BY <1>7 DEF Respond
<1> QED
  BY <1>1, <1>2, <1>3, <1>4, <1>5, <1>6, <1>7 DEF Step, Work

LEMMA RegisteredStays ==
    ASSUME SessionInv, [Next]_vars, NEW n \in Names, Registered(db, n)
    PROVE  Registered(db, n)'
  BY Effects, AccountsStay DEF SessionInv, Registered

\* What the steps of a request do to its queries.
LEMMA PrefixesAreNobodys ==
    ASSUME TypeOK, NEW n \in Names, NEW sid
    PROVE  ~ Holds(db, n, Prefix(sid))
<1>1. ASSUME Online(db, n) PROVE db.session[db.uid[n]] \in Sids
  BY <1>1 DEF TypeOK, Databases, Online, Registered
<1>2. ASSUME NEW s \in Sids, s = Prefix(sid) PROVE FALSE
  <2>1. s.chars = 32
    BY <1>2 DEF Sids, SessionId
  <2>2. s.chars = 16
    BY <1>2 DEF Prefix
  <2> QED
    BY <2>1, <2>2
<1> QED
  BY <1>1, <1>2 DEF Holds

\* The handler that moves knows what it has found.
LEMMA QueryMoves ==
    ASSUME SessionInv, NEW t \in Threads, QueryInv(t), Handle(t) \/ Step(t) \/ Fault(t)
    PROVE  QueryInv(t)'
<1>1. /\ pc \in [Threads -> Steps] /\ req \in [Threads -> Requests]
      /\ lock \in [Threads -> Locks] /\ found \in [Threads -> BOOLEAN]
      /\ TypeOK /\ SaveInv /\ Place(t) /\ (pc[t] \in Queries => req[t] # NoRequest)
  BY DEF SessionInv, TypeInv, TypeOK, SaveInv, LockInv, ControlType
<1>2. req[t].kind \in {"create", "login", "update", "malformed"}
      /\ (req[t] # NoRequest => req[t].kind \in {"create", "login", "update"} /\ req[t].name \in Names)
  BY <1>1, RequestKinds
<1>3. \A n \in Names : Registered(db, n) => Registered(db, n)'
  BY RegisteredStays DEF Next
<1>4. CASE Handle(t)
  <2>1. /\ lock'[t] = lock[t] /\ lock[t] # "shared"
    BY <1>4 DEF Handle, Refuse, Begin, Accept, QueryInv, Queries
  <2>2. CASE Refuse(t)
    <3>1. pc'[t] = "done" /\ req'[t] = req[t]
      BY <1>1, <2>2 DEF Refuse, Answer, Goto
    <3> QED
      BY <2>1, <3>1 DEF QueryInv, Queries, Statements
  <2>3. ASSUME NEW r \in Requests, Begin(t, r) PROVE QueryInv(t)'
    <3>1. pc'[t] = FirstStep(r) /\ req'[t] = r /\ r.kind \in {"create", "login", "update"}
      BY <1>1, <2>3, RequestKinds DEF Begin, Accept, Goto
    <3> QED
      BY <2>1, <3>1 DEF QueryInv, Queries, Statements, FirstStep, QueriesOf
  <2> QED
    BY <1>4, <2>2, <2>3 DEF Handle
<1>5. CASE Query(t)
  <2>1. /\ pc[t] \in Queries /\ pc' = pc /\ req' = req /\ db' = db
        /\ lock'[t] = "shared" /\ found'[t] = HasRow(t)
    BY <1>1, <1>5 DEF Query, SetLock
  <2>2. req[t].name \in Names /\ req[t].kind \in {"create", "login", "update"}
    BY <1>1, <1>2, <2>1
  <2>3. pc[t] = "has_session_id" => ~ found'[t]
    BY <1>1, <2>1, <2>2, PrefixesAreNobodys DEF HasRow
  <2>4. pc[t] = "user_exists" /\ found'[t] => Registered(db, req[t].name)
    BY <2>1 DEF HasRow
  <2> QED
    BY <2>1, <2>3, <2>4 DEF QueryInv, Queries, Statements, Registered
<1>6. CASE Finalize(t)
  <2>1. /\ pc[t] \in Queries /\ lock[t] = "shared" /\ lock'[t] = "none" /\ req' = req /\ db' = db
    BY <1>1, <1>6 DEF Finalize, SetLock
  <2>2. req[t].kind \in {"create", "login", "update"}
    BY <1>1, <1>2, <2>1
  <2>3. CASE GivesUp(req[t].kind, pc[t], found[t])
    <3>1. pc'[t] = "done"
      BY <1>1, <1>6, <2>3 DEF Finalize, Answer, Goto
    <3> QED
      BY <2>1, <3>1 DEF QueryInv, Queries, Statements
  <2>4. CASE ~ GivesUp(req[t].kind, pc[t], found[t])
    <3>1. pc'[t] = After(req[t].kind, pc[t])
      BY <1>1, <1>6, <2>4 DEF Finalize, Goto
    <3>2. pc[t] \in QueriesOf(req[t].kind)
      BY <2>1 DEF QueryInv
    <3>3. CASE req[t].kind = "create"
      BY <2>1, <3>1, <3>3 DEF QueryInv, Queries, QueriesOf, After
    <3>4. CASE req[t].kind = "update"
      BY <2>1, <3>1, <3>4 DEF QueryInv, Queries, QueriesOf, After
    <3>5. CASE req[t].kind = "login"
      <4>1. pc[t] = "is_online" \/ Registered(db, req[t].name)
        BY <2>1, <2>4, <3>2, <3>5 DEF QueryInv, QueriesOf, GivesUp
      <4> QED
        BY <2>1, <3>1, <3>2, <3>5, <4>1
        DEF QueryInv, Queries, QueriesOf, Statements, After, Registered
    <3> QED
      BY <2>2, <3>3, <3>4, <3>5
  <2> QED
    BY <2>3, <2>4
<1>7. CASE Reserve(t) \/ Promote(t)
  BY <1>1, <1>7
  DEF Reserve, Promote, SetLock, local, QueryInv, Queries, Statements, Registered
<1>8. CASE BeginExclusive(t)
  <2>1. /\ pc[t] = "begin" /\ pc'[t] \in {"get_radish", "set_radish"}
        /\ lock'[t] = "exclusive" /\ req' = req /\ db' = db
    BY <1>1, <1>8 DEF BeginExclusive, Goto, SetLock
  <2> QED
    BY <2>1 DEF QueryInv, Queries, Statements, Registered
<1>9. CASE Login(t)
  <2>1. /\ pc[t] \in Statements /\ pc'[t] \in Statements /\ lock'[t] = lock[t]
        /\ req' = req /\ db' = db
    BY <1>1, <1>9 DEF Login, GetRadish, GetUpgrades, AddSession, GetSession, Execute, Goto,
                      Statements
  <2> QED
    BY <2>1 DEF QueryInv, Queries, Statements, Registered
<1>10. CASE Update(t)
  <2>1. /\ pc[t] \in Statements /\ lock'[t] = lock[t] /\ req' = req /\ db' = db
        /\ \E s \in {"set_upgrade", "drop_session", "commit"} : pc' = [pc EXCEPT ![t] = s]
    BY <1>10 DEF Update, SetRadish, SetUpgrade, DropSession, Execute, Goto, Statements
  <2>2. pc'[t] \in {"set_upgrade", "drop_session", "commit"}
    BY <1>1, <2>1
  <2> QED
    BY <2>1, <2>2 DEF QueryInv, Queries, Statements, Registered
<1>11. CASE InsertUser(t) \/ Commit(t) \/ Busy(t) \/ Fault(t)
  <2>1. lock'[t] = "none"
    BY <1>1, <1>11 DEF InsertUser, Commit, Busy, Fault, QueryFails, StatementFails, SetLock
  <2>2. pc'[t] = "done"
    BY <1>1, <1>11 DEF InsertUser, Commit, Busy, Fault, QueryFails, StatementFails, Answer, Goto
  <2> QED
    BY <2>1, <2>2 DEF QueryInv, Queries, Statements
<1>12. CASE Respond(t)
  <2>1. pc'[t] = "idle" /\ lock'[t] = lock[t] /\ lock[t] # "shared"
    BY <1>1, <1>12 DEF Respond, Goto, QueryInv, Queries
  <2> QED
    BY <2>1 DEF QueryInv, Queries, Statements
<1> QED
  BY <1>4, <1>5, <1>6, <1>7, <1>8, <1>9, <1>10, <1>11, <1>12 DEF Step, Work

LEMMA QueryNext ==
    ASSUME SessionInv, [Next]_vars, NEW u \in Threads, QueryInv(u)
    PROVE  QueryInv(u)'
<1>1. CASE UNCHANGED vars
  BY <1>1 DEF vars, local, QueryInv, Registered
<1>2. CASE Crash
  BY <1>2 DEF Crash, QueryInv, Queries, Statements
<1>3. CASE Handle(u) \/ Step(u) \/ Fault(u)
  BY <1>3, QueryMoves
<1>4. ASSUME NEW t \in Threads \ {u}, Handle(t) \/ Step(t) \/ Fault(t)
      PROVE  QueryInv(u)'
  <2>1. /\ pc'[u] = pc[u] /\ req'[u] = req[u] /\ lock'[u] = lock[u] /\ found'[u] = found[u]
    BY <1>4, OthersKeep, OthersWait DEF SessionInv, TypeInv
  <2>2. req[u].kind = "login" => req[u].name \in Names
    BY DEF SessionInv, TypeInv, TypeOK, Requests, NoRequest
  <2>3. \A n \in Names : Registered(db, n) => Registered(db, n)'
    BY RegisteredStays
  <2> QED
    BY <2>1, <2>2, <2>3 DEF QueryInv, Registered
<1> QED
  BY <1>1, <1>2, <1>3, <1>4 DEF Next

LEMMA BlankNext ==
    ASSUME SessionInv, BlankInv, [Next]_vars
    PROVE  BlankInv'
<1> SUFFICES ASSUME NEW n \in Names, ~ Registered(db, n)'
             PROVE  db'.radish[n] = 0 /\ db'.upgrades[n] = NoUpgrades
  BY DEF BlankInv, NoUpgrades
<1>1. ~ Registered(db, n) /\ SaveInv
  BY RegisteredStays DEF SessionInv
<1>2. Progress(db, n)' = Progress(db, n)
  BY <1>1, SavesStep DEF SavedBy, Holds, Online
<1> QED
  BY <1>1, <1>2 DEF BlankInv, Progress

-----------------------------------------------------------------------------
(* What a login has read.                                                  *)

LEMMA FreshMoves ==
    ASSUME SessionInv, NEW t \in Threads, FreshInv(t), Handle(t) \/ Step(t) \/ Fault(t)
    PROVE  FreshInv(t)'
<1>1. /\ pc \in [Threads -> Steps] /\ req \in [Threads -> Requests]
      /\ data \in [Threads -> GameData]
      /\ SaveInv /\ Place(t)
  BY DEF SessionInv, TypeInv, TypeOK, SaveInv
<1>2. CASE Handle(t) \/ Query(t) \/ Finalize(t) \/ Reserve(t) \/ Promote(t) \/ BeginExclusive(t)
  <2>1. /\ pc[t] \in Queries \cup {"idle", "insert", "begin"} /\ data'[t] = data[t]
    BY <1>2 DEF Handle, Refuse, Begin, Accept, Query, Finalize, Reserve, Promote,
                BeginExclusive, local
  <2> QED
    BY <2>1 DEF FreshInv, Queries, FreshGameData, NoUpgrades
<1>3. CASE Respond(t)
  BY <1>1, <1>3 DEF Respond, FreshInv, FreshGameData, NoUpgrades
<1>4. CASE InsertUser(t) \/ Commit(t) \/ Busy(t) \/ Fault(t)
  BY <1>1, <1>4
  DEF InsertUser, Commit, Busy, Fault, QueryFails, StatementFails, Answer, Goto, FreshInv
<1>5. CASE Update(t)
  <2>1. req[t].kind = "update" /\ data' = data /\ pc[t] \in UpdateSteps
    BY <1>1, <1>5 DEF Update, SetRadish, SetUpgrade, DropSession, Place, UpdateSteps
  <2>2. data[t] = FreshGameData
    BY <2>1 DEF FreshInv, UpdateSteps
  <2> QED
    BY <2>1, <2>2 DEF FreshInv, FreshGameData, NoUpgrades
<1>6. CASE Login(t)
  <2>1. /\ req[t].kind = "login" /\ req' = req /\ pc[t] \in LoginSteps
        /\ pc'[t] \in {"get_upgrades", "add_session", "get_session", "commit"}
    BY <1>1, <1>6 DEF Login, GetRadish, GetUpgrades, AddSession, GetSession, Place, LoginSteps, Goto
  <2>2. work'.uid = work.uid /\ work'.pass = work.pass
    BY <1>1, <1>6 DEF Login, GetRadish, GetUpgrades, AddSession, GetSession, Execute, SaveInv, Data, Shape
  <2>3. Matches(work, req[t].name, req[t].pass)' <=> Matches(work, req[t].name, req[t].pass)
    BY <2>1, <2>2 DEF Matches, Registered
  <2>4. CASE Matches(work, req[t].name, req[t].pass)
    BY <2>1, <2>3, <2>4 DEF FreshInv
  <2>5. CASE ~ Matches(work, req[t].name, req[t].pass)
    <3>1. data[t] = FreshGameData
      BY <2>1, <2>5 DEF FreshInv, LoginSteps
    <3>2. data'[t] = data[t]
      BY <1>1, <1>6, <2>5 DEF Login, GetRadish, GetUpgrades, AddSession, GetSession, GameData
    <3> QED
      BY <3>1, <3>2 DEF FreshInv, FreshGameData, NoUpgrades
  <2> QED
    BY <2>4, <2>5
<1> QED
  BY <1>2, <1>3, <1>4, <1>5, <1>6 DEF Step, Work

\* Another thread disturbs no transaction, and reads nothing for this one.
LEMMA FreshNext ==
    ASSUME SessionInv, [Next]_vars, NEW u \in Threads, FreshInv(u)
    PROVE  FreshInv(u)'
<1>1. CASE UNCHANGED vars
  BY <1>1 DEF vars, local, FreshInv, Matches, Registered, FreshGameData, NoUpgrades
<1>2. CASE Crash
  BY <1>2 DEF Crash, FreshInv, FreshGameData, NoUpgrades
<1>3. CASE Handle(u) \/ Step(u) \/ Fault(u)
  BY <1>3, FreshMoves
<1>4. ASSUME NEW t \in Threads \ {u}, Handle(t) \/ Step(t) \/ Fault(t)
      PROVE  FreshInv(u)'
  <2>1. pc'[u] = pc[u] /\ req'[u] = req[u] /\ data'[u] = data[u]
    BY <1>4, OthersKeep DEF SessionInv, TypeInv
  <2>2. InTransaction(u) => work' = work
    BY <1>4, OthersQuiet DEF SessionInv
  <2> QED
    BY <2>1, <2>2
    DEF FreshInv, InTransaction, Statements, Matches, Registered, FreshGameData, NoUpgrades
<1> QED
  BY <1>1, <1>2, <1>3, <1>4 DEF Next

\* Only the statements of a transaction, and BEGIN, lead to another one.
LEMMA EndsOutside ==
    ASSUME SaveInv, NEW t \in Threads, Handle(t) \/ Step(t) \/ Fault(t),
           ~ BeginExclusive(t), ~ Login(t), ~ Update(t)
    PROVE  ~ InTransaction(t)'
<1>1. pc \in [Threads -> Steps] /\ req \in [Threads -> Requests]
      /\ (pc[t] \in Queries => req[t] # NoRequest)
  BY DEF SaveInv, LockInv, ControlType
<1> USE DEF Goto, Answer, InTransaction, Statements
<1>2. CASE Handle(t)
  <2>1. ASSUME NEW r \in Requests, Begin(t, r) PROVE ~ InTransaction(t)'
    BY <1>1, <2>1, RequestKinds DEF Begin, Accept, FirstStep
  <2> QED
    BY <1>1, <1>2, <2>1 DEF Handle, Refuse
<1>3. CASE Query(t) \/ Reserve(t) \/ Promote(t)
  BY <1>3 DEF Query, Reserve, Promote, Queries, local
<1>4. CASE Finalize(t)
  <2>1. req[t].kind \in {"create", "login", "update"}
    BY <1>1, <1>4, RequestKinds DEF Finalize
  <2>2. After(req[t].kind, pc[t]) \in {"insert", "user_exists", "salt", "begin", "has_session_id"}
    BY <2>1 DEF After
  <2> QED
    BY <1>1, <1>4, <2>2 DEF Finalize
<1>5. CASE InsertUser(t) \/ Commit(t) \/ Busy(t) \/ Fault(t) \/ Respond(t)
  BY <1>1, <1>5 DEF InsertUser, Commit, Busy, Fault, QueryFails, StatementFails, Respond
<1> QED
  BY <1>2, <1>3, <1>4, <1>5 DEF Step, Work

LEMMA OpenMoves ==
    ASSUME SessionInv, NEW t \in Threads, OpenInv(t), Handle(t) \/ Step(t) \/ Fault(t)
    PROVE  OpenInv(t)'
<1>1. /\ pc \in [Threads -> Steps] /\ data \in [Threads -> GameData]
      /\ SaveInv /\ Place(t) /\ work \in Shape /\ work \in Databases
  BY DEF SessionInv, TypeInv, TypeOK, SaveInv, Data
<1> USE DEF Goto, Answer
<1>2. CASE AddSession(t)
  <2>1. pc'[t] = "get_session" /\ req' = req
    BY <1>1, <1>2 DEF AddSession
  <2>2. SUFFICES ASSUME Matches(work, req[t].name, req[t].pass)'
                 PROVE  Online(work, req[t].name)'
    BY <2>1 DEF OpenInv
  <2>3. req[t].name \in Names
    BY <1>1, <1>2 DEF AddSession, Place, LoginSteps, SessionInv, TypeInv, TypeOK, Requests, NoRequest
  <2>4. work'.uid = work.uid /\ work'.pass = work.pass
    BY <1>1, <1>2 DEF AddSession, Execute, Shape
  <2>5. Matches(work, req[t].name, req[t].pass) /\ work.uid[req[t].name] \in Uids
    BY <1>1, <2>1, <2>2, <2>3, <2>4 DEF Matches, Registered, Shape
  <2>6. CASE Online(work, req[t].name)
    <3>1. work' = work
      BY <1>2, <2>5, <2>6 DEF AddSession
    <3> QED
      BY <2>1, <2>6, <3>1 DEF Online, Registered
  <2>7. CASE ~ Online(work, req[t].name)
    <3>1. work' = [work EXCEPT !.session[work.uid[req[t].name]] = NewSid]
      BY <1>2, <2>5, <2>7 DEF AddSession, Execute
    <3>2. work'.session[work.uid[req[t].name]] = NewSid
      BY <1>1, <2>5, <3>1 DEF Shape
    <3>3. NewSid # NoSid
      BY DEF NewSid, SessionId, NoSid
    <3> QED
      BY <2>1, <2>4, <2>5, <3>2, <3>3 DEF Online, Registered, Matches
  <2> QED
    BY <2>6, <2>7
<1>3. CASE GetSession(t)
  <2>1. /\ pc[t] = "get_session" /\ pc'[t] = "commit" /\ req' = req /\ work' = work
    BY <1>1, <1>3 DEF GetSession
  <2>2. SUFFICES ASSUME req[t].kind = "login", Matches(work, req[t].name, req[t].pass)
                 PROVE  Holds(work, req[t].name, data'[t].sid)
    BY <2>1 DEF OpenInv, Matches, Holds, Online, Registered
  <2>3. Online(work, req[t].name)
    BY <2>1, <2>2 DEF OpenInv
  <2>4. data'[t].sid = work.session[work.uid[req[t].name]]
    BY <1>1, <1>3, <2>2, <2>3 DEF GetSession, GameData
  <2> QED
    BY <2>3, <2>4 DEF Holds
<1>4. CASE Update(t)
  <2>1. req[t].kind = "update" /\ req' = req
    BY <1>1, <1>4 DEF Update, SetRadish, SetUpgrade, DropSession, Place, UpdateSteps
  <2> QED
    BY <2>1 DEF OpenInv
<1>5. CASE ~ AddSession(t) /\ ~ GetSession(t) /\ ~ Update(t)
  <2>1. CASE BeginExclusive(t) \/ GetRadish(t) \/ GetUpgrades(t)
    BY <1>1, <2>1 DEF BeginExclusive, GetRadish, GetUpgrades, OpenInv
  <2>2. CASE ~ BeginExclusive(t) /\ ~ Login(t)
    <3>1. ~ InTransaction(t)'
      BY <1>5, <2>2, EndsOutside DEF SessionInv
    <3> QED
      BY <3>1 DEF InTransaction, Statements, OpenInv
  <2> QED
    BY <1>5, <2>1, <2>2 DEF Login
<1> QED
  BY <1>2, <1>3, <1>4, <1>5

LEMMA OpenNext ==
    ASSUME SessionInv, [Next]_vars, NEW u \in Threads, OpenInv(u)
    PROVE  OpenInv(u)'
<1>1. CASE UNCHANGED vars
  BY <1>1 DEF vars, local, OpenInv, Matches, Online, Holds, Registered
<1>2. CASE Crash
  BY <1>2 DEF Crash, OpenInv
<1>3. CASE Handle(u) \/ Step(u) \/ Fault(u)
  BY <1>3, OpenMoves
<1>4. ASSUME NEW t \in Threads \ {u}, Handle(t) \/ Step(t) \/ Fault(t)
      PROVE  OpenInv(u)'
  <2>1. pc'[u] = pc[u] /\ req'[u] = req[u] /\ data'[u] = data[u]
    BY <1>4, OthersKeep DEF SessionInv, TypeInv
  <2>2. InTransaction(u) => work' = work
    BY <1>4, OthersQuiet DEF SessionInv
  <2> QED
    BY <2>1, <2>2 DEF OpenInv, InTransaction, Statements, Matches, Online, Holds, Registered
<1> QED
  BY <1>1, <1>2, <1>3, <1>4 DEF Next

-----------------------------------------------------------------------------
(* Which rows of sessions a transaction changes.                           *)

\* A bounded set of numbers has a next one: those up to its members are as many
\* as the largest of them.
LEMMA NextOne ==
    ASSUME NEW M \in Nat, NEW taken \in SUBSET (1 .. M)
    PROVE  \E k \in 1 .. (M + 1) : /\ \A i \in taken : i < k
                                   /\ k = 1 \/ k - 1 \in taken
<1> DEFINE below == {k \in 1 .. M : \E i \in taken : k <= i}
           c == Cardinality(below)
<1>1. IsFiniteSet(1 .. M) /\ Cardinality(1 .. M) = M
  BY FS_Interval
<1>2. IsFiniteSet(below) /\ c <= M /\ c \in Nat
  <2>1. below \in SUBSET (1 .. M)
    OBVIOUS
  <2> HIDE DEF below
  <2> QED
    BY <1>1, <2>1, FS_Subset, FS_CardinalityType
<1>3. \A k \in below, l \in 1 .. M : l <= k => l \in below
  OBVIOUS
<1>4. c + 1 \notin below
  <2> SUFFICES ASSUME c + 1 \in below PROVE FALSE
    OBVIOUS
  <2> HIDE DEF c
  <2>1. 1 .. (c + 1) \in SUBSET below
    BY <1>2, <1>3
  <2>2. Cardinality(1 .. (c + 1)) = c + 1
    BY <1>2, FS_Interval
  <2> HIDE DEF below
  <2>3. Cardinality(1 .. (c + 1)) <= Cardinality(below)
    BY <1>2, <2>1, FS_Subset
  <2> QED
    BY <1>2, <2>2, <2>3 DEF c
<1>5. below = 1 .. c
  <2> HIDE DEF c
  <2>1. below \in SUBSET (1 .. c)
    BY <1>2, <1>3, <1>4
  <2>2. IsFiniteSet(1 .. c) /\ Cardinality(1 .. c) = c
    BY <1>2, FS_Interval
  <2> HIDE DEF below
  <2>3. Cardinality(below) = Cardinality(1 .. c)
    BY <2>2 DEF c
  <2> QED
    BY <2>1, <2>2, <2>3, FS_Subset
<1> HIDE DEF c
<1>6. \A i \in taken : i < c + 1
  BY <1>2, <1>5
<1>7. c + 1 = 1 \/ c \in taken
  BY <1>2, <1>5
<1>8. c + 1 \in 1 .. (M + 1) /\ (c + 1) - 1 = c
  BY <1>2
<1> QED
  BY <1>6, <1>7, <1>8

\* SQLite chooses a row that nobody has.
LEMMA NextRowIsFree ==
    ASSUME NEW d \in Shape, NextSessionUid(d) \in Uids
    PROVE  d.session[NextSessionUid(d)] = NoSid
<1> DEFINE M == Cardinality(Names) + MaxLogins
           taken == {i \in Uids : d.session[i] # NoSid}
<1>1. Cardinality(Names) \in Nat
  BY NamesAssumption, FS_CardinalityType
<1>2. M \in Nat /\ Uids = 1 .. M
  BY <1>1, MaxLoginsAssumption DEF Uids
<1>3. Cardinality(Uids) = M
  BY <1>2, FS_Interval
<1>4. \E k \in Uids \cup {Cardinality(Uids) + 1} :
         (\A i \in taken : i < k) /\ (k = 1 \/ k - 1 \in taken)
  <2> HIDE DEF M
  <2>1. taken \in SUBSET (1 .. M)
    BY <1>2
  <2>2. 1 .. (M + 1) = Uids \cup {Cardinality(Uids) + 1}
    BY <1>2, <1>3
  <2> HIDE DEF taken
  <2>3. \E k \in 1 .. (M + 1) : (\A i \in taken : i < k) /\ (k = 1 \/ k - 1 \in taken)
    BY <1>2, <2>1, NextOne
  <2> QED
    BY <2>2, <2>3
<1>5. \A i \in taken : i < NextSessionUid(d)
  BY <1>4 DEF NextSessionUid
<1>6. NextSessionUid(d) \notin taken
  BY <1>2, <1>5
<1> QED
  BY <1>6

LEMMA NothingChanged ==
    ASSUME NEW t \in Threads, RowInv(t), InTransaction(t), pc[t] \notin {"get_session", "commit"}
    PROVE  \A i \in Uids : ~ Changed(i)
  BY DEF RowInv

\* The number of a session that is drawn is known to nobody.
LEMMA NewNumber ==
    ASSUME SessionInv
    PROVE  /\ \A l \in known : l.number # NewSid.number
           /\ \A u \in Threads : data[u].sid.number # NewSid.number
<1>1. issued \in Nat /\ known \subseteq Told /\ data \in [Threads -> GameData]
  BY DEF SessionInv, SaveInv, Data, TypeInv, TypeOK
<1>2. NewSid.number = issued + 1
  BY DEF NewSid, SessionId
<1>3. ASSUME NEW l \in known PROVE l.number # NewSid.number
  <2>1. SessionId(l.number).number <= issued
    BY DEF SessionInv, KnownInv, Belongs
  <2>2. l.number \in Int
    BY <1>1, MaxLoginsAssumption DEF Told
  <2> QED
    BY <1>1, <1>2, <2>1, <2>2 DEF SessionId
<1>4. ASSUME NEW u \in Threads PROVE data[u].sid.number # NewSid.number
  <2>1. CASE data[u].sid = NoSid
    BY <1>1, <1>2, <2>1 DEF NoSid
  <2>2. CASE data[u].sid # NoSid
    <3>1. data[u].sid.number <= issued
      BY <2>2 DEF SessionInv, OwnInv, Belongs
    <3>2. data[u].sid.number \in Int
      BY <1>1, <2>2, MaxLoginsAssumption DEF GameData, Sids, SessionId
    <3> QED
      BY <1>1, <1>2, <3>1, <3>2
  <2> QED
    BY <2>1, <2>2
<1> QED
  BY <1>3, <1>4

LEMMA RowLogin ==
    ASSUME SessionInv, NEW t \in Threads, RowInv(t), Login(t)
    PROVE  RowInv(t)'
<1>1. /\ pc \in [Threads -> Steps] /\ data \in [Threads -> GameData]
      /\ db \in Shape /\ work \in Shape /\ AccountInv
      /\ Place(t)
  BY DEF SessionInv, TypeInv, TypeOK, SaveInv, Data
<1>2. /\ req' = req /\ db' = db /\ known' = known /\ req[t].kind = "login" /\ InTransaction(t)
      /\ \A u \in Threads \ {t} : data'[u] = data[u]
  BY <1>1 DEF Login, GetRadish, GetUpgrades, AddSession, GetSession, Execute, ids, Place, LoginSteps,
              InTransaction, Statements
<1>3. CASE GetRadish(t) \/ GetUpgrades(t)
  <2>1. /\ work' = work /\ pc[t] \notin {"get_session", "commit"}
    BY <1>3 DEF GetRadish, GetUpgrades
  <2>2. \A i \in Uids : ~ Changed(i)
    BY <1>2, <2>1, NothingChanged
  <2> QED
    BY <1>2, <2>1, <2>2 DEF RowInv, Changed
<1>4. CASE GetSession(t)
  <2>1. work' = work /\ pc[t] = "get_session" /\ pc'[t] = "commit"
    BY <1>1, <1>4 DEF GetSession, Goto
  <2> QED
    BY <1>2, <2>1 DEF RowInv, Changed, Unseen, Matches, Registered
<1>5. CASE AddSession(t)
  <2> DEFINE n == req[t].name
             row == SessionRow(t)
  <2>1. pc[t] = "add_session" /\ pc'[t] = "get_session"
    BY <1>1, <1>5 DEF AddSession, Goto
  <2>2. \A i \in Uids : ~ Changed(i)
    BY <1>2, <2>1, NothingChanged
  <2>3. CASE Matches(work, n, req[t].pass) /\ Online(work, n)
    <3>1. work' = work
      BY <1>5, <2>3 DEF AddSession
    <3> QED
      BY <1>2, <2>2, <3>1 DEF RowInv, Changed
  <2>4. CASE ~ (Matches(work, n, req[t].pass) /\ Online(work, n))
    <3>1. work' = [work EXCEPT !.session[row] = NewSid]
      BY <1>5, <2>4 DEF AddSession, Execute, SessionRow
    <3>2. \A i \in Uids : i # row => ~ Changed(i)'
      BY <1>1, <1>2, <2>2, <3>1 DEF Changed, Shape
    <3>3. row \in Uids => work'.session[row] = NewSid
      BY <1>1, <3>1 DEF Shape
    <3>4. row \in Uids => db.session[row] = NoSid
      <4>1. CASE Matches(work, n, req[t].pass)
        BY <2>2, <2>4, <4>1 DEF SessionRow, Matches, Online, Changed
      <4>2. CASE ~ Matches(work, n, req[t].pass)
        BY <1>1, <2>2, <4>2, NextRowIsFree DEF SessionRow, Changed
      <4> QED
        BY <4>1, <4>2
    <3>5. Matches(db, n, req[t].pass) => row = db.uid[n]
      BY <1>1 DEF AccountInv, SessionRow, Matches, Registered
    <3>6. /\ \A l \in known' : l.number # NewSid.number
          /\ \A u \in Threads \ {t} : data'[u].sid.number # NewSid.number
      BY <1>2, NewNumber
    <3> HIDE DEF row
    <3>7. ASSUME NEW i \in Uids, Changed(i)' PROVE i = row
      BY <3>2, <3>7
    <3>8. Matches(db, n, req[t].pass)' = Matches(db, n, req[t].pass)
      BY <1>2 DEF Matches, Registered
    <3>9. ASSUME NEW i \in Uids, Changed(i)'
          PROVE  /\ db'.session[i] = NoSid
                 /\ Unseen(t, work.session[i].number)'
                 /\ Matches(db, n, req[t].pass)' => i = db'.uid[n]
      BY <1>2, <3>3, <3>4, <3>5, <3>6, <3>7, <3>8, <3>9 DEF Unseen
    <3> QED
      BY <1>2, <2>1, <3>7, <3>9 DEF RowInv
  <2> QED
    BY <2>3, <2>4
<1> QED
  BY <1>3, <1>4, <1>5 DEF Login

LEMMA RowUpdate ==
    ASSUME SessionInv, NEW t \in Threads, RowInv(t), Update(t)
    PROVE  RowInv(t)'
<1>1. /\ pc \in [Threads -> Steps] /\ db \in Shape /\ work \in Shape /\ AccountInv /\ Place(t)
  BY DEF SessionInv, TypeInv, TypeOK, SaveInv, Data
<1>2. /\ req' = req /\ db' = db /\ req[t].kind = "update"
      /\ InTransaction(t) /\ pc[t] \in UpdateSteps
  BY <1>1 DEF Update, SetRadish, SetUpgrade, DropSession, Execute, Place, UpdateSteps,
              InTransaction, Statements
<1>3. \A i \in Uids : ~ Changed(i)
  BY <1>2, NothingChanged DEF UpdateSteps
<1>4. CASE SetRadish(t) \/ SetUpgrade(t)
  <2>1. work'.session = work.session
    <3>1. CASE SetRadish(t)
      BY <1>1, <3>1 DEF SetRadish, Execute, Shape
    <3>2. CASE SetUpgrade(t)
      BY <1>1, <3>2 DEF SetUpgrade, Execute, Shape
    <3> QED
      BY <1>4, <3>1, <3>2
  <2> QED
    BY <1>2, <1>3, <2>1 DEF RowInv, Changed
<1>5. CASE DropSession(t)
  <2> DEFINE n == req[t].name
             row == work.uid[n]
  <2>1. pc'[t] = "commit"
    BY <1>1, <1>5 DEF DropSession, Goto
  <2>2. CASE ~ Holds(work, n, req[t].sid)
    <3>1. work' = work
      BY <1>5, <2>2 DEF DropSession, Execute
    <3> QED
      BY <1>2, <1>3, <3>1 DEF RowInv, Changed
  <2>3. CASE Holds(work, n, req[t].sid)
    <3>1. work' = [work EXCEPT !.session[row] = NoSid]
      BY <1>5, <2>3 DEF DropSession, Execute
    <3>2. n \in Names
      BY <1>2 DEF SessionInv, TypeInv, TypeOK, Requests, NoRequest
    <3>3. row \in Uids /\ row = db.uid[n]
      BY <1>1, <2>3, <3>2 DEF Holds, Online, Registered, Shape, AccountInv
    <3>4. \A i \in Uids : i # row => ~ Changed(i)'
      BY <1>1, <1>2, <1>3, <3>1 DEF Changed, Shape
    <3>5. work'.session[row] = NoSid
      BY <1>1, <3>1, <3>3 DEF Shape
    <3>6. Holds(db, n, req[t].sid)
      BY <1>3, <2>3, <3>3 DEF Holds, Online, Registered, Changed
    <3>7. Holds(db, n, req[t].sid)'
      BY <1>2, <3>6 DEF Holds, Online, Registered
    <3> HIDE DEF row
    <3>8. ASSUME NEW i \in Uids, Changed(i)' PROVE i = row
      BY <3>4, <3>8
    <3> QED
      BY <1>2, <2>1, <3>3, <3>5, <3>7, <3>8 DEF RowInv
  <2> QED
    BY <2>2, <2>3
<1> QED
  BY <1>4, <1>5, <1>2 DEF Update

\* A transaction starts from what is stored.
LEMMA RowBegin ==
    ASSUME SessionInv, NEW t \in Threads, BeginExclusive(t)
    PROVE  RowInv(t)'
<1>1. /\ ~ leaked /\ ~ InTransaction(t) /\ db' = db /\ work' = work
  BY DEF BeginExclusive, CanExclude, OthersHoldOnly, InTransaction, Statements
<1>2. ASSUME NEW u \in Threads PROVE ~ InTransaction(u)
  BY <1>1 DEF BeginExclusive, CanExclude, OthersHoldOnly, SessionInv, SaveInv, LockInv
<1>3. work = db
  BY <1>1, <1>2 DEF SessionInv, SaveInv, Clean
<1> QED
  BY <1>1, <1>3 DEF RowInv, Changed

\* What other threads tell their clients is another session.
LEMMA RowOthers ==
    ASSUME SessionInv, NEW u \in Threads, RowInv(u),
           NEW t \in Threads \ {u}, Handle(t) \/ Step(t) \/ Fault(t)
    PROVE  RowInv(u)'
<1> SUFFICES ASSUME InTransaction(u)' PROVE RowInv(u)'
  BY DEF RowInv
<1>1. /\ TypeOK /\ SaveInv
  BY DEF SessionInv, TypeInv
<1>2. /\ pc'[u] = pc[u] /\ req'[u] = req[u] /\ data'[u] = data[u]
      /\ \A v \in Threads \ {t} : data'[v] = data[v]
  BY <1>1, OthersKeep
<1>3. InTransaction(u) /\ db' = db /\ work' = work
  BY <1>1, <1>2, OthersQuiet DEF InTransaction
<1>4. /\ \A l \in known' : l \in known \/ l.number = data[t].sid.number
      /\ data'[t] = data[t] \/ data'[t] = FreshGameData
  <2>1. CASE Respond(t)
    BY <1>1, <2>1 DEF Respond, TypeOK
  <2>2. ~ InTransaction(t)
    BY <1>1, <1>3 DEF SaveInv, LockInv
  <2>3. ~ Login(t) /\ ~ Update(t) /\ ~ Commit(t)
    BY <2>2 DEF Login, GetRadish, GetUpgrades, AddSession, GetSession, Update, SetRadish,
                SetUpgrade, DropSession, Commit, InTransaction, Statements
  <2>4. CASE ~ Respond(t)
    BY <2>3, <2>4
    DEF Handle, Refuse, Begin, Accept, Step, Work, Query, Finalize, Reserve, Promote, InsertUser,
        BeginExclusive, Busy, Fault, QueryFails, StatementFails, local, ids
  <2> QED
    BY <2>1, <2>4
<1>5. ASSUME NEW i \in Uids, Changed(i), Unseen(u, work.session[i].number), db.session[i] = NoSid
      PROVE  Unseen(u, work.session[i].number)'
  <2>1. work.session[i] \in Sids
    BY <1>1, <1>5 DEF Changed, TypeOK, Databases
  <2>2. 0 < work.session[i].number
    BY <2>1 DEF SessionInv, TableInv, InTable
  <2>3. work'.session[i].number # FreshGameData.sid.number
    BY <1>3, <2>2 DEF FreshGameData, NoSid
  <2> QED
    BY <1>2, <1>3, <1>4, <1>5, <2>3 DEF Unseen
<1> QED
  BY <1>2, <1>3, <1>5 DEF RowInv, Changed, Matches, Holds, Online, Registered

LEMMA RowNext ==
    ASSUME SessionInv, [Next]_vars, NEW u \in Threads, RowInv(u)
    PROVE  RowInv(u)'
<1>1. CASE UNCHANGED vars
  BY <1>1 DEF vars, local, ids, RowInv, InTransaction, Changed, Unseen, Matches, Holds, Online, Registered
<1>2. CASE Crash
  BY <1>2 DEF Crash, RowInv, InTransaction, Statements
<1>3. CASE Handle(u) \/ Step(u) \/ Fault(u)
  <2>1. CASE BeginExclusive(u) \/ Login(u) \/ Update(u)
    BY <2>1, RowBegin, RowLogin, RowUpdate
  <2>2. CASE ~ BeginExclusive(u) /\ ~ Login(u) /\ ~ Update(u)
    BY <1>3, <2>2, EndsOutside DEF SessionInv, RowInv
  <2> QED
    BY <2>1, <2>2
<1>4. ASSUME NEW t \in Threads \ {u}, Handle(t) \/ Step(t) \/ Fault(t)
      PROVE  RowInv(u)'
  BY <1>4, RowOthers
<1> QED
  BY <1>1, <1>2, <1>3, <1>4 DEF Next

LEMMA RefineNext == RefineInv /\ [Next]_vars => RefineInv'
  BY SessionNext, BlankNext, QueryNext, FreshNext, OpenNext, RowNext DEF RefineInv

LEMMA RefineInit == Init => RefineInv
<1> SUFFICES ASSUME Init PROVE RefineInv
  OBVIOUS
<1>1. SessionInv
  BY SessionInit
<1>2. BlankInv
  BY DEF Init, BlankInv, EmptyDatabase, NoUpgrades
<1>3. ASSUME NEW t \in Threads PROVE QueryInv(t) /\ FreshInv(t) /\ OpenInv(t) /\ RowInv(t)
  BY DEF Init, QueryInv, Queries, Statements, FreshInv, OpenInv, RowInv, InTransaction, NoRequest,
         FreshGameData, NoUpgrades
<1> QED
  BY <1>1, <1>2, <1>3 DEF RefineInv

LEMMA RefineCorrect == Spec => []RefineInv
  BY RefineInit, RefineNext, PTL DEF Spec

-----------------------------------------------------------------------------
(* Step simulation.                                                        *)

\* What clients may see of thread u.
View(u) == <<Asked(req[u]), StageView(u), AnswerView(u)>>

LEMMA ViewStays ==
    ASSUME NEW u \in Threads, pc'[u] = pc[u], req'[u] = req[u], data'[u] = data[u],
           status'[u] = status[u], lock'[u] = lock[u], found'[u] = found[u]
    PROVE  View(u)' = View(u)
<1>1. StageView(u)' = StageView(u)
  BY DEF StageView, Waiting, Queried
<1>2. AnswerView(u)' = AnswerView(u)
  BY DEF AnswerView
<1> QED
  BY <1>1, <1>2 DEF View

LEMMA OthersView ==
    ASSUME SessionInv, NEW t \in Threads, Handle(t) \/ Step(t) \/ Fault(t),
           NEW u \in Threads \ {t}
    PROVE  View(u)' = View(u)
  BY OthersKeep, OthersWait, ViewStays DEF SessionInv, TypeInv

RequestView == [t \in Threads |-> Asked(req[t])]
StagesView == [t \in Threads |-> StageView(t)]
AnswersView == [t \in Threads |-> AnswerView(t)]

LEMMA ViewsMove ==
    ASSUME SessionInv, NEW t \in Threads, Handle(t) \/ Step(t) \/ Fault(t)
    PROVE  /\ RequestView' = [RequestView EXCEPT ![t] = Asked(req[t])']
           /\ StagesView' = [StagesView EXCEPT ![t] = StageView(t)']
           /\ AnswersView' = [AnswersView EXCEPT ![t] = AnswerView(t)']
<1>1. \A u \in Threads \ {t} : /\ Asked(req[u])' = Asked(req[u])
                               /\ StageView(u)' = StageView(u)
                               /\ AnswerView(u)' = AnswerView(u)
  BY OthersView DEF View
<1> QED
  BY <1>1 DEF RequestView, StagesView, AnswersView

LEMMA AnswersStay ==
    ASSUME SessionInv, NEW t \in Threads, Handle(t) \/ Step(t) \/ Fault(t),
           AnswerView(t)' = AnswerView(t)
    PROVE  AnswersView' = AnswersView
<1>1. \A u \in Threads : AnswerView(u)' = AnswerView(u)
  BY OthersView DEF View
<1> QED
  BY <1>1 DEF AnswersView

\* As long as nothing is committed ...
LEMMA DatabaseStays ==
    ASSUME db' = db
    PROVE  UNCHANGED <<AccountView, SessionView>>
<1>1. \A n : Registered(db, n)' = Registered(db, n) /\ Online(db, n)' = Online(db, n)
  BY DEF Registered, Online
<1> QED
  BY <1>1 DEF AccountView, SessionView

\* ... and nobody is told anything.
LEMMA StoredStays ==
    ASSUME db' = db, known' = known
    PROVE  UNCHANGED Promise!stored
  BY DatabaseStays DEF Promise!stored

LEMMA SimulationInit == Init => Promise!Init
<1> SUFFICES ASSUME Init PROVE Promise!Init
  OBVIOUS
<1>1. AccountView = [n \in Names |-> Promise!NoAccount] /\ SessionView = [n \in Names |-> NoNumber]
  BY DEF Init, AccountView, SessionView, EmptyDatabase, Registered, Online, Promise!NoAccount
<1>2. {k.number : k \in known} = {}
  BY DEF Init
<1>3. \A t \in Threads : StageView(t) = "none" /\ req[t] = NoRequest
  BY DEF Init, StageView, Waiting, Queried, Queries
<1>4. \A t \in Threads : AnswerView(t) = Promise!NoAnswer
  BY DEF Init, AnswerView, Promise!NoAnswer, NoUpgrades
<1> QED
  BY <1>1, <1>2, <1>3, <1>4 DEF Promise!Init

\* Steps that a client sees nothing of.
LEMMA Stutters ==
    ASSUME SessionInv, NEW t \in Threads, Handle(t) \/ Step(t) \/ Fault(t),
           db' = db, known' = known, req' = req, StageView(t)' = StageView(t),
           pc[t] # "done", pc'[t] # "done", status'[t] = status[t]
    PROVE  UNCHANGED Promise!vars
<1>1. UNCHANGED Promise!stored
  BY StoredStays
<1>2. AnswerView(t)' = AnswerView(t)
  BY DEF AnswerView
<1>3. UNCHANGED <<RequestView, StagesView, AnswersView>>
  BY <1>2, ViewsMove DEF RequestView, StagesView, AnswersView
<1> QED
  BY <1>1, <1>3 DEF Promise!vars, RequestView, StagesView, AnswersView

\* Errors, and requests that are turned down.
LEMMA Refuses ==
    ASSUME SessionInv, NEW t \in Threads, Handle(t) \/ Step(t) \/ Fault(t),
           db' = db, known' = known, req' = req, pc[t] # "done", pc'[t] = "done",
           status'[t] \in Promise!Refusals(StageView(t))
    PROVE  Promise!Refuse(t)
<1>1. UNCHANGED Promise!stored
  BY StoredStays
<1>2. StageView(t) # "answered" /\ StageView(t)' = "answered"
  BY DEF StageView, Waiting, Queried, Queries
<1>3. AnswerView(t)' = [Promise!NoAnswer EXCEPT !.status = status'[t]]
  <2>1. status'[t] # 200
    BY DEF Promise!Refusals
  <2> QED
    BY <2>1 DEF AnswerView, Promise!NoAnswer, NoUpgrades
<1>4. RequestView' = RequestView
  BY DEF RequestView, Asked
<1>5. Promise!Answer(t, [Promise!NoAnswer EXCEPT !.status = status'[t]])
  <2>1. /\ StagesView' = [StagesView EXCEPT ![t] = "answered"]
        /\ AnswersView' = [AnswersView EXCEPT ![t] =
                             [Promise!NoAnswer EXCEPT !.status = status'[t]]]
    BY <1>2, <1>3, ViewsMove
  <2> QED
    BY <1>1, <1>4, <2>1
    DEF Promise!Answer, Promise!Enter, Promise!stored, RequestView, StagesView, AnswersView
<1>6. StagesView[t] = StageView(t)
  BY DEF StagesView
<1>7. StagesView[t] # "answered" /\ status'[t] \in Promise!Refusals(StagesView[t])
  BY <1>2, <1>6
<1>8. UNCHANGED <<AccountView, SessionView>>
  BY <1>1 DEF Promise!stored
<1> QED
  BY <1>5, <1>7, <1>8 DEF Promise!Refuse, StagesView

\* How far a request is, for every place of its handler.
StageTable(t) ==
    LET gives_up == GivesUp(req[t].kind, pc[t], found[t])
    IN  /\ pc[t] = "idle" => StageView(t) = "none"
        /\ pc[t] = "done" => StageView(t) = "answered"
        /\ Waiting(t) => StageView(t) = "called"
        /\ Queried(t) => StageView(t) = IF gives_up THEN "failed" ELSE "passed"
        /\ pc[t] \in Queries /\ pc[t] # FirstStep(req[t]) /\ ~ Queried(t) => StageView(t) = "passed"
        /\ pc[t] \in Statements \cup {"insert", "begin"} => StageView(t) = "passed"

LEMMA Stages == ASSUME NEW t \in Threads PROVE StageTable(t) /\ StageTable(t)'
<1>1. StageTable(t)
  BY DEF StageTable, StageView, Waiting, Queried, Queries, Statements
<1>2. StageTable(t)'
  BY DEF StageTable, StageView, Waiting, Queried, Queries, Statements
<1> QED
  BY <1>1, <1>2

\* Clients and handlers agree on who exists and who is online.
LEMMA Agree ==
    ASSUME SessionInv, NEW n \in Names
    PROVE  /\ Promise!Registered(n) <=> Registered(db, n)
           /\ Promise!Online(n) <=> Online(db, n)
<1>1. Promise!Registered(n) <=> Registered(db, n)
  <2>1. CASE Registered(db, n)
    <3>1. AccountView[n] = [pass |-> db.pass[n], radish |-> db.radish[n],
                            upgrades |-> db.upgrades[n]]
      BY <2>1 DEF AccountView
    <3>2. "radish" \in DOMAIN AccountView[n] /\ "radish" \notin DOMAIN Promise!NoAccount
      BY <3>1 DEF Promise!NoAccount
    <3> QED
      BY <2>1, <3>2 DEF Promise!Registered
  <2>2. CASE ~ Registered(db, n)
    BY <2>2 DEF AccountView, Promise!Registered, Promise!NoAccount
  <2> QED
    BY <2>1, <2>2
<1>2. Online(db, n) => db.session[db.uid[n]].number # NoNumber
  <2> SUFFICES ASSUME Online(db, n) PROVE db.session[db.uid[n]].number # NoNumber
    OBVIOUS
  <2>1. db.uid[n] \in Uids /\ db.session[db.uid[n]] \in Sids
    BY DEF SessionInv, TypeInv, TypeOK, Databases, Online, Registered
  <2>2. 0 < db.session[db.uid[n]].number
    BY <2>1 DEF SessionInv, TableInv, InTable
  <2> QED
    BY <2>2 DEF NoNumber
<1>3. Promise!Online(n) <=> Online(db, n)
  BY <1>2 DEF Promise!Online, SessionView
<1> QED
  BY <1>1, <1>3

LEMMA HandleSimulation ==
    ASSUME RefineInv, NEW t \in Threads, Handle(t)
    PROVE  Promise!Next
<1>1. /\ pc \in [Threads -> Steps] /\ req \in [Threads -> Requests] /\ SessionInv
      /\ status \in [Threads -> {0, 200, 400, 422, 500}]
      /\ lock[t] = "shared" => pc[t] \in Queries
  BY DEF RefineInv, SessionInv, TypeInv, TypeOK, QueryInv
<1>2. Handle(t) \/ Step(t) \/ Fault(t)
  OBVIOUS
<1>3. CASE Refuse(t)
  <2>1. /\ pc[t] = "idle" /\ pc'[t] = "done" /\ status'[t] \in {400, 422}
        /\ db' = db /\ known' = known /\ req' = req
    BY <1>1, <1>3 DEF Refuse, Answer, Goto, ids
  <2>2. StageView(t) = "none"
    BY <2>1, Stages DEF StageTable
  <2>3. Promise!Refuse(t)
    BY <1>1, <1>2, <2>1, <2>2, Refuses DEF Promise!Refusals
  <2> QED
    BY <2>3 DEF Promise!Next
<1>4. ASSUME NEW r \in Requests, Begin(t, r) PROVE Promise!Next
  <2>1. /\ pc[t] = "idle" /\ pc'[t] = FirstStep(r) /\ req'[t] = r /\ r # NoRequest
        /\ db' = db /\ known' = known /\ status' = status /\ lock'[t] # "shared"
    BY <1>1, <1>4 DEF Begin, Accept, Goto, ids, Queries
  <2>2. FirstStep(r) \in Queries
    BY <2>1, RequestKinds DEF FirstStep, Queries
  <2>3. StageView(t) = "none" /\ StageView(t)' = "called"
    BY <2>1, <2>2, Stages DEF StageTable, Waiting, Queried
  <2>4. AnswerView(t)' = AnswerView(t)
    BY <2>1, <2>2 DEF AnswerView, Queries
  <2>5. UNCHANGED Promise!stored
    BY <2>1, StoredStays
  <2>6. AnswersView' = AnswersView
    BY <1>1, <1>2, <2>4, AnswersStay
  <2>7. RequestView' = [RequestView EXCEPT ![t] = Asked(r)]
    <3>1. Asked(req[t])' = Asked(r)
      BY <2>1 DEF Asked
    <3> QED
      BY <1>1, <1>2, <3>1, ViewsMove
  <2>8. StagesView' = [StagesView EXCEPT ![t] = "called"] /\ StagesView[t] = "none"
    <3>1. StagesView[t] = StageView(t)
      BY DEF StagesView
    <3> QED
      BY <1>1, <1>2, <2>3, <3>1, ViewsMove
  <2>9. Promise!Call(t, Asked(r))
    BY <2>5, <2>6, <2>7, <2>8
    DEF Promise!Call, Promise!Enter, RequestView, StagesView, AnswersView
  <2> QED
    BY <2>1, <2>9 DEF Promise!Next
<1> QED
  BY <1>3, <1>4 DEF Handle

\* The first query is the check.
LEMMA QuerySimulation ==
    ASSUME RefineInv, RefineInv', NEW t \in Threads, Query(t)
    PROVE  Promise!Next \/ UNCHANGED Promise!vars
<1>1. /\ lock \in [Threads -> Locks] /\ found \in [Threads -> BOOLEAN]
      /\ SessionInv /\ QueryInv(t) /\ QueryInv(t)' /\ (pc[t] \in Queries => req[t] # NoRequest)
      /\ req[t] \in Requests
  BY DEF RefineInv, SessionInv, TypeInv, TypeOK, SaveInv, LockInv, ControlType
<1>2. Handle(t) \/ Step(t) \/ Fault(t)
  BY DEF Step, Work
<1>3. /\ pc[t] \in Queries /\ pc' = pc /\ req' = req /\ db' = db /\ known' = known
      /\ status' = status /\ lock[t] # "shared" /\ lock'[t] = "shared" /\ found'[t] = HasRow(t)
  BY <1>1 DEF Query, SetLock, ids
<1>4. req[t].name \in Names /\ req[t].kind \in {"create", "login", "update"}
  BY <1>1, <1>3, RequestKinds
<1>5. StageView(t)' = IF GivesUp(req[t].kind, pc[t], HasRow(t)) THEN "failed" ELSE "passed"
  BY <1>3, Stages DEF StageTable, Queried
<1>6. /\ Promise!Registered(req[t].name) <=> Registered(db, req[t].name)
      /\ Promise!Online(req[t].name) <=> Online(db, req[t].name)
  BY <1>1, <1>4, Agree
<1>7. RequestView[t].kind = req[t].kind /\ RequestView[t].name = req[t].name
  BY DEF RequestView, Asked
<1>8. /\ UNCHANGED Promise!stored /\ RequestView' = RequestView /\ AnswersView' = AnswersView
  <2>1. AnswerView(t)' = AnswerView(t)
    BY <1>3 DEF AnswerView, Queries
  <2> QED
    BY <1>1, <1>2, <1>3, <2>1, StoredStays, AnswersStay DEF RequestView, Asked
<1>9. CASE pc[t] = FirstStep(req[t])
  <2>1. StageView(t) = "called"
    BY <1>3, <1>9, Stages DEF StageTable, Waiting, Queried
  <2>2. Promise!Passes(RequestView[t]) <=> ~ GivesUp(req[t].kind, pc[t], HasRow(t))
    BY <1>3, <1>4, <1>6, <1>7, <1>9 DEF Promise!Passes, GivesUp, HasRow, FirstStep
  <2>3. Promise!Check(t)
    BY <1>1, <1>2, <1>5, <1>8, <2>1, <2>2, ViewsMove
    DEF Promise!Check, Promise!Enter, RequestView, StagesView, AnswersView
  <2> QED
    BY <2>3 DEF Promise!Next
<1>10. CASE pc[t] # FirstStep(req[t])
  <2>1. StageView(t) = "passed"
    BY <1>3, <1>10, Stages DEF StageTable, Queried
  <2>2. CASE GivesUp(req[t].kind, pc[t], HasRow(t))
    <3>1. req[t].kind = "login" /\ pc[t] = "user_exists" /\ ~ Registered(db, req[t].name)
      BY <1>1, <1>3, <1>4, <1>10, <2>2 DEF QueryInv, GivesUp, HasRow, FirstStep
    <3>2. StageView(t)' = "failed"
      BY <1>5, <2>2
    <3>3. Promise!Miss(t)
      BY <1>1, <1>2, <1>6, <1>7, <1>8, <3>1, <3>2, ViewsMove
      DEF Promise!Miss, Promise!Enter, RequestView, StagesView, AnswersView
    <3> QED
      BY <2>1, <3>3 DEF Promise!Next
  <2>3. CASE ~ GivesUp(req[t].kind, pc[t], HasRow(t))
    <3>1. StageView(t)' = StageView(t)
      BY <1>5, <2>1, <2>3
    <3> QED
      BY <1>1, <1>2, <1>3, <3>1, Stutters DEF Queries
  <2> QED
    BY <2>2, <2>3
<1> QED
  BY <1>9, <1>10

\* What the handler makes of it is decided already.
LEMMA FinalizeSimulation ==
    ASSUME RefineInv, NEW t \in Threads, Finalize(t)
    PROVE  Promise!Next \/ UNCHANGED Promise!vars
<1>1. /\ pc \in [Threads -> Steps] /\ lock \in [Threads -> Locks]
      /\ status \in [Threads -> {0, 200, 400, 422, 500}]
      /\ SessionInv /\ QueryInv(t) /\ (pc[t] \in Queries => req[t] # NoRequest)
      /\ req[t] \in Requests
  BY DEF RefineInv, SessionInv, TypeInv, TypeOK, SaveInv, LockInv, ControlType
<1>2. Handle(t) \/ Step(t) \/ Fault(t)
  BY DEF Step, Work
<1>3. /\ pc[t] \in Queries /\ req' = req /\ db' = db /\ known' = known
      /\ lock[t] = "shared" /\ lock'[t] = "none"
  BY <1>1 DEF Finalize, SetLock, ids
<1>4. req[t].kind \in {"create", "login", "update"}
  BY <1>1, <1>3, RequestKinds
<1>5. StageView(t) = IF GivesUp(req[t].kind, pc[t], found[t]) THEN "failed" ELSE "passed"
  BY <1>3, Stages DEF StageTable, Queried
<1>6. CASE GivesUp(req[t].kind, pc[t], found[t])
  <2>1. pc'[t] = "done" /\ status'[t] = 400
    BY <1>1, <1>6 DEF Finalize, Answer, Goto
  <2>2. pc[t] # "done"
    BY <1>3 DEF Queries
  <2>3. Promise!Refuse(t)
    BY <1>1, <1>2, <1>3, <1>5, <1>6, <2>1, <2>2, Refuses DEF Promise!Refusals
  <2> QED
    BY <2>3 DEF Promise!Next
<1>7. CASE ~ GivesUp(req[t].kind, pc[t], found[t])
  <2>1. pc'[t] = After(req[t].kind, pc[t]) /\ status' = status
    BY <1>1, <1>7 DEF Finalize, Goto
  <2>2. pc[t] \in QueriesOf(req[t].kind)
    BY <1>1, <1>3 DEF QueryInv
  <2>3. \/ pc'[t] \in {"insert", "begin"}
        \/ pc'[t] \in Queries /\ pc'[t] # FirstStep(req[t])
    BY <1>4, <2>1, <2>2 DEF After, QueriesOf, FirstStep, Queries
  <2>4. StageView(t)' = "passed"
    BY <1>3, <2>3, Stages DEF StageTable, Queried
  <2>5. pc[t] # "done" /\ pc'[t] # "done"
    BY <1>3, <2>3 DEF Queries
  <2> QED
    BY <1>1, <1>2, <1>3, <1>5, <1>7, <2>1, <2>4, <2>5, Stutters
<1> QED
  BY <1>6, <1>7

\* Locks and statements are nobody's business.
LEMMA QuietSimulation ==
    ASSUME RefineInv, NEW t \in Threads,
           Reserve(t) \/ Promote(t) \/ BeginExclusive(t) \/ Login(t) \/ Update(t)
    PROVE  UNCHANGED Promise!vars
<1>1. pc \in [Threads -> Steps] /\ SessionInv
  BY DEF RefineInv, SessionInv, TypeInv, TypeOK
<1>2. Handle(t) \/ Step(t) \/ Fault(t)
  BY DEF Step, Work
<1>3. /\ db' = db /\ known' = known /\ req' = req /\ status' = status
  <2>1. CASE Reserve(t) \/ Promote(t) \/ BeginExclusive(t)
    BY <2>1 DEF Reserve, Promote, BeginExclusive, local, ids
  <2>2. CASE Login(t)
    BY <2>2 DEF Login, GetRadish, GetUpgrades, AddSession, GetSession, Execute, ids
  <2>3. CASE Update(t)
    BY <2>3 DEF Update, SetRadish, SetUpgrade, DropSession, Execute, ids
  <2> QED
    BY <2>1, <2>2, <2>3
<1>4. pc[t] \in Statements \cup {"insert", "begin"}
  BY DEF Reserve, Promote, BeginExclusive, Login, GetRadish, GetUpgrades, AddSession, GetSession,
         Update, SetRadish, SetUpgrade, DropSession, Statements
<1>5. pc'[t] \in Statements \cup {"insert", "begin"}
  <2>1. CASE Reserve(t) \/ Promote(t)
    BY <2>1 DEF Reserve, Promote, local
  <2>2. CASE BeginExclusive(t)
    BY <1>1, <2>2 DEF BeginExclusive, Goto, Statements
  <2>3. CASE Login(t)
    BY <1>1, <2>3 DEF Login, GetRadish, GetUpgrades, AddSession, GetSession, Goto, Statements
  <2>4. CASE Update(t)
    <3>1. \E s \in {"set_upgrade", "drop_session", "commit"} : pc' = [pc EXCEPT ![t] = s]
      BY <2>4 DEF Update, SetRadish, SetUpgrade, DropSession, Goto
    <3> QED
      BY <1>1, <3>1 DEF Statements
  <2> QED
    BY <2>1, <2>2, <2>3, <2>4
<1>6. StageView(t)' = StageView(t)
  BY <1>4, <1>5, Stages DEF StageTable
<1>7. pc[t] # "done" /\ pc'[t] # "done"
  BY <1>4, <1>5 DEF Statements
<1> QED
  BY <1>1, <1>2, <1>3, <1>6, <1>7, Stutters

LEMMA ErrorSimulation ==
    ASSUME RefineInv, NEW t \in Threads, Busy(t) \/ Fault(t)
    PROVE  Promise!Next
<1>1. /\ pc \in [Threads -> Steps] /\ SessionInv
      /\ status \in [Threads -> {0, 200, 400, 422, 500}]
  BY DEF RefineInv, SessionInv, TypeInv, TypeOK
<1>2. Handle(t) \/ Step(t) \/ Fault(t)
  BY DEF Step, Work
<1>3. /\ db' = db /\ known' = known /\ req' = req
      /\ pc[t] \in Queries \cup Statements \cup {"insert", "begin"}
  BY DEF Busy, Fault, QueryFails, StatementFails, InTransaction, ids
<1>4. pc'[t] = "done" /\ status'[t] = 500
  BY <1>1 DEF Busy, Fault, QueryFails, StatementFails, Answer, Goto
<1>5. pc[t] # "done" /\ StageView(t) # "none"
  BY <1>3 DEF StageView, Waiting, Queried, Queries, Statements
<1>6. Promise!Refuse(t)
  BY <1>1, <1>2, <1>3, <1>4, <1>5, Refuses DEF Promise!Refusals
<1> QED
  BY <1>6 DEF Promise!Next

\* A client is told the session that was read for it.
LEMMA RespondSimulation ==
    ASSUME RefineInv, NEW t \in Threads, Respond(t)
    PROVE  Promise!Next
<1>1. /\ pc \in [Threads -> Steps] /\ status \in [Threads -> {0, 200, 400, 422, 500}]
      /\ req \in [Threads -> Requests] /\ data \in [Threads -> GameData]
      /\ SessionInv /\ OwnInv(t)
  BY DEF RefineInv, SessionInv, TypeInv, TypeOK
<1>2. Handle(t) \/ Step(t) \/ Fault(t)
  BY DEF Step, Work
<1>3. /\ pc[t] = "done" /\ pc'[t] = "idle" /\ req'[t] = NoRequest /\ db' = db /\ status'[t] = 0
  BY <1>1 DEF Respond, Goto
<1>4. /\ StageView(t) = "answered" /\ StageView(t)' = "none"
  BY <1>3, Stages DEF StageTable
<1>5. AnswerView(t)' = Promise!NoAnswer
  BY <1>3 DEF AnswerView, Promise!NoAnswer, NoUpgrades
<1>6. UNCHANGED <<AccountView, SessionView>>
  BY <1>3, DatabaseStays
<1>7. {k.number : k \in known'}
         = {k.number : k \in known} \cup ({AnswerView(t).session} \ {NoNumber})
  <2> DEFINE sent == {k \in Told : /\ status[t] = 200
                                   /\ k.number = data[t].sid.number
                                   /\ k.name = req[t].name
                                   /\ k.pass = req[t].pass}
  <2>1. known' = known \cup sent
    BY DEF Respond
  <2>2. AnswerView(t).session = IF status[t] = 200 THEN data[t].sid.number ELSE NoNumber
    BY <1>3 DEF AnswerView
  <2>3. {k.number : k \in sent} = {AnswerView(t).session} \ {NoNumber}
    <3>1. CASE status[t] # 200 \/ data[t].sid.number = NoNumber
      <4>1. sent = {}
        BY <3>1, MaxLoginsAssumption DEF Told, NoNumber
      <4> QED
        BY <2>2, <3>1, <4>1
    <3>2. CASE status[t] = 200 /\ data[t].sid.number # NoNumber
      <4>1. req[t].name \in Names /\ req[t].pass \in Passwords
        BY <1>1, <3>2 DEF OwnInv, NoSid, NoNumber, Requests, NoRequest
      <4>2. data[t].sid.number \in 1 .. MaxLogins
        BY <1>1, <3>2, MaxLoginsAssumption DEF GameData, Sids, SessionId, NoSid, NoNumber
      <4> DEFINE k == [name |-> req[t].name, pass |-> req[t].pass, number |-> data[t].sid.number]
      <4>3. k \in sent
        BY <3>2, <4>1, <4>2 DEF Told
      <4>4. \A l \in sent : l.number = data[t].sid.number
        OBVIOUS
      <4> HIDE DEF sent
      <4> QED
        BY <2>2, <3>2, <4>3, <4>4
    <3> QED
      BY <3>1, <3>2
  <2> HIDE DEF sent
  <2> QED
    BY <2>1, <2>3
<1>8. Promise!Return(t)
  <2>1. /\ StagesView[t] = "answered" /\ AnswersView[t].session = AnswerView(t).session
        /\ Asked(req[t])' = Asked(NoRequest)
    BY <1>3, <1>4 DEF StagesView, AnswersView, Asked
  <2>2. /\ RequestView' = [RequestView EXCEPT ![t] = Asked(NoRequest)]
        /\ StagesView' = [StagesView EXCEPT ![t] = "none"]
        /\ AnswersView' = [AnswersView EXCEPT ![t] = Promise!NoAnswer]
    BY <1>1, <1>2, <1>4, <1>5, <2>1, ViewsMove
  <2> QED
    BY <1>6, <1>7, <2>1, <2>2
    DEF Promise!Return, Promise!Enter, RequestView, StagesView, AnswersView
<1> QED
  BY <1>8 DEF Promise!Next

LEMMA CrashSimulation ==
    ASSUME RefineInv, Crash
    PROVE  Promise!Next
<1>1. UNCHANGED Promise!stored
  BY StoredStays DEF Crash, ids
<1>2. ASSUME NEW t \in Threads
      PROVE  Asked(req[t])' = Asked(NoRequest) /\ StageView(t)' = "none" /\ AnswerView(t)' = Promise!NoAnswer
  <2>1. req'[t] = NoRequest /\ pc'[t] = "idle" /\ status'[t] = 0
    BY DEF Crash
  <2>2. AnswerView(t)' = Promise!NoAnswer
    BY <2>1 DEF AnswerView, Promise!NoAnswer, NoUpgrades
  <2> QED
    BY <2>1, <2>2, Stages DEF StageTable, Asked
<1>3. Promise!Crash
  BY <1>1, <1>2 DEF Promise!Crash
<1> QED
  BY <1>3 DEF Promise!Next

LEMMA SidByNumber == \A r, s \in Sids : r.number = s.number => r = s
  BY DEF Sids, SessionId

\* Requests that come to their end.
LEMMA Answers ==
    ASSUME SessionInv, NEW t \in Threads, Handle(t) \/ Step(t) \/ Fault(t),
           req' = req, known' = known, StageView(t)' = "answered"
    PROVE  Promise!Answer(t, AnswerView(t)')
<1>1. RequestView' = RequestView
  BY DEF RequestView, Asked
<1>2. /\ StagesView' = [StagesView EXCEPT ![t] = "answered"]
      /\ AnswersView' = [AnswersView EXCEPT ![t] = AnswerView(t)']
  BY ViewsMove
<1> QED
  BY <1>1, <1>2 DEF Promise!Answer, Promise!Enter, RequestView, StagesView, AnswersView

\* A session in the table that neither a client nor a user has.
LEMMA FreshNumber ==
    ASSUME SessionInv, NEW i \in Uids, NEW sid \in Sids, InTable(i, sid),
           \A l \in known : l.number # sid.number,
           \A n \in Names : Online(db, n) => db.session[db.uid[n]] # sid,
           \A u \in Threads : pc[u] = "done" => data[u].sid.number # sid.number
    PROVE  sid.number \in 1 .. MaxLogins /\ Promise!Fresh(sid.number)
<1>1. TypeOK /\ issued \in 0 .. MaxLogins /\ db \in Databases
  BY DEF SessionInv, TypeInv, TypeOK
<1>2. 0 < sid.number /\ sid.number <= issued
  BY DEF SessionInv, TableInv
<1>3. sid.number \in 1 .. MaxLogins /\ sid.number # NoNumber
  BY <1>1, <1>2, MaxLoginsAssumption DEF Sids, SessionId, NoNumber
<1>4. ASSUME NEW n \in Names PROVE SessionView[n] # sid.number
  <2>1. CASE Online(db, n)
    <3>1. db.session[db.uid[n]] \in Sids
      BY <1>1, <2>1 DEF Databases, Online, Registered
    <3>2. db.session[db.uid[n]].number # sid.number
      BY <2>1, <3>1, SidByNumber
    <3> QED
      BY <2>1, <3>2 DEF SessionView
  <2>2. CASE ~ Online(db, n)
    BY <1>3, <2>2 DEF SessionView
  <2> QED
    BY <2>1, <2>2
<1>5. ASSUME NEW u \in Threads PROVE AnswersView[u].session # sid.number
  BY <1>3 DEF AnswersView, AnswerView
<1>6. sid.number \notin {k.number : k \in known}
  OBVIOUS
<1> QED
  BY <1>3, <1>4, <1>5, <1>6 DEF Promise!Fresh, AnswersView

LEMMA InsertSimulation ==
    ASSUME RefineInv, NEW t \in Threads, InsertUser(t)
    PROVE  Promise!Next
<1> DEFINE n == req[t].name
           p == req[t].pass
<1>1. /\ pc \in [Threads -> Steps] /\ status \in [Threads -> {0, 200, 400, 422, 500}]
      /\ db \in Databases /\ db \in Shape /\ SessionInv /\ SaveInv /\ AccountInv /\ Place(t) /\ FreshInv(t)
  BY DEF RefineInv, SessionInv, TypeInv, TypeOK, SaveInv, Data
<1>2. Handle(t) \/ Step(t) \/ Fault(t)
  BY DEF Step, Work
<1>3. /\ pc[t] = "insert" /\ pc'[t] = "done" /\ status'[t] = 200 /\ req' = req /\ known' = known
      /\ data' = data /\ db' = WithUser(db, n, p) /\ req[t].kind = "create"
  BY <1>1 DEF InsertUser, Answer, Goto, ids, Place
<1>4. n \in Names /\ p \in Passwords
  BY <1>3, LoginRequest DEF SessionInv, TypeInv, TypeOK, RefineInv
<1>5. /\ StageView(t) = "passed" /\ StageView(t)' = "answered"
  BY <1>3, Stages DEF StageTable
<1>6. data[t] = FreshGameData
  BY <1>1, <1>3 DEF FreshInv
<1>7. AnswerView(t)' = [Promise!NoAnswer EXCEPT !.status = 200]
  BY <1>3, <1>6 DEF AnswerView, Promise!NoAnswer, NoUpgrades, FreshGameData, NoSid, NoNumber
<1>8. RequestView' = RequestView /\ RequestView[t].kind = "create" /\ RequestView[t].name = n
      /\ RequestView[t].pass = p
  BY <1>3 DEF RequestView, Asked
<1>9. Promise!Succeed(t)
  BY <1>1, <1>2, <1>3, <1>5, <1>7, Answers DEF Promise!Succeed
<1>10. Promise!Registered(n) <=> Registered(db, n)
  BY <1>1, <1>4, Agree
<1>11. CASE Registered(db, n)
  <2>1. UNCHANGED <<AccountView, SessionView>>
    BY <1>3, <1>11, DatabaseStays DEF WithUser
  <2>2. Promise!Create(t)
    BY <1>8, <1>9, <1>10, <1>11, <2>1 DEF Promise!Create, RequestView
  <2> QED
    BY <1>5, <2>2 DEF Promise!Next, Promise!Serve, StagesView
<1>12. CASE ~ Registered(db, n)
  <2> DEFINE new == NextUid(db)
  <2>1. new \in Uids /\ new # 0
    BY <1>1, <1>4, <1>12, NextUidType, NamesAssumption, MaxLoginsAssumption, FS_CardinalityType DEF Uids
  <2> HIDE DEF new
  <2>2. db' = [db EXCEPT !.uid[n] = new, !.pass[n] = p]
    BY <1>3, <1>12 DEF WithUser, new
  <2>3. /\ db'.uid[n] = new /\ db'.pass[n] = p
        /\ \A m \in Names \ {n} : db'.uid[m] = db.uid[m] /\ db'.pass[m] = db.pass[m]
        /\ db'.radish = db.radish /\ db'.upgrades = db.upgrades /\ db'.session = db.session
    BY <1>1, <1>4, <2>2 DEF Shape
  <2>4. \A m \in Names \ {n} : /\ Registered(db, m)' = Registered(db, m)
                               /\ Online(db, m)' = Online(db, m)
    BY <2>3 DEF Registered, Online
  <2>5. AccountView' = [AccountView EXCEPT ![n] = Promise!NewAccount(p)]
    <3>1. \A m \in Names \ {n} : AccountView'[m] = AccountView[m]
      BY <2>3, <2>4 DEF AccountView
    <3>2. db.radish[n] = 0 /\ db.upgrades[n] = NoUpgrades
      BY <1>4, <1>12 DEF RefineInv, BlankInv
    <3>3. AccountView'[n] = Promise!NewAccount(p)
      BY <1>4, <2>1, <2>3, <3>2 DEF AccountView, Registered, Promise!NewAccount, NoUpgrades
    <3> QED
      BY <3>1, <3>3 DEF AccountView
  <2>6. PICK k : k = SessionView'[n]
    OBVIOUS
  <2>7. SessionView' = [SessionView EXCEPT ![n] = k]
    <3>1. \A m \in Names \ {n} : SessionView'[m] = SessionView[m]
      BY <2>3, <2>4 DEF SessionView
    <3> QED
      BY <2>6, <3>1 DEF SessionView
  <2>8. k \in (1 .. MaxLogins) \cup {NoNumber} /\ (k # NoNumber => Promise!Fresh(k))
    <3> DEFINE sid == db.session[new]
    <3>1. k = IF sid # NoSid THEN sid.number ELSE NoNumber
      BY <1>4, <2>1, <2>3, <2>6 DEF SessionView, Online, Registered
    <3>2. CASE sid = NoSid
      BY <3>1, <3>2
    <3>3. CASE sid # NoSid
      <4>1. sid \in Sids /\ InTable(new, sid)
        BY <1>1, <2>1, <3>3 DEF Databases, InTable
      <4>2. ASSUME NEW m \in Names PROVE Registered(db, m) => db.uid[m] # new
        <5>1. db.uid[m] < new /\ new \in Int
          BY <1>1, <2>1 DEF AccountInv, Uids, new
        <5> QED
          BY <5>1
      <4>3. ASSUME NEW l \in known, l.number = sid.number PROVE FALSE
        <5>1. l.name \in Names /\ Belongs(SessionId(l.number), l.name, l.pass)
          BY <1>1 DEF SessionInv, KnownInv, TypeInv, TypeOK, Told
        <5>2. SessionId(l.number) = sid
          BY <4>1, <4>3 DEF Sids, SessionId
        <5> QED
          BY <2>1, <4>1, <4>2, <5>1, <5>2 DEF Belongs, Matches
      <4>4. ASSUME NEW u \in Threads, data[u].sid.number = sid.number PROVE FALSE
        <5>1. data[u].sid \in Sids \cup {NoSid}
          BY <1>1 DEF SessionInv, TypeInv, TypeOK, GameData
        <5>2. data[u].sid = sid
          <6>1. 0 < sid.number
            BY <1>1, <2>1, <4>1 DEF SessionInv, TableInv
          <6> QED
            BY <4>1, <4>4, <5>1, <6>1, SidByNumber DEF NoSid
        <5>3. req[u].name \in Names /\ Belongs(sid, req[u].name, req[u].pass)
          BY <1>1, <3>3, <5>2 DEF SessionInv, OwnInv
        <5> QED
          BY <2>1, <4>1, <4>2, <5>3 DEF Belongs, Matches
      <4>5. ASSUME NEW m \in Names, Online(db, m), db.session[db.uid[m]] = sid PROVE FALSE
        <5>1. db.uid[m] \in Uids /\ InTable(db.uid[m], sid)
          BY <1>1, <4>5 DEF Databases, Online, Registered, InTable
        <5>2. db.uid[m] = new
          BY <1>1, <2>1, <4>1, <5>1 DEF SessionInv, TableInv
        <5> QED
          BY <4>2, <4>5, <5>2 DEF Online
      <4> QED
        BY <1>1, <2>1, <3>1, <3>3, <4>1, <4>3, <4>4, <4>5, FreshNumber
    <3> QED
      BY <3>2, <3>3
  <2>9. Promise!Create(t)
    BY <1>8, <1>9, <1>10, <1>12, <2>5, <2>7, <2>8 DEF Promise!Create, RequestView
  <2> QED
    BY <1>5, <2>9 DEF Promise!Next, Promise!Serve, StagesView
<1> QED
  BY <1>11, <1>12

\* What a COMMIT changes for user m.
LEMMA CommitViews ==
    ASSUME RefineInv, NEW t \in Threads, Commit(t), NEW m \in Names
    PROVE  /\ SameProgress(m) => AccountView'[m] = AccountView[m]
           /\ ~ (Registered(db, m) /\ Changed(db.uid[m])) => SessionView'[m] = SessionView[m]
           /\ Registered(db, m) => SessionView'[m] = work.session[db.uid[m]].number
<1>1. db' = work /\ work.uid = db.uid /\ work.pass = db.pass /\ db \in Shape /\ work \in Shape
  BY DEF Commit, RefineInv, SessionInv, AccountInv, SaveInv, Data
<1>2. Registered(db, m)' = Registered(db, m)
  BY <1>1 DEF Registered
<1>3. SameProgress(m) => AccountView'[m] = AccountView[m]
  BY <1>1, <1>2 DEF AccountView, SameProgress, Progress
<1>4. SessionView'[m] = IF Registered(db, m) /\ work.session[db.uid[m]] # NoSid
                        THEN work.session[db.uid[m]].number ELSE NoNumber
  BY <1>1 DEF SessionView, Online, Registered
<1>5. SessionView[m] = IF Registered(db, m) /\ db.session[db.uid[m]] # NoSid
                       THEN db.session[db.uid[m]].number ELSE NoNumber
  BY DEF SessionView, Online
<1>6. NoSid.number = NoNumber
  BY DEF NoSid, NoNumber
<1> QED
  BY <1>3, <1>4, <1>5, <1>6 DEF Changed

\* A row that a login has added makes its session fresh for all but itself.
LEMMA AddedIsFresh ==
    ASSUME RefineInv, NEW t \in Threads, Commit(t), req[t].kind = "login",
           NEW i \in Uids, Changed(i)
    PROVE  /\ work.session[i].number \in 1 .. MaxLogins
           /\ Promise!Fresh(work.session[i].number)
           /\ db.session[i] = NoSid
<1>1. SessionInv /\ RowInv(t) /\ pc[t] = "commit" /\ InTransaction(t) /\ work \in Databases /\ db \in Databases
  BY DEF RefineInv, Commit, InTransaction, Statements, SessionInv, TypeInv, TypeOK
<1>2. db.session[i] = NoSid /\ Unseen(t, work.session[i].number)
  BY <1>1 DEF RowInv
<1>3. work.session[i] \in Sids /\ InTable(i, work.session[i])
  BY <1>1, <1>2 DEF Changed, Databases, InTable
<1>4. ASSUME NEW m \in Names, Online(db, m), db.session[db.uid[m]] = work.session[i] PROVE FALSE
  <2>1. db.uid[m] \in Uids /\ InTable(db.uid[m], work.session[i])
    BY <1>1, <1>4 DEF Databases, Online, Registered, InTable
  <2>2. db.uid[m] = i
    BY <1>1, <1>3, <2>1 DEF SessionInv, TableInv
  <2> QED
    BY <1>2, <1>4, <2>2 DEF Online
<1>5. \A u \in Threads : pc[u] = "done" => data[u].sid.number # work.session[i].number
  BY <1>1, <1>2 DEF Unseen
<1>6. \A l \in known : l.number # work.session[i].number
  BY <1>2 DEF Unseen
<1> QED
  BY <1>1, <1>2, <1>3, <1>4, <1>5, <1>6, FreshNumber

LEMMA LoginSimulation ==
    ASSUME RefineInv, NEW t \in Threads, Commit(t), req[t].kind = "login",
           Matches(db, req[t].name, req[t].pass)
    PROVE  Promise!Next
<1> DEFINE n == req[t].name
           uid == db.uid[n]
           k == data[t].sid.number
<1>1. /\ pc \in [Threads -> Steps] /\ status \in [Threads -> {0, 200, 400, 422, 500}]
      /\ req \in [Threads -> Requests] /\ db \in Databases /\ work.uid = db.uid /\ work.pass = db.pass
      /\ SessionInv /\ SaveInv /\ AccountInv /\ RowInv(t) /\ OpenInv(t) /\ ReadInv(t)
  BY DEF RefineInv, SessionInv, TypeInv, TypeOK, AccountInv
<1>2. Handle(t) \/ Step(t) \/ Fault(t)
  BY DEF Step, Work
<1>3. /\ pc[t] = "commit" /\ pc'[t] = "done" /\ status'[t] = 200 /\ req' = req /\ known' = known
      /\ data' = data /\ InTransaction(t)
  BY <1>1 DEF Commit, Answer, Goto, ids, InTransaction, Statements
<1>4. n \in Names
  BY <1>1, LoginRequest
<1>5. StageView(t) = "passed" /\ StageView(t)' = "answered"
  BY <1>3, Stages DEF StageTable, Statements
<1>6. /\ Registered(db, n) /\ uid \in Uids /\ Matches(work, n, req[t].pass)
      /\ db.pass[n] = req[t].pass
  BY <1>1, <1>4 DEF Matches, Registered, Databases
<1>7. Holds(work, n, data[t].sid) /\ work.session[uid] = data[t].sid /\ data[t].sid # NoSid
  BY <1>1, <1>3, <1>6 DEF OpenInv, Holds, Online
<1>8. \A m \in Names : SameProgress(m)
  BY <1>1, <1>3 DEF SaveInv, Partial
<1>9. data[t].radish = db.radish[n] /\ data[t].upgrades = db.upgrades[n]
  <2>1. data[t].radish = work.radish[n] /\ data[t].upgrades = work.upgrades[n]
    BY <1>1, <1>3, <1>6 DEF ReadInv
  <2>2. SameProgress(n)
    BY <1>4, <1>8, Zenon
  <2>3. work.radish[n] = db.radish[n] /\ work.upgrades[n] = db.upgrades[n]
    BY <2>2 DEF SameProgress, Progress
  <2> QED
    BY <2>1, <2>3, Zenon
<1>10. AccountView' = AccountView
  BY <1>8, CommitViews DEF AccountView
<1>11. AccountView[n] = [pass |-> db.pass[n], radish |-> db.radish[n], upgrades |-> db.upgrades[n]]
  BY <1>4, <1>6 DEF AccountView
<1>12. SessionView' = [SessionView EXCEPT ![n] = k]
  <2>1. SessionView'[n] = k
    BY <1>4, <1>6, <1>7, CommitViews
  <2>2. ASSUME NEW m \in Names \ {n} PROVE SessionView'[m] = SessionView[m]
    <3>1. ASSUME Registered(db, m), Changed(db.uid[m]) PROVE FALSE
      <4>1. db.uid[m] \in Uids
        BY <1>1, <3>1 DEF Registered, Databases
      <4>2. db.uid[m] = uid
        BY <1>1, <1>3, <3>1, <4>1 DEF RowInv
      <4> QED
        BY <1>1, <1>4, <1>6, <4>2 DEF AccountInv
    <3> QED
      BY <3>1, CommitViews
  <2> QED
    BY <2>1, <2>2 DEF SessionView
<1>13. k \in 1 .. MaxLogins /\ IF Promise!Online(n) THEN k = SessionView[n] ELSE Promise!Fresh(k)
  <2>1. Promise!Online(n) <=> Online(db, n)
    BY <1>1, <1>4, Agree
  <2>2. CASE Changed(uid)
    <3>1. ~ Online(db, n)
      BY <1>6, <2>2, AddedIsFresh DEF Online
    <3> QED
      BY <1>6, <1>7, <2>1, <2>2, <3>1, AddedIsFresh
  <2>3. CASE ~ Changed(uid)
    <3>1. db.session[uid] = data[t].sid
      BY <1>7, <2>3 DEF Changed
    <3>2. Online(db, n) /\ SessionView[n] = k
      BY <1>4, <1>6, <1>7, <3>1 DEF Online, SessionView
    <3>3. data[t].sid \in Sids /\ InTable(uid, data[t].sid)
      BY <1>1, <1>6, <1>7, <3>1 DEF Databases, InTable
    <3>4. 0 < k /\ k <= issued
      BY <1>1, <1>6, <3>3 DEF SessionInv, TableInv
    <3>5. k \in Nat /\ issued \in 0 .. MaxLogins
      BY <1>1, <3>3, MaxLoginsAssumption DEF Sids, SessionId, SessionInv, TypeInv, TypeOK
    <3> QED
      BY <2>1, <3>2, <3>4, <3>5, MaxLoginsAssumption
  <2> QED
    BY <2>2, <2>3
<1>14. AnswerView(t)' = [status |-> 200, session |-> k, radish |-> db.radish[n],
                         upgrades |-> db.upgrades[n]]
  BY <1>3, <1>9 DEF AnswerView
<1>15. Promise!Answer(t, [status |-> 200, session |-> k, radish |-> AccountView[n].radish,
                          upgrades |-> AccountView[n].upgrades])
  BY <1>1, <1>2, <1>3, <1>5, <1>11, <1>14, Answers
<1>16. RequestView[t] = Asked(req[t]) /\ StagesView[t] = "passed"
  BY <1>5 DEF RequestView, StagesView
<1>17. Promise!Login(t)
  <2>1. /\ RequestView[t].kind = "login" /\ RequestView[t].name = n
        /\ RequestView[t].pass = req[t].pass
    BY <1>16 DEF Asked
  <2>2. Promise!Registered(n) /\ AccountView[n].pass = req[t].pass
    BY <1>1, <1>4, <1>6, <1>11, Agree
  <2> HIDE DEF n, k
  <2> QED
    BY <1>10, <1>12, <1>13, <1>15, <2>1, <2>2 DEF Promise!Login, RequestView
<1> QED
  BY <1>16, <1>17 DEF Promise!Next, Promise!Serve, StagesView

LEMMA WrongPasswordSimulation ==
    ASSUME RefineInv, NEW t \in Threads, Commit(t), req[t].kind = "login",
           ~ Matches(db, req[t].name, req[t].pass)
    PROVE  Promise!Next
<1> DEFINE n == req[t].name
<1>1. /\ pc \in [Threads -> Steps] /\ status \in [Threads -> {0, 200, 400, 422, 500}]
      /\ req \in [Threads -> Requests] /\ db \in Databases /\ work.uid = db.uid /\ work.pass = db.pass
      /\ SessionInv /\ SaveInv /\ AccountInv /\ RowInv(t) /\ FreshInv(t) /\ QueryInv(t)
  BY DEF RefineInv, SessionInv, TypeInv, TypeOK, AccountInv
<1>2. Handle(t) \/ Step(t) \/ Fault(t)
  BY DEF Step, Work
<1>3. /\ pc[t] = "commit" /\ pc'[t] = "done" /\ status'[t] = 200 /\ req' = req /\ known' = known
      /\ data' = data /\ InTransaction(t)
  BY <1>1 DEF Commit, Answer, Goto, ids, InTransaction, Statements
<1>4. n \in Names
  BY <1>1, LoginRequest
<1>5. StageView(t) = "passed" /\ StageView(t)' = "answered"
  BY <1>3, Stages DEF StageTable, Statements
<1>6. Registered(db, n) /\ db.pass[n] # req[t].pass
  BY <1>1, <1>3 DEF QueryInv, Statements, Matches
<1>7. data[t] = FreshGameData
  BY <1>1, <1>3 DEF FreshInv, Matches, Registered
<1>8. AnswerView(t)' = [Promise!NoAnswer EXCEPT !.status = 200]
  BY <1>3, <1>7 DEF AnswerView, Promise!NoAnswer, NoUpgrades, FreshGameData, NoSid, NoNumber
<1>9. Promise!Succeed(t)
  BY <1>1, <1>2, <1>3, <1>5, <1>8, Answers DEF Promise!Succeed
<1>10. AccountView' = AccountView
  <2>1. \A m \in Names : SameProgress(m)
    BY <1>1, <1>3 DEF SaveInv, Partial
  <2> QED
    BY <2>1, CommitViews DEF AccountView
<1>11. \/ UNCHANGED SessionView
       \/ \E m \in Names, k \in 1 .. MaxLogins :
            /\ Promise!Registered(m) /\ ~ Promise!Online(m) /\ Promise!Fresh(k)
            /\ SessionView' = [SessionView EXCEPT ![m] = k]
  <2>1. CASE \A m \in Names : ~ (Registered(db, m) /\ Changed(db.uid[m]))
    BY <2>1, CommitViews DEF SessionView
  <2>2. ASSUME NEW m \in Names, Registered(db, m), Changed(db.uid[m])
        PROVE  \E k \in 1 .. MaxLogins :
                 /\ Promise!Registered(m) /\ ~ Promise!Online(m) /\ Promise!Fresh(k)
                 /\ SessionView' = [SessionView EXCEPT ![m] = k]
    <3>1. db.uid[m] \in Uids
      BY <1>1, <2>2 DEF Registered, Databases
    <3>2. PICK k : k = work.session[db.uid[m]].number
      OBVIOUS
    <3>3. k \in 1 .. MaxLogins /\ Promise!Fresh(k) /\ ~ Online(db, m)
      BY <2>2, <3>1, <3>2, AddedIsFresh DEF Online
    <3>4. SessionView'[m] = k
      BY <2>2, <3>2, CommitViews
    <3>5. ASSUME NEW l \in Names \ {m} PROVE SessionView'[l] = SessionView[l]
      <4>1. ASSUME Registered(db, l), Changed(db.uid[l]) PROVE FALSE
        <5>1. db.uid[l] \in Uids
          BY <1>1, <4>1 DEF Registered, Databases
        <5>2. db.uid[l] = db.uid[m]
          BY <1>1, <1>3, <2>2, <3>1, <4>1, <5>1 DEF RowInv
        <5> QED
          BY <1>1, <2>2, <5>2 DEF AccountInv
      <4> QED
        BY <4>1, CommitViews
    <3>6. SessionView' = [SessionView EXCEPT ![m] = k]
      BY <3>4, <3>5 DEF SessionView
    <3> QED
      BY <1>1, <2>2, <3>3, <3>6, Agree
  <2> QED
    BY <2>1, <2>2
<1>12. RequestView[t] = Asked(req[t]) /\ StagesView[t] = "passed"
  BY <1>5 DEF RequestView, StagesView
<1>13. Promise!LoginWithWrongPassword(t)
  <2>1. /\ RequestView[t].kind = "login" /\ RequestView[t].name = n
        /\ RequestView[t].pass = req[t].pass
    BY <1>12 DEF Asked
  <2>2. Promise!Registered(n) /\ AccountView[n].pass # req[t].pass
    BY <1>1, <1>4, <1>6, Agree DEF AccountView
  <2> HIDE DEF n
  <2> QED
    BY <1>9, <1>10, <1>11, <2>1, <2>2 DEF Promise!LoginWithWrongPassword, RequestView
<1> QED
  BY <1>12, <1>13 DEF Promise!Next, Promise!Serve, StagesView

LEMMA UpdateSimulation ==
    ASSUME RefineInv, NEW t \in Threads, Commit(t), req[t].kind = "update"
    PROVE  Promise!Next
<1> DEFINE n == req[t].name
           save == req[t].save
           sid == req[t].sid
<1>1. /\ pc \in [Threads -> Steps] /\ status \in [Threads -> {0, 200, 400, 422, 500}]
      /\ req \in [Threads -> Requests] /\ db \in Databases /\ work.uid = db.uid /\ work.pass = db.pass
      /\ SessionInv /\ SaveInv /\ AccountInv /\ RowInv(t) /\ FreshInv(t)
  BY DEF RefineInv, SessionInv, TypeInv, TypeOK, AccountInv
<1>2. Handle(t) \/ Step(t) \/ Fault(t)
  BY DEF Step, Work
<1>3. /\ pc[t] = "commit" /\ pc'[t] = "done" /\ status'[t] = 200 /\ req' = req /\ known' = known
      /\ data' = data /\ db' = work /\ InTransaction(t)
  BY <1>1 DEF Commit, Answer, Goto, ids, InTransaction, Statements
<1>4. n \in Names /\ sid \in Sids /\ save \in Saves
  BY <1>1 DEF Requests, NoRequest
<1>5. StageView(t) = "passed" /\ StageView(t)' = "answered"
  BY <1>3, Stages DEF StageTable, Statements
<1>6. data[t] = FreshGameData
  BY <1>1, <1>3 DEF FreshInv
<1>7. AnswerView(t)' = [Promise!NoAnswer EXCEPT !.status = 200]
  BY <1>3, <1>6 DEF AnswerView, Promise!NoAnswer, NoUpgrades, FreshGameData, NoSid, NoNumber
<1>8. Promise!Succeed(t)
  BY <1>1, <1>2, <1>3, <1>5, <1>7, Answers DEF Promise!Succeed
<1>9. Partial(t) /\ \A m \in Names \ {n} : SameProgress(m)
  BY <1>1, <1>3 DEF SaveInv, Partial
<1>10. /\ RequestView[t].kind = "update" /\ RequestView[t].name = n
       /\ RequestView[t].session = sid.number /\ RequestView[t].save = save
  BY DEF RequestView, Asked
<1>11. Holds(db, n, sid) <=> Promise!Online(n) /\ SessionView[n] = sid.number
  <2>1. Promise!Online(n) <=> Online(db, n)
    BY <1>1, <1>4, Agree
  <2>2. Online(db, n) => SessionView[n] = db.session[db.uid[n]].number /\ db.session[db.uid[n]] \in Sids
    BY <1>1, <1>4 DEF SessionView, Databases, Online, Registered
  <2> QED
    BY <1>4, <2>1, <2>2, SidByNumber DEF Holds
<1>12. CASE ~ Holds(db, n, sid)
  <2>1. \A m \in Names : SameProgress(m)
    BY <1>1, <1>3, <1>9, <1>12 DEF Partial, Saved
  <2>2. ASSUME NEW m \in Names, Registered(db, m), Changed(db.uid[m]) PROVE FALSE
    BY <1>1, <1>3, <1>12, <2>2 DEF RowInv, Registered, Databases
  <2>3. UNCHANGED <<AccountView, SessionView>>
    BY <2>1, <2>2, CommitViews DEF AccountView, SessionView
  <2> HIDE DEF n, save, sid
  <2> QED
    BY <1>5, <1>8, <1>10, <1>11, <1>12, <2>3
    DEF Promise!Update, Promise!Next, Promise!Serve, RequestView, StagesView
<1>13. CASE Holds(db, n, sid)
  <2>1. Progress(work, n) = MergeBut(Progress(db, n), save, {}) /\ ~ Online(work, n)
    BY <1>3, <1>9, <1>13 DEF Partial, Saved
  <2>2. Registered(db, n) /\ Registered(db, n)'
    BY <1>1, <1>3, <1>13 DEF Holds, Online, Registered
  <2>3. AccountView'[n] = Promise!Stored(AccountView[n], save)
    <3>1. AccountView[n] = [pass |-> db.pass[n], radish |-> db.radish[n],
                            upgrades |-> db.upgrades[n]]
      BY <1>4, <2>2 DEF AccountView
    <3>2. AccountView'[n] = [pass |-> work.pass[n], radish |-> work.radish[n],
                             upgrades |-> work.upgrades[n]]
      BY <1>3, <1>4, <2>2 DEF AccountView
    <3>3. work.radish[n] = save.radish /\ work.pass[n] = db.pass[n]
      BY <1>1, <2>1 DEF Progress, MergeBut
    <3>4. work.upgrades[n] = [u \in Types |-> IF u \in Mentioned(save) THEN save.upgrades[u]
                                                                  ELSE db.upgrades[n][u]]
      BY <2>1 DEF Progress, MergeBut
    <3>5. \A u \in Types : u \in Mentioned(save) <=> save.upgrades[u] # NotMentioned
      BY DEF Mentioned
    <3>6. work.upgrades[n] = [u \in Types |-> IF save.upgrades[u] = NotMentioned
                                              THEN db.upgrades[n][u] ELSE save.upgrades[u]]
      BY <3>4, <3>5
    <3>7. AccountView[n].pass = db.pass[n] /\ AccountView[n].upgrades = db.upgrades[n]
      BY <3>1
    <3>8. AccountView'[n] = [pass |-> db.pass[n], radish |-> save.radish,
                             upgrades |-> work.upgrades[n]]
      BY <3>2, <3>3, Zenon
    <3> QED
      BY <3>6, <3>7, <3>8, Zenon DEF Promise!Stored
  <2>4. AccountView' = [AccountView EXCEPT ![n] = Promise!Stored(@, save)]
    <3>1. \A m \in Names \ {n} : AccountView'[m] = AccountView[m]
      BY <1>9, CommitViews
    <3>2. PICK a : a = Promise!Stored(AccountView[n], save)
      OBVIOUS
    <3>3. /\ AccountView = [m \in Names |-> AccountView[m]]
          /\ AccountView' = [m \in Names |-> AccountView'[m]]
      BY DEF AccountView
    <3>4. AccountView'[n] = a
      BY <2>3, <3>2
    <3>5. AccountView' = [AccountView EXCEPT ![n] = a]
      BY <3>1, <3>3, <3>4
    <3> QED
      BY <3>2, <3>5
  <2>5. SessionView' = [SessionView EXCEPT ![n] = NoNumber]
    <3>1. SessionView'[n] = NoNumber
      BY <1>3, <1>4, <2>1 DEF SessionView, Online, Registered
    <3>2. ASSUME NEW m \in Names \ {n} PROVE SessionView'[m] = SessionView[m]
      <4>1. ASSUME Registered(db, m), Changed(db.uid[m]) PROVE FALSE
        <5>1. db.uid[m] \in Uids
          BY <1>1, <4>1 DEF Registered, Databases
        <5>2. db.uid[m] = db.uid[n]
          BY <1>1, <1>3, <4>1, <5>1 DEF RowInv
        <5> QED
          BY <1>1, <1>4, <2>2, <5>2 DEF AccountInv
      <4> QED
        BY <4>1, CommitViews
    <3> QED
      BY <3>1, <3>2 DEF SessionView
  <2> HIDE DEF n, save, sid
  <2> QED
    BY <1>5, <1>8, <1>10, <1>11, <1>13, <2>4, <2>5
    DEF Promise!Update, Promise!Next, Promise!Serve, RequestView, StagesView
<1> QED
  BY <1>12, <1>13

LEMMA CommitSimulation ==
    ASSUME RefineInv, NEW t \in Threads, Commit(t)
    PROVE  Promise!Next
<1>1. req[t].kind \in {"login", "update"}
  BY DEF Commit, RefineInv, SessionInv, SaveInv, Place
<1> QED
  BY <1>1, LoginSimulation, WrongPasswordSimulation, UpdateSimulation

LEMMA Simulation ==
    ASSUME RefineInv, RefineInv', [Next]_vars
    PROVE  [Promise!Next]_(Promise!vars)
<1>1. CASE UNCHANGED vars
  <2>1. UNCHANGED Promise!stored
    BY <1>1, StoredStays DEF vars, ids
  <2>2. \A t \in Threads : View(t)' = View(t)
    BY <1>1, ViewStays DEF vars, local
  <2> QED
    BY <2>1, <2>2 DEF View, Promise!vars
<1>2. CASE Crash
  BY <1>2, CrashSimulation
<1>3. ASSUME NEW t \in Threads, Handle(t) \/ Step(t) \/ Fault(t)
      PROVE  [Promise!Next]_(Promise!vars)
  BY <1>3, HandleSimulation, QuerySimulation, FinalizeSimulation, QuietSimulation, InsertSimulation,
     CommitSimulation, ErrorSimulation, RespondSimulation DEF Step, Work
<1> QED
  BY <1>1, <1>2, <1>3 DEF Next

\* Requests that overlap, fail halfway or die with the process are, to their
\* clients, checks and effects in one step each on accounts and sessions
\* (game_request_handler.cc:160-532): GameStore implements Game.
THEOREM AtomicGameTheorem == Spec => AtomicGame
  BY SimulationInit, Simulation, RefineCorrect, PTL DEF Spec, AtomicGame, Promise!Spec
=============================================================================
