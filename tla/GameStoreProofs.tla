-------------------------- MODULE GameStoreProofs --------------------------
(***************************************************************************)
(* What SQLite's locks and transactions do for the game, for any number of *)
(* threads, users, passwords, upgrades and saves.                          *)
(*                                                                         *)
(* LockInv: a transaction runs under EXCLUSIVE, and who holds it holds it  *)
(* alone.  SaveInv, on top of it: how much of its save a transaction has   *)
(* put into work, statement by statement, and that work is db when there   *)
(* is neither a transaction nor what an exception left of one.             *)
(***************************************************************************)
EXTENDS GameStore, FiniteSetTheorems, TLAPS

ControlType ==
    /\ pc \in [Threads -> Steps]
    /\ req \in [Threads -> Requests]
    /\ lock \in [Threads -> Locks]
    /\ \A t \in Threads : pc[t] \in Queries => req[t] # NoRequest

LockInv ==
    /\ ControlType
    /\ \A t \in Threads : InTransaction(t) => lock[t] = "exclusive"
    /\ \A t, u \in Threads : t # u /\ lock[t] = "exclusive" => lock[u] = "none"

AnySid == [number : Nat, chars : Nat]

\* Databases; Uids and Sids bound logins, which no save depends on.
Shape ==
    [uid : [Names -> Uids \cup {0}],
     pass : [Names -> Passwords \cup {NoPass}],
     radish : [Names -> Nat],
     upgrades : [Names -> Upgrades],
     session : [Uids -> AnySid],
     orphaned : BOOLEAN]

Data ==
    /\ db \in Shape /\ work \in Shape
    /\ issued \in Nat
    /\ left \in [Threads -> SUBSET Types]

LoginSteps == {"get_radish", "get_upgrades", "add_session", "get_session"}
UpdateSteps == {"set_radish", "set_upgrade", "drop_session"}

\* Which requests are where, and what is left of them to do.
Place(t) ==
    /\ pc[t] = "insert" => req[t].kind = "create"
    /\ pc[t] \in {"begin", "commit"} => req[t].kind \in {"login", "update"}
    /\ pc[t] \in LoginSteps => req[t].kind = "login"
    /\ pc[t] \in UpdateSteps => req[t].kind = "update"
    /\ req[t].kind = "update" =>
           /\ left[t] \subseteq Mentioned(req[t].save)
           /\ pc[t] \in Queries \cup {"begin", "set_radish"} => left[t] = Mentioned(req[t].save)

\* Progress p when all of save s but the upgrades in l is stored.
MergeBut(p, s, l) ==
    [radish |-> s.radish,
     upgrades |-> [u \in Types |-> IF u \in Mentioned(s) \ l
                                   THEN s.upgrades[u] ELSE p.upgrades[u]]]

SameProgress(n) == Progress(work, n) = Progress(db, n)

\* What the transaction of an update has done to the user it names.
Saved(t) ==
    LET n == req[t].name
        before == Progress(db, n)
        save == req[t].save
    IN  IF pc[t] = "set_radish" \/ ~ Holds(db, n, req[t].sid) THEN SameProgress(n)
        ELSE /\ Progress(work, n) = MergeBut(before, save, IF pc[t] = "set_upgrade"
                                                          THEN left[t] ELSE {})
             /\ pc[t] = "commit" => ~ Online(work, n)

Partial(t) ==
    IF req[t].kind = "login" THEN \A n \in Names : SameProgress(n)
    ELSE /\ \A n \in Names \ {req[t].name} : SameProgress(n)
         /\ Saved(t)
         /\ work.uid = db.uid
         /\ pc[t] # "commit" => work.session = db.session

Clean == ~ leaked /\ (\A t \in Threads : ~ InTransaction(t)) => work = db

SaveInv ==
    /\ LockInv
    /\ Data
    /\ Clean
    /\ \A t \in Threads : Place(t) /\ (InTransaction(t) => Partial(t))

-----------------------------------------------------------------------------
(* The sets the types are made of.                                         *)

LEMMA RequestKinds ==
    ASSUME NEW r \in Requests
    PROVE  /\ r.kind \in {"create", "login", "update", "malformed"}
           /\ r # NoRequest => r.kind \in {"create", "login", "update"} /\ r.name \in Names
           /\ r.kind = "update" => r.save \in Saves
  BY DEF Requests, NoRequest

LEMMA NoRequestType == NoRequest \in Requests
  BY DEF Requests

-----------------------------------------------------------------------------
(* Locks.                                                                  *)

LEMMA LockInit == Init => LockInv
  BY NoRequestType
  DEF Init, LockInv, ControlType, Steps, Locks, InTransaction, Statements, Queries

\* A step of one thread that keeps its lock and its place inside or outside a
\* transaction, or gives up both.
LEMMA LockKept ==
    ASSUME LockInv, NEW t \in Threads, NEW s \in Steps, NEW r \in Requests,
           pc' = [pc EXCEPT ![t] = s],
           req' = [req EXCEPT ![t] = r],
           s \in Queries => r # NoRequest,
           \/ lock' = lock /\ (s \in Statements => pc[t] \in Statements)
           \/ lock' = [lock EXCEPT ![t] = "none"] /\ s \notin Statements
    PROVE  LockInv'
  BY DEF LockInv, ControlType, InTransaction, Locks

\* The same when the request stays.
LEMMA LockKeptSameRequest ==
    ASSUME LockInv, NEW t \in Threads, NEW s \in Steps,
           pc' = [pc EXCEPT ![t] = s], req' = req,
           s \in Queries => pc[t] \in Queries,
           \/ lock' = lock /\ (s \in Statements => pc[t] \in Statements)
           \/ lock' = [lock EXCEPT ![t] = "none"] /\ s \notin Statements
    PROVE  LockInv'
<1>1. req[t] \in Requests /\ req' = [req EXCEPT ![t] = req[t]]
  BY DEF LockInv, ControlType
<1>2. s \in Queries => req[t] # NoRequest
  BY DEF LockInv, ControlType
<1> QED
  BY <1>1, <1>2, LockKept

\* A step of one thread that takes a lock the others' locks allow.
LEMMA LockTaken ==
    ASSUME LockInv, NEW t \in Threads, NEW l \in {"shared", "reserved", "exclusive"},
           req' = req, lock' = [lock EXCEPT ![t] = l],
           IF l = "exclusive" THEN CanExclude(t)
           ELSE OthersHoldOnly(t, {"none", "shared", "reserved"}),
           \/ pc' = pc /\ pc[t] \notin Statements
           \/ l = "exclusive" /\ \E s \in Statements : pc' = [pc EXCEPT ![t] = s]
    PROVE  LockInv'
  BY DEF LockInv, ControlType, InTransaction, Locks, CanExclude, OthersHoldOnly,
         Steps, Statements, Queries

LEMMA LockNext == LockInv /\ [Next]_vars => LockInv'
<1> SUFFICES ASSUME LockInv, [Next]_vars PROVE LockInv'
  OBVIOUS
<1> USE DEF Steps, Queries, Statements, Goto, SetLock, Answer
<1>1. ASSUME UNCHANGED vars PROVE LockInv'
  BY <1>1 DEF LockInv, ControlType, InTransaction, vars, local
<1>2. ASSUME Crash PROVE LockInv'
  BY <1>2, NoRequestType DEF Crash, LockInv, ControlType, InTransaction, Locks
<1>3. ASSUME NEW t \in Threads, Handle(t) PROVE LockInv'
  <2>1. CASE Refuse(t)
    <3>1. /\ pc' = [pc EXCEPT ![t] = "done"] /\ req' = req /\ lock' = lock
      BY <2>1 DEF Refuse
    <3> QED
      BY <3>1, LockKeptSameRequest
  <2>2. ASSUME NEW r \in Requests, Begin(t, r) PROVE LockInv'
    <3>1. FirstStep(r) \in {"user_exists", "is_online"}
      BY <2>2, RequestKinds DEF Begin, Accept, FirstStep
    <3> QED
      BY <2>2, <3>1, LockKept DEF Begin, Accept
  <2> QED
    BY <1>3, <2>1, <2>2 DEF Handle
<1>4. ASSUME NEW t \in Threads, Step(t) PROVE LockInv'
  <2>1. CASE Query(t)
    BY <2>1, LockTaken DEF Query, CanRead
  <2>2. CASE Finalize(t)
    <3>1. After(req[t].kind, pc[t]) \in Steps \ Statements
      BY <2>2, RequestKinds DEF Finalize, After, LockInv, ControlType
    <3> QED
      BY <2>2, <3>1, LockKeptSameRequest DEF Finalize
  <2>3. CASE Reserve(t)
    BY <2>3, LockTaken DEF Reserve, CanReserve, OthersHoldOnly, local
  <2>4. CASE Promote(t)
    BY <2>4, LockTaken DEF Promote, local
  <2>5. CASE InsertUser(t)
    BY <2>5, LockKeptSameRequest DEF InsertUser
  <2>6. CASE BeginExclusive(t)
    BY <2>6, LockTaken DEF BeginExclusive
  <2>7. CASE Login(t)
    BY <2>7, LockKeptSameRequest
    DEF Login, GetRadish, GetUpgrades, AddSession, GetSession
  <2>8. CASE Update(t)
    BY <2>8, LockKeptSameRequest DEF Update, SetRadish, SetUpgrade, DropSession
  <2>9. CASE Commit(t)
    BY <2>9, LockKeptSameRequest DEF Commit
  <2>10. CASE Busy(t)
    BY <2>10, LockKeptSameRequest DEF Busy
  <2>11. CASE Respond(t)
    BY <2>11, LockKept, NoRequestType DEF Respond
  <2> QED
    BY <1>4, <2>1, <2>2, <2>3, <2>4, <2>5, <2>6, <2>7, <2>8, <2>9, <2>10, <2>11 DEF Step, Work
<1>5. ASSUME NEW t \in Threads, Fault(t) PROVE LockInv'
  BY <1>5, LockKeptSameRequest DEF Fault, QueryFails, StatementFails
<1> QED
  BY <1>1, <1>2, <1>3, <1>4, <1>5 DEF Next

LEMMA LockCorrect == Spec => []LockInv
  BY LockInit, LockNext, PTL DEF Spec

\* Between BEGIN EXCLUSIVE and COMMIT a thread is alone with the database
\* (game_request_handler.cc:272-307, 479-526), however many threads there are.
THEOREM TransactionsExcludeTheorem == Spec => []TransactionsExclude
<1>1. LockInv => TransactionsExclude
  BY DEF LockInv, TransactionsExclude
<1> QED
  BY <1>1, LockCorrect, PTL

-----------------------------------------------------------------------------
(* Saves.                                                                  *)

LEMMA UpdateRequest ==
    ASSUME NEW r \in Requests, r.kind = "update"
    PROVE  /\ r.name \in Names
           /\ r.save.radish \in Nat
           /\ r.save.upgrades \in [Types -> Nat \cup {NotMentioned}]
<1>1. r.name \in Names /\ r.save \in Saves
  BY DEF Requests, NoRequest
<1> QED
  BY <1>1, SavesAssumption

\* The user_id of a new user is one of Uids: there is a name left for it.
LEMMA NextUidType ==
    ASSUME NEW d \in Shape, NEW n \in Names, ~ Registered(d, n)
    PROVE  NextUid(d) \in Uids
<1> DEFINE taken == {m \in Names : Registered(d, m)}
<1>1. IsFiniteSet(taken) /\ Cardinality(taken) <= Cardinality(Names)
      /\ (Cardinality(taken) = Cardinality(Names) => taken = Names)
  <2>1. taken \in SUBSET Names
    OBVIOUS
  <2> QED
    BY <2>1, NamesAssumption, FS_Subset
<1>2. Cardinality(taken) \in Nat /\ Cardinality(Names) \in Nat
  BY <1>1, NamesAssumption, FS_CardinalityType
<1>3. taken # Names
  OBVIOUS
<1> QED
  BY <1>1, <1>2, <1>3, MaxLoginsAssumption DEF NextUid, Uids

\* What a thread has saved and where it is stay while nothing it looks at moves.
LEMMA Stays ==
    ASSUME NEW t \in Threads, db' = db, work' = work,
           pc'[t] = pc[t], req'[t] = req[t], left'[t] = left[t]
    PROVE  /\ Place(t) => Place(t)'
           /\ Partial(t) => Partial(t)'
<1>1. ASSUME NEW n PROVE SameProgress(n)' = SameProgress(n)
  BY DEF SameProgress, Progress
<1>2. ASSUME NEW n, NEW sid
      PROVE  Holds(db, n, sid)' = Holds(db, n, sid) /\ Online(work, n)' = Online(work, n)
  BY DEF Holds, Online, Registered
<1>3. Saved(t)' = Saved(t)
  BY <1>1, <1>2 DEF Saved, Progress
<1>4. Partial(t) => Partial(t)'
  BY <1>1, <1>3 DEF Partial
<1>5. Place(t) => Place(t)'
  BY DEF Place
<1> QED
  BY <1>4, <1>5

\* A thread that moves need answer only for itself, if it leaves the database
\* alone or keeps all others off it.
LEMMA OneMoves ==
    ASSUME SaveInv, LockInv', NEW t \in Threads,
           \A u \in Threads \ {t} :
               pc'[u] = pc[u] /\ req'[u] = req[u] /\ left'[u] = left[u],
           UNCHANGED <<db, work>> \/ lock[t] = "exclusive",
           Data', Clean', Place(t)', InTransaction(t)' => Partial(t)'
    PROVE  SaveInv'
<1>1. ASSUME NEW u \in Threads \ {t} PROVE Place(u)'
  BY <1>1 DEF SaveInv, Place
<1>2. ASSUME NEW u \in Threads \ {t}, InTransaction(u)' PROVE Partial(u)'
  <2>1. InTransaction(u)
    BY <1>2 DEF InTransaction
  <2>2. db' = db /\ work' = work
    BY <2>1, <1>2 DEF SaveInv, LockInv
  <2>3. Partial(u)
    BY <2>1 DEF SaveInv
  <2> QED
    BY <2>2, <2>3, Stays
<1> QED
  BY <1>1, <1>2 DEF SaveInv

\* A step outside of transactions that leaves the database alone.
LEMMA Outside ==
    ASSUME SaveInv, LockInv', NEW t \in Threads, NEW s \in Steps \ Statements,
           pc' = [pc EXCEPT ![t] = s],
           \A u \in Threads \ {t} : req'[u] = req[u] /\ left'[u] = left[u],
           UNCHANGED <<db, work, leaked, issued>>,
           left' \in [Threads -> SUBSET Types],
           ~ InTransaction(t), Place(t)'
    PROVE  SaveInv'
<1>1. \A u \in Threads : InTransaction(u)' = InTransaction(u)
  BY DEF SaveInv, LockInv, ControlType, InTransaction
<1>2. Data' /\ Clean'
  BY <1>1 DEF SaveInv, Data, Clean
<1>3. \A u \in Threads \ {t} : pc'[u] = pc[u]
  BY DEF SaveInv, LockInv, ControlType
<1> QED
  BY <1>1, <1>2, <1>3, OneMoves

LEMMA SaveInit == Init => SaveInv
<1> SUFFICES ASSUME Init PROVE SaveInv
  OBVIOUS
<1>1. LockInv
  BY LockInit
<1>2. /\ db \in Shape /\ work = db /\ issued \in Nat
      /\ left \in [Threads -> SUBSET Types]
  BY DEF Init, EmptyDatabase, Shape, Upgrades, NoUpgrades, NoSid, AnySid
<1>3. ASSUME NEW t \in Threads PROVE Place(t) /\ ~ InTransaction(t)
  BY DEF Init, Place, InTransaction, Statements, Queries, LoginSteps, UpdateSteps
<1> QED
  BY <1>1, <1>2, <1>3 DEF SaveInv, Data, Clean

\* An answer given outside of transactions.
LEMMA AnsweredOutside ==
    ASSUME SaveInv, LockInv', NEW t \in Threads, ~ InTransaction(t),
           pc' = [pc EXCEPT ![t] = "done"], req' = req, left' = left,
           UNCHANGED <<db, work, leaked, issued>>
    PROVE  SaveInv'
<1>1. pc'[t] = "done"
  BY DEF SaveInv, LockInv, ControlType
<1>2. Place(t)
  BY DEF SaveInv
<1>3. Place(t)'
  BY <1>1, <1>2 DEF Place, LoginSteps, UpdateSteps, Queries
<1>4. left' \in [Threads -> SUBSET Types]
  BY DEF SaveInv, Data
<1>5. "done" \in Steps \ Statements
  BY DEF Steps, Statements
<1> QED
  BY <1>3, <1>4, <1>5, Outside

\* Requests that come and go.
LEMMA SaveRequests ==
    ASSUME SaveInv, LockInv', NEW t \in Threads,
           Handle(t) \/ Respond(t)
    PROVE  SaveInv'
<1>1. CASE Refuse(t)
  <2>1. ~ InTransaction(t) /\ pc' = [pc EXCEPT ![t] = "done"]
    BY <1>1 DEF Refuse, Answer, Goto, InTransaction, Statements
  <2>2. req' = req /\ left' = left /\ UNCHANGED <<db, work, leaked, issued>>
    BY <1>1 DEF Refuse, ids
  <2> QED
    BY <2>1, <2>2, AnsweredOutside
<1>2. /\ pc \in [Threads -> Steps] /\ req \in [Threads -> Requests]
      /\ left \in [Threads -> SUBSET Types]
  BY DEF SaveInv, Data, LockInv, ControlType
<1>3. ASSUME NEW r \in Requests, Begin(t, r) PROVE SaveInv'
  <2> DEFINE s == FirstStep(r)
             l == IF r.kind = "update" THEN Mentioned(r.save) ELSE {}
  <2>1. s \in {"user_exists", "is_online"}
    BY <1>3, RequestKinds DEF Begin, Accept, FirstStep
  <2>2. /\ pc[t] = "idle" /\ pc' = [pc EXCEPT ![t] = s]
        /\ req' = [req EXCEPT ![t] = r] /\ left' = [left EXCEPT ![t] = l]
        /\ UNCHANGED <<db, work, leaked, issued>>
    BY <1>3 DEF Begin, Accept, Goto, ids
  <2>3. l \in SUBSET Types
    BY DEF Mentioned
  <2> HIDE DEF s
  <2>4. pc'[t] = s /\ req'[t] = r /\ left'[t] = l /\ left' \in [Threads -> SUBSET Types]
    BY <1>2, <2>2, <2>3
  <2>5. \A u \in Threads \ {t} : req'[u] = req[u] /\ left'[u] = left[u]
    BY <1>2, <2>2
  <2>6. Place(t)'
    BY <2>1, <2>4 DEF Place, LoginSteps, UpdateSteps
  <2>7. s \in Steps \ Statements /\ ~ InTransaction(t)
    BY <2>1, <2>2 DEF Steps, Statements, Queries, InTransaction
  <2> QED
    BY <2>2, <2>4, <2>5, <2>6, <2>7, Outside
<1>4. CASE Respond(t)
  <2>1. /\ pc[t] = "done" /\ pc' = [pc EXCEPT ![t] = "idle"]
        /\ req' = [req EXCEPT ![t] = NoRequest] /\ left' = [left EXCEPT ![t] = {}]
        /\ UNCHANGED <<db, work, leaked, issued>>
    BY <1>4 DEF Respond, Goto
  <2>2. /\ pc'[t] = "idle" /\ req'[t] = NoRequest
        /\ left' \in [Threads -> SUBSET Types]
        /\ \A u \in Threads \ {t} : req'[u] = req[u] /\ left'[u] = left[u]
    BY <1>2, <2>1
  <2>3. Place(t)'
    BY <2>2 DEF Place, LoginSteps, UpdateSteps, Queries, NoRequest
  <2>4. "idle" \in Steps \ Statements /\ ~ InTransaction(t)
    BY <2>1 DEF Steps, Statements, InTransaction
  <2> QED
    BY <2>1, <2>2, <2>3, <2>4, Outside
<1> QED
  BY <1>1, <1>3, <1>4 DEF Handle

\* Queries, the INSERT of add_user, and errors outside of transactions.
LEMMA SaveQueries ==
    ASSUME SaveInv, LockInv', NEW t \in Threads,
           \/ Query(t) \/ Finalize(t) \/ Reserve(t) \/ Promote(t) \/ InsertUser(t)
           \/ Busy(t) \/ QueryFails(t)
    PROVE  SaveInv'
<1> USE DEF Goto, Answer, Steps, Statements, Queries, InTransaction, ids, local
<1>1. ASSUME pc' = pc, req' = req, left' = left, UNCHANGED <<db, work, leaked, issued>>
      PROVE  SaveInv'
  <2>1. Data' /\ Clean'
    BY <1>1 DEF SaveInv, Data, Clean
  <2>2. ASSUME NEW u \in Threads PROVE Place(u)' /\ (InTransaction(u)' => Partial(u)')
    BY <1>1, Stays DEF SaveInv
  <2> QED
    BY <2>1, <2>2 DEF SaveInv
<1>2. CASE Query(t) \/ Reserve(t) \/ Promote(t)
  BY <1>1, <1>2 DEF Query, Reserve, Promote
<1>3. CASE Busy(t) \/ QueryFails(t)
  <2>1. ~ InTransaction(t) /\ pc' = [pc EXCEPT ![t] = "done"]
    BY <1>3 DEF Busy, QueryFails
  <2>2. req' = req /\ left' = left /\ UNCHANGED <<db, work, leaked, issued>>
    BY <1>3 DEF Busy, QueryFails
  <2> QED
    BY <2>1, <2>2, AnsweredOutside
<1>4. CASE Finalize(t)
  <2>1. /\ pc[t] \in Queries /\ ~ InTransaction(t)
        /\ req' = req /\ left' = left /\ UNCHANGED <<db, work, leaked, issued>>
    BY <1>4 DEF Finalize
  <2>2. CASE GivesUp(req[t].kind, pc[t], found[t])
    <3>1. pc' = [pc EXCEPT ![t] = "done"]
      BY <1>4, <2>2 DEF Finalize
    <3> QED
      BY <2>1, <3>1, AnsweredOutside
  <2>3. CASE ~ GivesUp(req[t].kind, pc[t], found[t])
    <3> DEFINE s == After(req[t].kind, pc[t])
    <3>1. req[t].kind \in {"create", "login", "update"}
      BY <2>1, RequestKinds DEF SaveInv, LockInv, ControlType
    <3>2. /\ s \in {"insert", "user_exists", "salt", "begin", "has_session_id"}
          /\ s = "insert" => req[t].kind = "create"
          /\ s = "begin" => req[t].kind \in {"login", "update"}
      BY <3>1 DEF After
    <3>3. pc' = [pc EXCEPT ![t] = s]
      BY <1>4, <2>3 DEF Finalize
    <3> HIDE DEF s
    <3>4. pc'[t] = s /\ Place(t)
      BY <3>3 DEF SaveInv, LockInv, ControlType
    <3>5. Place(t)'
      BY <2>1, <3>2, <3>4 DEF Place, LoginSteps, UpdateSteps
    <3>6. s \in Steps \ Statements /\ left' \in [Threads -> SUBSET Types]
      BY <2>1, <3>2 DEF SaveInv, Data
    <3> QED
      BY <2>1, <3>3, <3>5, <3>6, Outside
  <2> QED
    BY <2>2, <2>3
<1>5. CASE InsertUser(t)
  <2>1. req[t].name \in Names /\ req[t].pass \in Passwords
    BY <1>5 DEF InsertUser, SaveInv, Place, LockInv, ControlType, Requests, NoRequest
  <2>2. db' \in Shape /\ work' = db' /\ issued' = issued /\ left' = left
    BY <1>5, <2>1, NextUidType DEF InsertUser, SaveInv, Data, WithUser, Shape
  <2>3. Place(t)' /\ ~ InTransaction(t)' /\ lock[t] = "exclusive"
    BY <1>5 DEF InsertUser, SaveInv, Place, LockInv, ControlType, LoginSteps, UpdateSteps
  <2>4. \A u \in Threads \ {t} : pc'[u] = pc[u] /\ req'[u] = req[u] /\ left'[u] = left[u]
    BY <1>5 DEF InsertUser, SaveInv, LockInv, ControlType
  <2>5. Data' /\ Clean'
    BY <2>2 DEF SaveInv, Data, Clean
  <2> QED
    BY <2>3, <2>4, <2>5, OneMoves
<1> QED
  BY <1>2, <1>3, <1>4, <1>5

\* The database is as before when a transaction begins.
LEMMA SaveBegin ==
    ASSUME SaveInv, LockInv', NEW t \in Threads, BeginExclusive(t)
    PROVE  SaveInv'
<1> USE DEF Goto, Steps, Statements, Queries, InTransaction, ids
<1>1. work = db
  <2>1. \A u \in Threads : ~ InTransaction(u)
    BY DEF BeginExclusive, CanExclude, OthersHoldOnly, SaveInv, LockInv
  <2> QED
    BY <2>1 DEF BeginExclusive, CanExclude, OthersHoldOnly, SaveInv, Clean
<1>2. \/ req[t].kind = "login" /\ pc' = [pc EXCEPT ![t] = "get_radish"]
      \/ req[t].kind = "update" /\ pc' = [pc EXCEPT ![t] = "set_radish"]
  BY DEF BeginExclusive, SaveInv, Place
<1>3. Place(t)'
  BY <1>2 DEF BeginExclusive, SaveInv, Place, LockInv, ControlType, LoginSteps,
              UpdateSteps, Mentioned
<1>4. Partial(t)'
  BY <1>1, <1>2 DEF BeginExclusive, Partial, Saved, SameProgress, Progress, SaveInv,
                    LockInv, ControlType
<1>5. Data' /\ Clean'
  BY <1>1 DEF BeginExclusive, SaveInv, Data, Clean
<1>6. \A u \in Threads \ {t} : pc'[u] = pc[u] /\ req'[u] = req[u] /\ left'[u] = left[u]
  BY <1>2 DEF BeginExclusive, SaveInv, LockInv, ControlType
<1> QED
  BY <1>3, <1>4, <1>5, <1>6, OneMoves DEF BeginExclusive

\* A statement of a transaction that goes on: only work changes.
LEMMA InsideTransaction ==
    ASSUME SaveInv, LockInv', NEW t \in Threads, NEW s \in Statements,
           InTransaction(t), pc' = [pc EXCEPT ![t] = s],
           \A u \in Threads \ {t} : req'[u] = req[u] /\ left'[u] = left[u],
           Data', Place(t)', Partial(t)'
    PROVE  SaveInv'
<1>1. \A u \in Threads \ {t} : pc'[u] = pc[u]
  BY DEF SaveInv, LockInv, ControlType
<1>2. InTransaction(t)'
  BY DEF SaveInv, LockInv, ControlType, InTransaction
<1>3. Clean' /\ lock[t] = "exclusive"
  BY <1>2 DEF Clean, SaveInv, LockInv
<1> QED
  BY <1>1, <1>3, OneMoves

\* The statements of a login change no progress.
LEMMA SaveLogin ==
    ASSUME SaveInv, LockInv', NEW t \in Threads, Login(t)
    PROVE  SaveInv'
<1>1. /\ req[t].kind = "login" /\ InTransaction(t)
      /\ req' = req /\ left' = left /\ db' = db
      /\ \E s \in (LoginSteps \cup {"commit"}) : pc' = [pc EXCEPT ![t] = s]
  BY DEF Login, GetRadish, GetUpgrades, AddSession, GetSession, Goto, Execute, SaveInv,
         Place, InTransaction, Statements, LoginSteps
<1>2. /\ work' \in Shape /\ issued' \in Nat
      /\ \A n \in Names : Progress(work, n)' = Progress(work, n)
  <2>1. CASE AddSession(t)
    <3>1. CASE UNCHANGED <<db, work, issued>>
      BY <3>1 DEF SaveInv, Data, Progress
    <3>2. CASE ~ UNCHANGED <<db, work, issued>>
      <4>1. PICK uid : /\ work' = [work EXCEPT !.session[uid] = NewSid]
                       /\ issued' = issued + 1
        BY <2>1, <3>2 DEF AddSession, Execute
      <4>2. NewSid \in AnySid
        BY DEF NewSid, SessionId, AnySid, SaveInv, Data
      <4> QED
        BY <4>1, <4>2 DEF SaveInv, Data, Shape, Progress
    <3> QED
      BY <3>1, <3>2
  <2>2. CASE GetRadish(t) \/ GetUpgrades(t) \/ GetSession(t)
    BY <2>2 DEF GetRadish, GetUpgrades, GetSession, ids, SaveInv, Data, Progress
  <2> QED
    BY <2>1, <2>2 DEF Login
<1>3. PICK s \in (LoginSteps \cup {"commit"}) : pc' = [pc EXCEPT ![t] = s]
  BY <1>1
<1>4. s \in Statements /\ pc'[t] = s
  BY <1>3 DEF Statements, LoginSteps, SaveInv, LockInv, ControlType
<1>5. Place(t)'
  BY <1>1, <1>4 DEF Place, LoginSteps, UpdateSteps, Queries, Statements
<1>6. Partial(t)'
  BY <1>1, <1>2 DEF SaveInv, Partial, SameProgress, Progress
<1>7. Data'
  BY <1>1, <1>2 DEF SaveInv, Data
<1> QED
  BY <1>1, <1>3, <1>4, <1>5, <1>6, <1>7, InsideTransaction

\* The statements of an update store what the save mentions, one by one.
LEMMA SaveUpdate ==
    ASSUME SaveInv, LockInv', NEW t \in Threads, Update(t)
    PROVE  SaveInv'
<1> DEFINE n == req[t].name
           save == req[t].save
           sid == req[t].sid
<1>1. /\ req[t].kind = "update" /\ InTransaction(t) /\ Partial(t)
      /\ pc[t] \in UpdateSteps
      /\ work.uid = db.uid /\ work.session = db.session
      /\ Holds(work, n, sid) <=> Holds(db, n, sid)
  BY DEF Update, SetRadish, SetUpgrade, DropSession, UpdateSteps, Statements, Partial,
         InTransaction, SaveInv, Place, Holds, Online, Registered
<1>2. n \in Names /\ save.radish \in Nat /\ save.upgrades \in [Types -> Nat \cup {NotMentioned}]
  BY <1>1, UpdateRequest DEF SaveInv, LockInv, ControlType
<1>3. work \in Shape /\ db \in Shape /\ left \in [Threads -> SUBSET Types]
  BY DEF SaveInv, Data
<1>4. pc \in [Threads -> Steps]
  BY DEF SaveInv, LockInv, ControlType
<1>5. CASE SetRadish(t)
  <2>1. left[t] = Mentioned(req[t].save)
    BY <1>1, <1>5 DEF SetRadish, SaveInv, Place
  <2>2. /\ req' = req /\ left' = left /\ db' = db /\ issued' = issued
        /\ work' = IF Holds(work, n, sid)
                   THEN [work EXCEPT !.radish[n] = save.radish] ELSE work
        /\ pc' = [pc EXCEPT ![t] = IF left[t] = {} THEN "drop_session" ELSE "set_upgrade"]
    BY <1>5 DEF SetRadish, Execute, Goto, ids
  <2>3. work' \in Shape /\ work'.uid = work.uid /\ work'.session = work.session
    BY <1>2, <1>3, <2>2 DEF Shape
  <2>4. \A m \in Names : Progress(work, m) = Progress(db, m)
    BY <1>1, <1>5 DEF SetRadish, Partial, Saved, SameProgress
  <2>5. \A m \in Names \ {n} : SameProgress(m)'
    BY <1>2, <1>3, <2>2, <2>4 DEF SameProgress, Progress, Shape
  <2>6. Saved(t)'
    <3>1. CASE ~ Holds(db, n, sid)
      BY <1>1, <1>2, <2>2, <2>4, <3>1
      DEF Saved, SameProgress, Progress, Holds, Online, Registered
    <3>2. CASE Holds(db, n, sid)
      <4>1. Progress(work, n)' = [radish |-> save.radish, upgrades |-> db.upgrades[n]]
        BY <1>1, <1>2, <1>3, <2>2, <2>4, <3>2 DEF Progress, Shape
      <4>2. MergeBut(Progress(db, n), save, left[t])
               = [radish |-> save.radish, upgrades |-> db.upgrades[n]]
        BY <1>2, <1>3, <2>1 DEF MergeBut, Mentioned, Progress, Shape, Upgrades
      <4> QED
        BY <1>4, <2>2, <4>1, <4>2, <3>2
        DEF Saved, Progress, Holds, Online, Registered
    <3> QED
      BY <3>1, <3>2
  <2>7. Place(t)' /\ Data'
    BY <1>1, <1>4, <2>1, <2>2, <2>3
    DEF Place, Data, SaveInv, LoginSteps, UpdateSteps, Queries
  <2>8. Partial(t)'
    BY <1>1, <2>2, <2>3, <2>5, <2>6 DEF Partial
  <2> QED
    BY <1>1, <2>2, <2>7, <2>8, InsideTransaction DEF Statements
<1>6. CASE SetUpgrade(t)
  <2>1. PICK u \in left[t] :
           /\ work' = IF Holds(work, n, sid)
                      THEN [work EXCEPT !.upgrades[n][u] = save.upgrades[u]]
                      ELSE [work EXCEPT !.orphaned = TRUE]
           /\ left' = [left EXCEPT ![t] = @ \ {u}]
           /\ pc' = [pc EXCEPT ![t] = IF left[t] = {u} THEN "drop_session" ELSE "set_upgrade"]
    BY <1>6 DEF SetUpgrade, Execute, Goto
  <2>2. req' = req /\ db' = db /\ issued' = issued /\ pc[t] = "set_upgrade"
    BY <1>6 DEF SetUpgrade, Execute, ids
  <2>3. work' \in Shape /\ work'.uid = work.uid /\ work'.session = work.session
    <3>1. u \in Types /\ u \in Mentioned(save)
      BY <1>1, <1>3 DEF SaveInv, Place
    <3>2. save.upgrades[u] \in Nat
      BY <1>2, <3>1 DEF Mentioned
    <3>3. work.upgrades \in [Names -> Upgrades] /\ work.orphaned \in BOOLEAN
      BY <1>3 DEF Shape
    <3>4. CASE Holds(work, n, sid)
      <4>1. [work.upgrades EXCEPT ![n][u] = save.upgrades[u]] \in [Names -> Upgrades]
        BY <1>2, <3>1, <3>2, <3>3 DEF Upgrades
      <4>2. work' = [work EXCEPT !.upgrades = [work.upgrades EXCEPT ![n][u] = save.upgrades[u]]]
        BY <1>3, <2>1, <3>4 DEF Shape
      <4> QED
        BY <1>3, <4>1, <4>2 DEF Shape
    <3>5. CASE ~ Holds(work, n, sid)
      BY <1>3, <2>1, <3>5 DEF Shape
    <3> QED
      BY <3>4, <3>5
  <2>4. \A m \in Names \ {n} : SameProgress(m)'
    <3>1. \A m \in Names \ {n} : Progress(work, m)' = Progress(work, m)
      BY <1>2, <1>3, <2>1 DEF Progress, Shape
    <3>2. \A m \in Names \ {n} : SameProgress(m)
      BY <1>1 DEF Partial
    <3> QED
      BY <2>2, <3>1, <3>2 DEF SameProgress, Progress
  <2>5. Saved(t)'
    <3>1. CASE ~ Holds(db, n, sid)
      BY <1>1, <1>2, <1>3, <2>1, <2>2, <3>1
      DEF Saved, Partial, SameProgress, Progress, Holds, Online, Registered, Shape
    <3>2. CASE Holds(db, n, sid)
      <4>1. Progress(work, n) = MergeBut(Progress(db, n), save, left[t])
        BY <1>1, <2>2, <3>2 DEF Partial, Saved
      <4>2. Progress(work, n)' = MergeBut(Progress(db, n), save, left[t] \ {u})
        <5>1. /\ work'.radish[n] = save.radish
              /\ work'.upgrades[n] = [work.upgrades[n] EXCEPT ![u] = save.upgrades[u]]
          BY <1>1, <1>2, <1>3, <2>1, <3>2, <4>1 DEF MergeBut, Progress, Shape
        <5>2. work.upgrades[n] = [v \in Types |->
                 IF v \in Mentioned(save) \ left[t] THEN save.upgrades[v]
                 ELSE db.upgrades[n][v]]
          BY <4>1 DEF MergeBut, Progress
        <5>3. u \in Mentioned(req[t].save)
          BY <1>1 DEF SaveInv, Place
        <5>4. work'.upgrades[n] = [v \in Types |->
                 IF v \in Mentioned(save) \ (left[t] \ {u}) THEN save.upgrades[v]
                 ELSE db.upgrades[n][v]]
          BY <5>1, <5>2, <5>3 DEF Mentioned
        <5>5. MergeBut(Progress(db, n), save, left[t] \ {u})
                 = [radish |-> save.radish,
                    upgrades |-> [v \in Types |->
                       IF v \in Mentioned(save) \ (left[t] \ {u})
                       THEN save.upgrades[v] ELSE db.upgrades[n][v]]]
          BY DEF MergeBut, Progress
        <5>6. Progress(work, n)' = [radish |-> work'.radish[n], upgrades |-> work'.upgrades[n]]
          BY <2>2 DEF Progress
        <5> QED
          BY <5>1, <5>4, <5>5, <5>6
      <4> QED
        BY <1>3, <1>4, <2>1, <2>2, <3>2, <4>2
        DEF Saved, MergeBut, Progress, Holds, Online, Registered
    <3> QED
      BY <3>1, <3>2
  <2>6. Place(t)' /\ Data'
    BY <1>1, <1>3, <1>4, <2>1, <2>2, <2>3
    DEF Place, Data, SaveInv, LoginSteps, UpdateSteps, Queries
  <2>7. Partial(t)'
    BY <1>1, <2>2, <2>3, <2>4, <2>5, <1>4, <2>1 DEF Partial
  <2> QED
    BY <1>1, <1>3, <2>1, <2>2, <2>6, <2>7, InsideTransaction DEF Statements
<1>7. CASE DropSession(t)
  <2>1. /\ req' = req /\ left' = left /\ db' = db /\ issued' = issued
        /\ work' = IF Holds(work, n, sid)
                   THEN [work EXCEPT !.session[work.uid[n]] = NoSid] ELSE work
        /\ pc' = [pc EXCEPT ![t] = "commit"] /\ pc[t] = "drop_session"
    BY <1>7 DEF DropSession, Execute, Goto, ids
  <2>2. work' \in Shape /\ \A m \in Names : Progress(work, m)' = Progress(work, m)
    BY <1>3, <2>1 DEF Shape, NoSid, AnySid, Progress
  <2>3. work'.uid = work.uid
    BY <1>3, <2>1 DEF Shape
  <2>4. Holds(db, n, sid) => ~ Online(work', n)
    BY <1>1, <1>2, <1>3, <2>1 DEF Shape, Holds, Online, Registered, NoSid
  <2>5. Saved(t)'
    BY <1>1, <1>2, <1>4, <2>1, <2>2, <2>4
    DEF Partial, Saved, SameProgress, Progress, Holds, Online, Registered
  <2>6. \A m \in Names \ {n} : SameProgress(m)'
    BY <1>1, <2>1, <2>2 DEF Partial, SameProgress, Progress
  <2>7. Place(t)' /\ Data'
    BY <1>1, <1>4, <2>1, <2>2
    DEF Place, Data, SaveInv, LoginSteps, UpdateSteps, Queries, Mentioned
  <2>8. Partial(t)'
    BY <1>1, <1>4, <2>1, <2>3, <2>5, <2>6 DEF Partial
  <2> QED
    BY <1>1, <2>1, <2>7, <2>8, InsideTransaction DEF Statements
<1> QED
  BY <1>5, <1>6, <1>7 DEF Update

\* The end of a transaction, by COMMIT or by an exception.
LEMMA SaveEnd ==
    ASSUME SaveInv, LockInv', NEW t \in Threads, Commit(t) \/ StatementFails(t)
    PROVE  SaveInv'
<1>1. /\ InTransaction(t) /\ pc' = [pc EXCEPT ![t] = "done"]
      /\ req' = req /\ left' = left /\ issued' = issued
  BY DEF Commit, StatementFails, Answer, Goto, InTransaction, Statements, ids
<1>2. pc \in [Threads -> Steps] /\ lock[t] = "exclusive"
  BY <1>1 DEF SaveInv, LockInv, ControlType
<1>3. db' \in Shape /\ work' \in Shape /\ (leaked' \/ work' = db')
  BY DEF Commit, StatementFails, SaveInv, Data
<1>4. Place(t)' /\ ~ InTransaction(t)'
  BY <1>1, <1>2
  DEF Place, SaveInv, InTransaction, Statements, Queries, LoginSteps, UpdateSteps, Mentioned
<1>5. Data' /\ Clean'
  BY <1>1, <1>3 DEF SaveInv, Data, Clean
<1> QED
  BY <1>1, <1>2, <1>4, <1>5, OneMoves

LEMMA SaveCrash == SaveInv /\ LockInv' /\ Crash => SaveInv'
<1> SUFFICES ASSUME SaveInv, LockInv', Crash PROVE SaveInv'
  OBVIOUS
<1>1. Data' /\ Clean'
  BY DEF Crash, SaveInv, Data, Clean, ids
<1>2. ASSUME NEW t \in Threads PROVE Place(t)' /\ ~ InTransaction(t)'
  BY DEF Crash, Place, InTransaction, Statements, Queries, LoginSteps, UpdateSteps,
         NoRequest
<1> QED
  BY <1>1, <1>2 DEF SaveInv

LEMMA SaveNext == SaveInv /\ [Next]_vars => SaveInv'
<1> SUFFICES ASSUME SaveInv, [Next]_vars PROVE SaveInv'
  OBVIOUS
<1>1. LockInv'
  BY LockNext DEF SaveInv
<1>2. CASE UNCHANGED vars
  <2>1. /\ pc' = pc /\ req' = req /\ left' = left
        /\ db' = db /\ work' = work /\ leaked' = leaked /\ issued' = issued
    BY <1>2 DEF vars, local, ids
  <2>2. Data' /\ Clean'
    BY <2>1 DEF SaveInv, Data, Clean, InTransaction
  <2>3. ASSUME NEW t \in Threads PROVE Place(t)' /\ (InTransaction(t)' => Partial(t)')
    BY <2>1, Stays DEF SaveInv, InTransaction
  <2> QED
    BY <1>1, <2>2, <2>3 DEF SaveInv
<1>3. CASE Crash
  BY <1>1, <1>3, SaveCrash
<1>4. ASSUME NEW t \in Threads, Handle(t) \/ Step(t) \/ Fault(t) PROVE SaveInv'
  BY <1>1, <1>4, SaveRequests, SaveQueries, SaveBegin, SaveLogin, SaveUpdate, SaveEnd
  DEF Step, Work, Fault
<1> QED
  BY <1>2, <1>3, <1>4 DEF Next

LEMMA SaveCorrect == Spec => []SaveInv
  BY SaveInit, SaveNext, PTL DEF Spec

\* The steps that commit are InsertUser, which touches no progress, and Commit.
LEMMA OnlyCommitSaves ==
    ASSUME SaveInv, [Next]_vars, NEW n \in Names, Progress(db, n)' # Progress(db, n)
    PROVE  \E t \in Threads : Commit(t)
<1>1. db' # db
  BY DEF Progress
<1>2. ASSUME NEW t \in Threads, InsertUser(t) PROVE FALSE
  BY <1>2 DEF InsertUser, WithUser, SaveInv, Data, Shape, Progress
<1>3. ~ Crash /\ ~ UNCHANGED vars
  BY <1>1 DEF Crash, vars
<1>4. PICK t \in Threads : Handle(t) \/ Step(t) \/ Fault(t)
  BY <1>3 DEF Next
<1>5. ~ Handle(t) /\ ~ Fault(t) /\ ~ Respond(t) /\ ~ Busy(t)
  BY <1>1 DEF Handle, Begin, Accept, Refuse, Fault, QueryFails, StatementFails, Respond, Busy
<1>6. ~ Query(t) /\ ~ Finalize(t) /\ ~ Reserve(t) /\ ~ Promote(t) /\ ~ BeginExclusive(t)
  BY <1>1 DEF Query, Finalize, Reserve, Promote, BeginExclusive
<1>7. ~ Login(t) /\ ~ Update(t)
  BY <1>1 DEF Login, GetRadish, GetUpgrades, AddSession, GetSession, Update, SetRadish,
              SetUpgrade, DropSession, Execute
<1> QED
  BY <1>2, <1>4, <1>5, <1>6, <1>7 DEF Step, Work

\* Request of thread t is the save that changes the progress of user n.
SavedBy(n, t) ==
    /\ req[t].kind = "update" /\ req[t].name = n
    /\ Holds(db, n, req[t].sid)
    /\ Progress(db, n)' = Merge(Progress(db, n), req[t].save)
    /\ ~ Online(db, n)'

LEMMA SavesStep ==
    ASSUME SaveInv, [Next]_vars, NEW n \in Names, Progress(db, n)' # Progress(db, n)
    PROVE  \E t \in Threads : SavedBy(n, t)
<1>1. PICK t \in Threads : Commit(t)
  BY OnlyCommitSaves
<1>2. db' = work /\ pc[t] = "commit" /\ Partial(t)
      /\ req[t].kind \in {"login", "update"}
  BY <1>1 DEF Commit, SaveInv, InTransaction, Statements, Place
<1>3. Progress(db, n)' = Progress(work, n) /\ Online(db, n)' = Online(work, n)
  BY <1>2 DEF Progress, Online, Registered
<1>4. req[t].kind = "update" /\ req[t].name = n
  BY <1>2, <1>3 DEF Partial, SameProgress
<1>5. /\ Holds(db, n, req[t].sid) /\ ~ Online(work, n)
      /\ Progress(work, n) = MergeBut(Progress(db, n), req[t].save, {})
  BY <1>2, <1>3, <1>4 DEF Partial, Saved, SameProgress
<1>6. MergeBut(Progress(db, n), req[t].save, {}) = Merge(Progress(db, n), req[t].save)
  BY DEF MergeBut, Merge
<1> QED
  BY <1>3, <1>4, <1>5, <1>6 DEF SavedBy

\* No client sees or keeps half a save, no save counts twice and none is made
\* without the open session (game_request_handler.cc:463-526), for any number
\* of threads, users, upgrades and saves, with failing statements and crashes.
THEOREM ProgressChangesBySavesTheorem == Spec => ProgressChangesBySaves
<1> DEFINE Changes == \A n \in Names : Progress(db, n)' # Progress(db, n) =>
                          \E t \in Threads : SavedBy(n, t)
<1>1. SaveInv /\ [Next]_vars => [Changes]_vars
  BY SavesStep
<1> HIDE DEF Changes
<1>2. Spec => [][Changes]_vars
  BY <1>1, SaveCorrect, PTL DEF Spec
<1> QED
  BY <1>2 DEF ProgressChangesBySaves, Changes, SavedBy
=============================================================================
