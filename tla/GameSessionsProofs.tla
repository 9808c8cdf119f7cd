------------------------- MODULE GameSessionsProofs -------------------------
(***************************************************************************)
(* Who learns which session of the game, and what a login is told, for any *)
(* number of threads, users, passwords, upgrades and saves.                *)
(*                                                                         *)
(* SessionInv, on top of SaveInv: ids of users and of sessions are never   *)
(* given twice, a session id that was read from the database belongs to    *)
(* the user and the password it was read with, and what a login has read   *)
(* is what is stored until its session ends.                               *)
(***************************************************************************)
EXTENDS GameStoreProofs

\* The logins that may yet draw a session id.
Draws(t) == req[t].kind = "login"
            /\ pc[t] \in Queries \cup {"begin", "get_radish", "get_upgrades", "add_session"}

\* Bounds and types.
TypeInv ==
    /\ TypeOK
    /\ issued + Cardinality({t \in Threads : Draws(t)}) <= MaxLogins
    /\ \A t \in Threads : pc[t] \notin {"commit", "done"} => data[t].sid = NoSid

\* Accounts are made outside of transactions, and each has an id of its own.
AccountInv ==
    /\ work.uid = db.uid /\ work.pass = db.pass
    /\ \A n \in Names : db.uid[n] < NextUid(db)
    /\ \A n, m \in Names : Registered(db, n) /\ db.uid[m] = db.uid[n] => m = n

\* Session sid is in row i, whether the row is committed or not.
InTable(i, sid) == db.session[i] = sid \/ work.session[i] = sid

\* A session id is drawn once and stored in one row.
TableInv ==
    \A sid \in Sids, i, j \in Uids :
        InTable(i, sid) => /\ 0 < sid.number /\ sid.number <= issued
                           /\ InTable(j, sid) => i = j

\* Session sid, if it is still open, belongs to user n with password p.
Belongs(sid, n, p) ==
    /\ Matches(db, n, p)
    /\ sid.number <= issued
    /\ \A i \in Uids : InTable(i, sid) => i = db.uid[n]

\* The session that thread t has read for a login.
OwnInv(t) ==
    LET n == req[t].name
        sid == data[t].sid
    IN  sid # NoSid => /\ req[t].kind = "login" /\ n \in Names
                       /\ Belongs(sid, n, req[t].pass)

\* The progress it has read, inside the transaction ...
ReadInv(t) ==
    LET n == req[t].name
    IN  /\ pc[t] \in {"get_upgrades", "add_session", "get_session", "commit"}
        /\ req[t].kind = "login" /\ Matches(work, n, req[t].pass)
        => /\ data[t].radish = work.radish[n]
           /\ pc[t] # "get_upgrades" => data[t].upgrades = work.upgrades[n]

\* ... and after it.
CurrentInv(t) ==
    LET n == req[t].name
        sid == data[t].sid
    IN  pc[t] = "done" /\ status[t] = 200 /\ sid # NoSid =>
           /\ \A i \in Uids : work.session[i] = sid => db.session[i] = sid
           /\ Holds(db, n, sid) =>
                 [radish |-> data[t].radish, upgrades |-> data[t].upgrades] = Progress(db, n)

KnownInv == \A k \in known : Belongs(SessionId(k.number), k.name, k.pass)

SessionInv ==
    /\ SaveInv /\ TypeInv /\ AccountInv /\ TableInv
    /\ \A t \in Threads : OwnInv(t) /\ ReadInv(t) /\ CurrentInv(t)
    /\ KnownInv

-----------------------------------------------------------------------------
(* What a step does to the database.                                       *)

DataStays == UNCHANGED <<db, work, issued>>

\* COMMIT, ROLLBACK or the end of the process.
TransactionEnds == issued' = issued /\ \E d \in {db, work} : db' = d /\ work' = d

\* Inside a transaction, nothing of an account: sessions end, progress changes.
TransactionGoesOn ==
    /\ UNCHANGED <<db, issued>>
    /\ work'.uid = work.uid /\ work'.pass = work.pass
    /\ \A i \in Uids : work'.session[i] \in {work.session[i], NoSid}

SessionStarts(i) ==
    /\ db' = db
    /\ work' = [work EXCEPT !.session[i] = NewSid]
    /\ issued' = issued + 1

UserJoins(n, p) ==
    /\ issued' = issued
    /\ db' = WithUser(db, n, p)
    /\ work' = db'

Effect ==
    \/ DataStays
    \/ TransactionEnds
    \/ TransactionGoesOn
    \/ \E i : SessionStarts(i)
    \/ \E n \in Names, p \in Passwords : UserJoins(n, p)

\* The session of the login in thread t, if it matches or not.
SessionRow(t) ==
    LET n == req[t].name
    IN  IF Matches(work, n, req[t].pass) THEN work.uid[n] ELSE NextSessionUid(work)

LEMMA Effects ==
    ASSUME SaveInv, [Next]_vars
    PROVE  Effect
<1>1. CASE Crash \/ UNCHANGED vars
  BY <1>1 DEF Crash, vars, ids, Effect, DataStays, TransactionEnds
<1>2. ASSUME NEW t \in Threads, Handle(t) \/ Step(t) \/ Fault(t) PROVE Effect
  <2>1. CASE Handle(t) \/ Respond(t) \/ Busy(t) \/ QueryFails(t)
    BY <2>1 DEF Handle, Refuse, Begin, Accept, Respond, Busy, QueryFails, ids, Effect, DataStays
  <2>2. CASE Query(t) \/ Finalize(t) \/ Reserve(t) \/ Promote(t) \/ BeginExclusive(t)
    BY <2>2 DEF Query, Finalize, Reserve, Promote, BeginExclusive, ids, Effect, DataStays
  <2>3. CASE GetRadish(t) \/ GetUpgrades(t) \/ GetSession(t)
    BY <2>3 DEF GetRadish, GetUpgrades, GetSession, ids, Effect, DataStays
  <2>4. CASE AddSession(t)
    <3>1. DataStays \/ SessionStarts(SessionRow(t))
      BY <2>4 DEF AddSession, Execute, SessionRow, DataStays, SessionStarts
    <3> QED
      BY <3>1 DEF Effect
  <2>5. CASE Commit(t) \/ StatementFails(t)
    BY <2>5 DEF Commit, StatementFails, ids, Effect, TransactionEnds, DataStays
  <2>6. CASE Update(t)
    <3>1. work \in Shape /\ UNCHANGED <<db, issued>>
      BY <2>6 DEF SaveInv, Data, Update, SetRadish, SetUpgrade, DropSession, Execute, ids
    <3>2. /\ work'.uid = work.uid /\ work'.pass = work.pass
          /\ \A i \in Uids : work'.session[i] \in {work.session[i], NoSid}
      <4>1. CASE SetRadish(t)
        BY <3>1, <4>1 DEF SetRadish, Execute, Shape
      <4>2. CASE SetUpgrade(t)
        <5>1. work'.uid = work.uid /\ work'.pass = work.pass /\ work'.session = work.session
          BY <3>1, <4>2 DEF SetUpgrade, Execute, Shape
        <5> QED
          BY <5>1
      <4>3. CASE DropSession(t)
        BY <3>1, <4>3 DEF DropSession, Execute, Shape
      <4> QED
        BY <2>6, <4>1, <4>2, <4>3 DEF Update
    <3> QED
      BY <3>1, <3>2 DEF Effect, TransactionGoesOn
  <2>7. CASE InsertUser(t)
    <3>1. req[t].name \in Names /\ req[t].pass \in Passwords
      BY <2>7 DEF InsertUser, SaveInv, Place, LockInv, ControlType, Requests, NoRequest
    <3> QED
      BY <2>7, <3>1 DEF InsertUser, Effect, UserJoins, ids
  <2> QED
    BY <1>2, <2>1, <2>2, <2>3, <2>4, <2>5, <2>6, <2>7 DEF Step, Work, Login, Fault
<1> QED
  BY <1>1, <1>2 DEF Next

\* Users keep their id and their password.
LEMMA AccountsStay ==
    ASSUME SaveInv, AccountInv, Effect, NEW n \in Names, Registered(db, n)
    PROVE  db'.uid[n] = db.uid[n] /\ db'.pass[n] = db.pass[n]
<1>1. db \in Shape
  BY DEF SaveInv, Data
<1>2. ASSUME NEW m \in Names, NEW p \in Passwords, UserJoins(m, p)
      PROVE  db'.uid[n] = db.uid[n] /\ db'.pass[n] = db.pass[n]
  BY <1>1, <1>2 DEF UserJoins, WithUser, Shape, Registered
<1> QED
  BY <1>2 DEF Effect, DataStays, TransactionEnds, TransactionGoesOn, SessionStarts, AccountInv

LEMMA AccountNext ==
    ASSUME SaveInv, AccountInv, Effect
    PROVE  AccountInv'
<1> USE DEF AccountInv
<1>1. db \in Shape /\ work \in Shape
  BY DEF SaveInv, Data
<1>2. CASE DataStays
  BY <1>2 DEF DataStays, NextUid, Registered
<1>3. CASE TransactionEnds
  <2>1. db'.uid = db.uid /\ work'.uid = db'.uid /\ work'.pass = db'.pass
    BY <1>3 DEF TransactionEnds
  <2> QED
    BY <2>1 DEF NextUid, Registered
<1>4. CASE TransactionGoesOn
  BY <1>4 DEF TransactionGoesOn, NextUid, Registered
<1>5. ASSUME NEW i, SessionStarts(i) PROVE AccountInv'
  BY <1>1, <1>5 DEF SessionStarts, NextUid, Registered, Shape
<1>6. ASSUME NEW n \in Names, NEW p \in Passwords, UserJoins(n, p) PROVE AccountInv'
  <2>1. CASE Registered(db, n)
    BY <1>6, <2>1 DEF UserJoins, WithUser, NextUid, Registered
  <2>2. CASE ~ Registered(db, n)
    <3> DEFINE users == {m \in Names : Registered(db, m)}
    <3>1. PICK k : k = NextUid(db)
      OBVIOUS
    <3>2. users' = users \cup {n} /\ n \notin users
      BY <1>1, <1>6, <2>2, <3>1, NextUidType DEF UserJoins, WithUser, Registered, Shape, Uids
    <3>3. IsFiniteSet(users)
      BY NamesAssumption, FS_Subset
    <3>4. Cardinality(users) \in Nat /\ Cardinality(users') = Cardinality(users) + 1
      BY <3>2, <3>3, FS_AddElement, FS_CardinalityType
    <3>5. k = Cardinality(users) + 1 /\ NextUid(db)' = k + 1
      BY <3>1, <3>4 DEF NextUid
    <3>6. \A m \in Names : db'.uid[m] = IF m = n THEN k ELSE db.uid[m]
      BY <1>1, <1>6, <2>2, <3>1 DEF UserJoins, WithUser, Shape
    <3>7. \A m \in Names : db.uid[m] \in Nat /\ db.uid[m] < k
      BY <1>1, <3>1, MaxLoginsAssumption, NamesAssumption, FS_CardinalityType DEF Shape, Uids
    <3>8. \A m \in Names : db'.uid[m] < NextUid(db)'
      BY <3>4, <3>5, <3>6, <3>7
    <3>9. \A l, m \in Names : Registered(db, l)' /\ db'.uid[m] = db'.uid[l] => m = l
      BY <3>6, <3>7 DEF Registered
    <3> QED
      BY <1>6, <3>8, <3>9 DEF UserJoins
  <2> QED
    BY <2>1, <2>2
<1> QED
  BY <1>2, <1>3, <1>4, <1>5, <1>6 DEF Effect

LEMMA SidsDrawn ==
    ASSUME NEW sid \in Sids
    PROVE  /\ sid.chars = 32 /\ sid.number \in 0 .. MaxLogins
           /\ sid = SessionId(sid.number)
  BY DEF Sids, SessionId

\* Sessions end, and one may start, in a row of its own and with a new id.
LEMMA TableMoves ==
    ASSUME SaveInv, TypeOK, Effect
    PROVE  \E r : \A i \in Uids, sid \in Sids : InTable(i, sid)' =>
              InTable(i, sid) \/ (i = r /\ sid.number = issued + 1 /\ issued' = issued + 1)
<1>1. db \in Shape /\ work \in Shape /\ NoSid \notin Sids
  BY SidsDrawn DEF SaveInv, Data, NoSid
<1>2. CASE DataStays
  BY <1>2 DEF DataStays, InTable
<1>3. CASE TransactionEnds
  BY <1>3 DEF TransactionEnds, InTable
<1>4. CASE TransactionGoesOn
  BY <1>1, <1>4 DEF TransactionGoesOn, InTable
<1>5. ASSUME NEW r, SessionStarts(r)
      PROVE  \A i \in Uids, sid \in Sids : InTable(i, sid)' =>
                InTable(i, sid) \/ (i = r /\ sid.number = issued + 1 /\ issued' = issued + 1)
  <2>1. \A i \in Uids : work'.session[i] = IF i = r THEN NewSid ELSE work.session[i]
    BY <1>1, <1>5 DEF SessionStarts, Shape
  <2>2. NewSid.number = issued + 1
    BY DEF NewSid, SessionId
  <2> QED
    BY <1>5, <2>1, <2>2 DEF SessionStarts, InTable
<1>6. ASSUME NEW n \in Names, NEW p \in Passwords, UserJoins(n, p)
      PROVE  \A i \in Uids, sid \in Sids : InTable(i, sid)' => InTable(i, sid)
  <2>1. db'.session = db.session /\ work'.session = db.session
    BY <1>1, <1>6 DEF UserJoins, WithUser, Shape
  <2> QED
    BY <2>1 DEF InTable
<1> QED
  BY <1>2, <1>3, <1>4, <1>5, <1>6 DEF Effect

LEMMA IssuedGrows ==
    ASSUME SaveInv, Effect
    PROVE  issued \in Nat /\ issued' \in Nat /\ issued <= issued'
  BY DEF SaveInv, Data, Effect, DataStays, TransactionEnds, TransactionGoesOn, SessionStarts,
         UserJoins

LEMMA TableNext ==
    ASSUME SaveInv, TypeOK, TableInv, Effect
    PROVE  TableInv'
<1>1. PICK r : \A i \in Uids, sid \in Sids : InTable(i, sid)' =>
          InTable(i, sid) \/ (i = r /\ sid.number = issued + 1 /\ issued' = issued + 1)
  BY TableMoves
<1>2. issued \in Nat /\ issued' \in Nat /\ issued <= issued'
  BY IssuedGrows
<1>3. ASSUME NEW sid \in Sids, NEW i \in Uids, NEW j \in Uids, InTable(i, sid)'
      PROVE  /\ 0 < sid.number /\ sid.number <= issued'
             /\ InTable(j, sid)' => i = j
  <2>1. sid.number \in Nat
    BY SidsDrawn
  <2>2. InTable(i, sid) => 0 < sid.number /\ sid.number <= issued
    BY DEF TableInv
  <2>3. InTable(j, sid) => 0 < sid.number /\ sid.number <= issued
    BY DEF TableInv
  <2>4. InTable(i, sid) /\ InTable(j, sid) => i = j
    BY DEF TableInv
  <2> QED
    BY <1>1, <1>2, <1>3, <2>1, <2>2, <2>3, <2>4
<1> QED
  BY <1>3 DEF TableInv

LEMMA BelongsStays ==
    ASSUME SaveInv, TypeOK, AccountInv, Effect,
           NEW sid \in Sids, NEW n \in Names, NEW p, Belongs(sid, n, p)
    PROVE  Belongs(sid, n, p)'
<1>1. PICK r : \A i \in Uids, s \in Sids : InTable(i, s)' =>
          InTable(i, s) \/ (i = r /\ s.number = issued + 1 /\ issued' = issued + 1)
  BY TableMoves
<1>2. issued \in Nat /\ issued' \in Nat /\ issued <= issued'
  BY IssuedGrows
<1>3. db'.uid[n] = db.uid[n] /\ db'.pass[n] = db.pass[n]
  BY AccountsStay DEF Belongs, Matches
<1>4. sid.number \in Nat
  BY SidsDrawn
<1>5. \A i \in Uids : InTable(i, sid)' => InTable(i, sid)
  BY <1>1, <1>2, <1>4 DEF Belongs
<1> QED
  BY <1>2, <1>3, <1>4, <1>5 DEF Belongs, Matches, Registered

-----------------------------------------------------------------------------
(* Types and bounds.                                                       *)

LEMMA LoginRequest ==
    ASSUME NEW r \in Requests, r.kind \in {"create", "login"}
    PROVE  r.name \in Names /\ r.pass \in Passwords
  BY DEF Requests, NoRequest

\* A login that adds its session is one of those that may draw an id.
LEMMA RoomNext ==
    ASSUME SaveInv, TypeInv, [Next]_vars
    PROVE  issued' + Cardinality({t \in Threads : Draws(t)}') <= MaxLogins
<1> DEFINE D == {t \in Threads : Draws(t)}
<1>1. PICK E : E = D'
  OBVIOUS
<1> SUFFICES issued' + Cardinality(E) <= MaxLogins
  BY <1>1
<1>2. /\ IsFiniteSet(D) /\ Cardinality(D) \in Nat
      /\ issued + Cardinality(D) <= MaxLogins
      /\ issued \in Nat /\ MaxLogins \in Nat
  BY ThreadsAssumption, FS_Subset, FS_CardinalityType, MaxLoginsAssumption DEF TypeInv, TypeOK
<1>3. pc \in [Threads -> Steps] /\ req \in [Threads -> Requests]
  BY DEF TypeInv, TypeOK
<1>4. ASSUME E \subseteq D, issued' = issued PROVE issued' + Cardinality(E) <= MaxLogins
  <2>1. Cardinality(E) <= Cardinality(D) /\ Cardinality(E) \in Nat
    BY <1>2, <1>4, FS_Subset, FS_CardinalityType
  <2> QED
    BY <1>2, <1>4, <2>1
<1>5. CASE Crash \/ UNCHANGED vars
  <2>1. E \subseteq D /\ issued' = issued
    BY <1>1, <1>5 DEF Crash, vars, local, ids, Draws, NoRequest
  <2> QED
    BY <1>1, <1>4, <2>1
<1>6. ASSUME NEW t \in Threads, NEW r \in Requests, Begin(t, r)
      PROVE  issued' + Cardinality(E) <= MaxLogins
  <2>1. /\ issued' = issued /\ pc[t] = "idle"
        /\ \A u \in Threads \ {t} : pc'[u] = pc[u] /\ req'[u] = req[u]
        /\ req'[t] = r
    BY <1>3, <1>6 DEF Begin, Accept, Goto, ids
  <2>2. CASE r.kind # "login"
    <3>1. E \subseteq D
      BY <1>1, <2>1, <2>2 DEF Draws
    <3> QED
      BY <1>4, <2>1, <3>1
  <2>3. CASE r.kind = "login"
    <3> DEFINE L == {u \in Threads : req[u].kind = "login" /\ pc[u] # "done"}
    <3>1. IsFiniteSet(L) /\ Cardinality(L) \in Nat /\ issued + Cardinality(L) < MaxLogins
      BY <1>6, <2>3, ThreadsAssumption, FS_Subset, FS_CardinalityType
      DEF Begin, Possible, Logins
    <3>2. E \subseteq L \cup {t}
      BY <1>1, <2>1 DEF Draws, Queries
    <3> HIDE DEF L
    <3>3. IsFiniteSet(L \cup {t}) /\ Cardinality(L \cup {t}) <= Cardinality(L) + 1
          /\ Cardinality(L \cup {t}) \in Nat
      <4>1. /\ IsFiniteSet(L \cup {t})
            /\ \/ Cardinality(L \cup {t}) = Cardinality(L)
               \/ Cardinality(L \cup {t}) = Cardinality(L) + 1
        BY <3>1, FS_AddElement
      <4> QED
        BY <3>1, <4>1
    <3>4. Cardinality(E) <= Cardinality(L \cup {t}) /\ Cardinality(E) \in Nat
      BY <3>2, <3>3, FS_Subset, FS_CardinalityType
    <3> QED
      BY <1>2, <2>1, <3>1, <3>3, <3>4
  <2> QED
    BY <2>2, <2>3
<1>7. ASSUME NEW t \in Threads, AddSession(t)
      PROVE  issued' + Cardinality(E) <= MaxLogins
  <2>1. /\ t \in D /\ issued' \in {issued, issued + 1}
        /\ \A u \in Threads : req'[u] = req[u]
        /\ \A u \in Threads \ {t} : pc'[u] = pc[u]
        /\ pc'[t] = "get_session"
    BY <1>3, <1>7 DEF AddSession, Goto, Draws, SaveInv, Place, LoginSteps
  <2>2. E \subseteq D \ {t}
    BY <1>1, <2>1 DEF Draws, Queries
  <2>3. IsFiniteSet(D \ {t}) /\ Cardinality(D \ {t}) = Cardinality(D) - 1
    BY <1>2, <2>1, FS_RemoveElement
  <2>4. Cardinality(E) <= Cardinality(D \ {t}) /\ Cardinality(E) \in Nat
    BY <2>2, <2>3, FS_Subset, FS_CardinalityType
  <2> QED
    BY <1>2, <2>1, <2>3, <2>4
<1>8. ASSUME NEW t \in Threads, Handle(t) \/ Step(t) \/ Fault(t), ~ AddSession(t),
             \A r \in Requests : ~ Begin(t, r)
      PROVE  issued' + Cardinality(E) <= MaxLogins
  <2> USE DEF Goto, Answer
  <2>1. ASSUME issued' = issued, req' = req,
               NEW s \in Steps, pc' = [pc EXCEPT ![t] = s],
               s \in Queries \cup {"begin", "get_radish", "get_upgrades", "add_session"} =>
                   pc[t] \in Queries \cup {"begin", "get_radish", "get_upgrades", "add_session"}
        PROVE  issued' + Cardinality(E) <= MaxLogins
    <3>1. E \subseteq D
      BY <1>1, <1>3, <2>1 DEF Draws
    <3> QED
      BY <1>4, <2>1, <3>1
  <2>2. ASSUME issued' = issued, req' = req, pc' = [pc EXCEPT ![t] = "done"]
        PROVE  issued' + Cardinality(E) <= MaxLogins
    BY <2>1, <2>2 DEF Steps, Queries
  <2>3. CASE Refuse(t) \/ InsertUser(t) \/ Commit(t) \/ Busy(t) \/ Fault(t)
    <3>1. issued' = issued /\ req' = req /\ pc' = [pc EXCEPT ![t] = "done"]
      BY <2>3 DEF Refuse, InsertUser, Commit, Busy, Fault, QueryFails, StatementFails, ids
    <3> QED
      BY <2>2, <3>1
  <2>4. CASE Query(t) \/ Reserve(t) \/ Promote(t)
    <3>1. E \subseteq D /\ issued' = issued
      BY <1>1, <2>4 DEF Query, Reserve, Promote, local, ids, Draws
    <3> QED
      BY <1>4, <3>1
  <2>5. CASE Finalize(t)
    <3>1. issued' = issued /\ req' = req /\ pc[t] \in Queries
      BY <2>5 DEF Finalize, ids
    <3>2. CASE GivesUp(req[t].kind, pc[t], found[t])
      <4>1. pc' = [pc EXCEPT ![t] = "done"]
        BY <2>5, <3>2 DEF Finalize
      <4> QED
        BY <2>2, <3>1, <4>1
    <3>3. CASE ~ GivesUp(req[t].kind, pc[t], found[t])
      <4>1. PICK s : s = After(req[t].kind, pc[t])
        OBVIOUS
      <4>2. pc' = [pc EXCEPT ![t] = s]
        BY <2>5, <3>3, <4>1 DEF Finalize
      <4>3. s \in Steps
        BY <3>1, <4>1, RequestKinds DEF After, SaveInv, LockInv, ControlType, Steps, Queries
      <4> QED
        BY <2>1, <3>1, <4>2, <4>3
    <3> QED
      BY <3>2, <3>3
  <2>6. CASE BeginExclusive(t)
    <3>1. PICK s \in {"get_radish", "set_radish"} : pc' = [pc EXCEPT ![t] = s]
      BY <2>6 DEF BeginExclusive
    <3> QED
      BY <2>1, <2>6, <3>1 DEF BeginExclusive, Steps, Statements, Queries, ids
  <2>7. CASE GetRadish(t)
    BY <2>1, <2>7 DEF GetRadish, Steps, Statements, Queries, ids
  <2>8. CASE GetUpgrades(t)
    BY <2>1, <2>8 DEF GetUpgrades, Steps, Statements, Queries, ids
  <2>9. CASE GetSession(t)
    BY <2>1, <2>9 DEF GetSession, Steps, Statements, Queries, ids
  <2>10. CASE Update(t)
    <3>1. PICK s \in {"set_upgrade", "drop_session", "commit"} : pc' = [pc EXCEPT ![t] = s]
      BY <2>10 DEF Update, SetRadish, SetUpgrade, DropSession
    <3>2. issued' = issued /\ req' = req
      BY <2>10 DEF Update, SetRadish, SetUpgrade, DropSession, ids
    <3> QED
      BY <2>1, <3>1, <3>2 DEF Steps, Statements, Queries
  <2>11. CASE Respond(t)
    <3>1. E \subseteq D /\ issued' = issued
      BY <1>1, <1>3, <2>11 DEF Respond, NoRequest, Draws
    <3> QED
      BY <1>4, <3>1
  <2> QED
    BY <1>8, <2>3, <2>4, <2>5, <2>6, <2>7, <2>8, <2>9, <2>10, <2>11
    DEF Handle, Step, Work, Login
<1> QED
  BY <1>5, <1>6, <1>7, <1>8 DEF Next

HandlerTypes ==
    /\ found \in [Threads -> BOOLEAN]
    /\ data \in [Threads -> GameData]
    /\ status \in [Threads -> {0, 200, 400, 422, 500}]
    /\ leaked \in BOOLEAN
    /\ known \subseteq Told
    /\ \A t \in Threads : pc[t] \notin {"commit", "done"} => data[t].sid = NoSid

\* A step that reads nothing of the database for a login.
LEMMA HandlerStep ==
    ASSUME TypeInv, NEW t \in Threads, \A u \in Threads \ {t} : pc'[u] = pc[u],
           found' \in [Threads -> BOOLEAN], leaked' \in BOOLEAN, known' \subseteq Told,
           data' = data, pc[t] \notin {"commit", "done"} \/ pc'[t] \in {"commit", "done"},
           status' \in [Threads -> {0, 200, 400, 422, 500}]
    PROVE  HandlerTypes'
  BY DEF TypeInv, TypeOK, HandlerTypes

LEMMA FreshGameDataType == FreshGameData \in GameData /\ FreshGameData.sid = NoSid
  BY DEF FreshGameData, GameData, Upgrades, NoUpgrades

LEMMA HandlerNext ==
    ASSUME SaveInv, TypeInv, [Next]_vars
    PROVE  HandlerTypes'
<1>1. /\ pc \in [Threads -> Steps] /\ req \in [Threads -> Requests]
      /\ found \in [Threads -> BOOLEAN] /\ data \in [Threads -> GameData]
      /\ status \in [Threads -> {0, 200, 400, 422, 500}]
      /\ leaked \in BOOLEAN /\ known \subseteq Told /\ work \in Databases
  BY DEF TypeInv, TypeOK
<1>2. CASE UNCHANGED vars
  BY <1>2 DEF vars, local, ids, TypeInv, TypeOK, HandlerTypes
<1>3. CASE Crash
  BY <1>1, <1>3, FreshGameDataType DEF Crash, ids, HandlerTypes
<1>4. ASSUME NEW t \in Threads, Handle(t) \/ Step(t) \/ Fault(t) PROVE HandlerTypes'
  <2> USE DEF Goto, Answer
  <2>1. CASE Refuse(t)
    <3>1. PICK c \in {400, 422} : pc' = [pc EXCEPT ![t] = "done"] /\ status' = [status EXCEPT ![t] = c]
      BY <2>1 DEF Refuse
    <3> QED
      BY <1>1, <2>1, <3>1, HandlerStep DEF Refuse, ids
  <2>2. ASSUME NEW r \in Requests, Begin(t, r) PROVE HandlerTypes'
    BY <1>1, <2>2, HandlerStep DEF Begin, Accept, ids
  <2>3. CASE Query(t)
    <3>1. HasRow(t) \in BOOLEAN
      BY <2>3 DEF Query, Queries, HasRow, Online, Registered, Holds
    <3> QED
      BY <1>1, <2>3, <3>1, HandlerStep DEF Query, Queries, ids
  <2>4. CASE Finalize(t)
    <3>1. PICK s : pc' = [pc EXCEPT ![t] = s]
      BY <2>4 DEF Finalize
    <3>2. status' \in [Threads -> {0, 200, 400, 422, 500}]
      BY <1>1, <2>4 DEF Finalize
    <3>3. /\ found' = found /\ leaked' = leaked /\ known' = known /\ data' = data
          /\ pc[t] \notin {"commit", "done"}
      BY <2>4 DEF Finalize, Queries, ids
    <3>4. \A u \in Threads \ {t} : pc'[u] = pc[u]
      BY <1>1, <3>1
    <3> QED
      BY <1>1, <3>2, <3>3, <3>4, HandlerStep
  <2>5. CASE Reserve(t) \/ Promote(t)
    BY <1>1, <2>5, HandlerStep DEF Reserve, Promote, local, ids
  <2>6. CASE InsertUser(t) \/ Commit(t) \/ Busy(t)
    BY <1>1, <2>6, HandlerStep DEF InsertUser, Commit, Busy, ids
  <2>7. CASE BeginExclusive(t)
    BY <1>1, <2>7, HandlerStep DEF BeginExclusive, ids
  <2>8. CASE Fault(t)
    <3>1. /\ pc' = [pc EXCEPT ![t] = "done"] /\ status' = [status EXCEPT ![t] = 500]
          /\ found' = found /\ known' = known /\ data' = data
          /\ leaked' = TRUE \/ leaked' = leaked
      BY <2>8 DEF Fault, QueryFails, StatementFails, ids
    <3>2. status' \in [Threads -> {0, 200, 400, 422, 500}] /\ pc'[t] = "done"
          /\ \A u \in Threads \ {t} : pc'[u] = pc[u]
      BY <1>1, <3>1
    <3>3. leaked' \in BOOLEAN
      BY <1>1, <3>1
    <3> QED
      BY <1>1, <3>1, <3>2, <3>3, HandlerStep
  <2>9. CASE AddSession(t)
    BY <1>1, <2>9, HandlerStep DEF AddSession
  <2>10. CASE Update(t)
    <3>1. /\ found' = found /\ leaked' = leaked /\ known' = known /\ data' = data
          /\ status' = status /\ pc[t] \in UpdateSteps
      BY <2>10 DEF Update, SetRadish, SetUpgrade, DropSession, UpdateSteps, ids
    <3>2. \A u \in Threads \ {t} : pc'[u] = pc[u]
      <4>1. PICK s : pc' = [pc EXCEPT ![t] = s]
        BY <2>10 DEF Update, SetRadish, SetUpgrade, DropSession
      <4> QED
        BY <1>1, <4>1
    <3> QED
      BY <1>1, <3>1, <3>2, HandlerStep DEF UpdateSteps
  <2>11. CASE GetRadish(t) \/ GetUpgrades(t) \/ GetSession(t)
    <3>1. req[t].name \in Names
      BY <1>1, <2>11, LoginRequest
      DEF SaveInv, Place, LoginSteps, GetRadish, GetUpgrades, GetSession
    <3>2. /\ work.radish[req[t].name] \in Nat
          /\ work.upgrades[req[t].name] \in Upgrades
          /\ Online(work, req[t].name) =>
                 work.session[work.uid[req[t].name]] \in Sids \cup {NoSid}
      BY <1>1, <3>1 DEF Databases, Online, Registered
    <3>3. PICK d \in GameData : data' = [data EXCEPT ![t] = d]
                                /\ (GetSession(t) \/ d.sid = data[t].sid)
      <4>1. data[t] \in GameData
        BY <1>1
      <4>2. CASE GetRadish(t)
        <5> DEFINE x == IF Matches(work, req[t].name, req[t].pass)
                        THEN work.radish[req[t].name] ELSE data[t].radish
        <5>1. x \in Nat \cup {Garbage}
          BY <3>2, <4>1 DEF GameData
        <5>2. data' = [data EXCEPT ![t] = [data[t] EXCEPT !.radish = x]]
          BY <1>1, <4>2 DEF GetRadish
        <5> HIDE DEF x
        <5>3. [data[t] EXCEPT !.radish = x] \in GameData
              /\ [data[t] EXCEPT !.radish = x].sid = data[t].sid
          BY <4>1, <5>1 DEF GameData
        <5> QED
          BY <5>2, <5>3
      <4>3. CASE GetUpgrades(t)
        <5> DEFINE x == IF Matches(work, req[t].name, req[t].pass)
                        THEN work.upgrades[req[t].name] ELSE data[t].upgrades
        <5>1. x \in Upgrades
          BY <3>2, <4>1 DEF GameData
        <5>2. data' = [data EXCEPT ![t] = [data[t] EXCEPT !.upgrades = x]]
          BY <1>1, <4>3 DEF GetUpgrades
        <5> HIDE DEF x
        <5>3. [data[t] EXCEPT !.upgrades = x] \in GameData
              /\ [data[t] EXCEPT !.upgrades = x].sid = data[t].sid
          BY <4>1, <5>1 DEF GameData
        <5> QED
          BY <5>2, <5>3
      <4>4. CASE GetSession(t)
        <5> DEFINE x == IF Matches(work, req[t].name, req[t].pass) /\ Online(work, req[t].name)
                        THEN work.session[work.uid[req[t].name]] ELSE data[t].sid
        <5>1. x \in Sids \cup {NoSid}
          BY <3>2, <4>1 DEF GameData
        <5>2. data' = [data EXCEPT ![t] = [data[t] EXCEPT !.sid = x]]
          BY <1>1, <4>4 DEF GetSession
        <5> HIDE DEF x
        <5>3. [data[t] EXCEPT !.sid = x] \in GameData
          BY <4>1, <5>1 DEF GameData
        <5> QED
          BY <4>4, <5>2, <5>3
      <4> QED
        BY <2>11, <4>2, <4>3, <4>4
    <3>4. /\ found' = found /\ status' = status /\ leaked' = leaked /\ known' = known
          /\ \A u \in Threads \ {t} : pc'[u] = pc[u] /\ data'[u] = data[u]
          /\ data' \in [Threads -> GameData] /\ data'[t] = d
          /\ GetSession(t) => pc'[t] = "commit"
          /\ pc[t] \notin {"commit", "done"}
      BY <1>1, <2>11, <3>3 DEF GetRadish, GetUpgrades, GetSession, ids
    <3> QED
      BY <1>1, <3>3, <3>4 DEF TypeInv, HandlerTypes
  <2>12. CASE Respond(t)
    <3>1. /\ data' = [data EXCEPT ![t] = FreshGameData] /\ pc' = [pc EXCEPT ![t] = "idle"]
          /\ found' = [found EXCEPT ![t] = FALSE] /\ status' = [status EXCEPT ![t] = 0]
          /\ leaked' = leaked /\ known' \subseteq Told
      BY <1>1, <2>12 DEF Respond
    <3> QED
      BY <1>1, <3>1, FreshGameDataType DEF TypeInv, HandlerTypes
  <2> QED
    BY <1>4, <2>1, <2>2, <2>3, <2>4, <2>5, <2>6, <2>7, <2>8, <2>9, <2>10, <2>11, <2>12
    DEF Handle, Step, Work, Login
<1> QED
  BY <1>2, <1>3, <1>4 DEF Next

LEMMA TypeNext ==
    ASSUME SaveInv, TypeInv, [Next]_vars
    PROVE  TypeInv'
<1>1. SaveInv' /\ HandlerTypes' /\ Effect
  BY SaveNext, HandlerNext, Effects
<1>2. issued' + Cardinality({t \in Threads : Draws(t)})' <= MaxLogins
  BY RoomNext
<1>3. issued' \in 0 .. MaxLogins
  <2>1. PICK k : k = Cardinality({t \in Threads : Draws(t)})'
    OBVIOUS
  <2>2. k \in Nat
    BY <2>1, ThreadsAssumption, FS_Subset, FS_CardinalityType
  <2>3. issued' \in Nat
    BY <1>1 DEF SaveInv, Data
  <2> QED
    BY <1>2, <2>1, <2>2, <2>3, MaxLoginsAssumption
<1>4. db' \in Shape /\ work' \in Shape /\ db \in Databases /\ work \in Databases
  BY <1>1 DEF SaveInv, Data, TypeInv, TypeOK
<1>5. \A i \in Uids : db'.session[i] \in Sids \cup {NoSid}
                      /\ work'.session[i] \in Sids \cup {NoSid}
  <2>1. \A i \in Uids : db.session[i] \in Sids \cup {NoSid}
                        /\ work.session[i] \in Sids \cup {NoSid}
    BY <1>4 DEF Databases
  <2>2. CASE DataStays \/ TransactionEnds \/ TransactionGoesOn
    BY <2>1, <2>2 DEF DataStays, TransactionEnds, TransactionGoesOn
  <2>3. ASSUME NEW i, SessionStarts(i)
        PROVE  \A j \in Uids : db'.session[j] \in Sids \cup {NoSid}
                               /\ work'.session[j] \in Sids \cup {NoSid}
    <3>1. NewSid \in Sids
      BY <1>3, <2>3 DEF SessionStarts, NewSid, Sids
    <3>2. \A j \in Uids : work'.session[j] \in {NewSid, work.session[j]}
      BY <1>4, <2>3 DEF SessionStarts, Databases
    <3> QED
      BY <2>1, <2>3, <3>1, <3>2 DEF SessionStarts
  <2>4. ASSUME NEW n \in Names, NEW p \in Passwords, UserJoins(n, p)
        PROVE  db'.session = db.session /\ work'.session = db.session
    BY <1>4, <2>4 DEF UserJoins, WithUser, Databases
  <2> QED
    BY <1>1, <2>1, <2>2, <2>3, <2>4 DEF Effect
<1>6. db' \in Databases /\ work' \in Databases
  BY <1>4, <1>5 DEF Shape, Databases
<1> QED
  BY <1>1, <1>2, <1>3, <1>6
  DEF TypeInv, TypeOK, HandlerTypes, SaveInv, LockInv, ControlType, Data

-----------------------------------------------------------------------------
(* Who reads which session.                                                *)

LEMMA OthersKeep ==
    ASSUME TypeOK, NEW t \in Threads, Handle(t) \/ Step(t) \/ Fault(t),
           NEW u \in Threads \ {t}
    PROVE  pc'[u] = pc[u] /\ req'[u] = req[u] /\ data'[u] = data[u] /\ status'[u] = status[u]
<1> USE DEF Goto, Answer, TypeOK
<1>1. CASE Handle(t)
  BY <1>1 DEF Handle, Refuse, Begin, Accept
<1>2. CASE Query(t) \/ Reserve(t) \/ Promote(t) \/ BeginExclusive(t) \/ Busy(t)
  BY <1>2 DEF Query, Reserve, Promote, BeginExclusive, Busy, local
<1>3. CASE Finalize(t)
  BY <1>3 DEF Finalize
<1>4. CASE InsertUser(t) \/ Commit(t) \/ Fault(t)
  BY <1>4 DEF InsertUser, Commit, Fault, QueryFails, StatementFails
<1>5. CASE Login(t)
  BY <1>5 DEF Login, GetRadish, GetUpgrades, AddSession, GetSession
<1>6. CASE Update(t)
  <2>1. PICK s : pc' = [pc EXCEPT ![t] = s]
    BY <1>6 DEF Update, SetRadish, SetUpgrade, DropSession
  <2>2. UNCHANGED <<req, data, status>>
    BY <1>6 DEF Update, SetRadish, SetUpgrade, DropSession
  <2> QED
    BY <2>1, <2>2
<1>7. CASE Respond(t)
  BY <1>7 DEF Respond
<1> QED
  BY <1>1, <1>2, <1>3, <1>4, <1>5, <1>6, <1>7 DEF Step, Work

\* A transaction has the database to itself.
LEMMA OthersQuiet ==
    ASSUME SaveInv, NEW t \in Threads, Handle(t) \/ Step(t) \/ Fault(t),
           NEW u \in Threads \ {t}, InTransaction(u)
    PROVE  UNCHANGED <<db, work>>
<1>1. lock[t] = "none" /\ ~ InTransaction(t)
  BY DEF SaveInv, LockInv
<1>2. ~ InsertUser(t) /\ ~ Login(t) /\ ~ Update(t) /\ ~ Commit(t) /\ ~ StatementFails(t)
  BY <1>1 DEF InsertUser, Login, GetRadish, GetUpgrades, AddSession, GetSession, Update,
              SetRadish, SetUpgrade, DropSession, Commit, StatementFails, InTransaction,
              Statements
<1> QED
  BY <1>2 DEF Handle, Refuse, Begin, Accept, Step, Work, Query, Finalize, Reserve, Promote,
              BeginExclusive, Busy, Respond, Fault, QueryFails

LEMMA OwnNext ==
    ASSUME SessionInv, [Next]_vars, NEW u \in Threads
    PROVE  OwnInv(u)'
<1>1. Effect /\ SaveInv /\ TypeOK /\ TypeInv /\ AccountInv
  BY Effects DEF SessionInv, TypeInv
<1>2. /\ pc \in [Threads -> Steps] /\ req \in [Threads -> Requests]
      /\ data \in [Threads -> GameData] /\ db \in Databases /\ work \in Databases
  BY <1>1 DEF TypeOK
<1>3. ASSUME req'[u] = req[u], data'[u].sid = data[u].sid PROVE OwnInv(u)'
  <2>1. PICK sid : sid = data[u].sid
    OBVIOUS
  <2>2. PICK n : n = req[u].name
    OBVIOUS
  <2>3. PICK p : p = req[u].pass
    OBVIOUS
  <2>4. CASE sid = NoSid
    BY <1>3, <2>1, <2>4 DEF OwnInv
  <2>5. CASE sid # NoSid
    <3>1. sid \in Sids
      BY <1>2, <2>1, <2>5 DEF GameData
    <3>2. req[u].kind = "login" /\ n \in Names /\ Belongs(sid, n, p)
      BY <2>1, <2>2, <2>3, <2>5 DEF SessionInv, OwnInv
    <3>3. Belongs(sid, n, p)'
      BY <1>1, <3>1, <3>2, BelongsStays
    <3> QED
      BY <1>3, <2>1, <2>2, <2>3, <3>2, <3>3 DEF OwnInv, Belongs
  <2> QED
    BY <2>4, <2>5
<1>4. ASSUME data'[u].sid = NoSid PROVE OwnInv(u)'
  BY <1>4 DEF OwnInv
<1>5. CASE GetSession(u)
  <2>1. PICK n : n = req[u].name
    OBVIOUS
  <2>2. PICK p : p = req[u].pass
    OBVIOUS
  <2>3. CASE ~ (Matches(work, n, p) /\ Online(work, n))
    BY <1>2, <1>3, <1>5, <2>1, <2>2, <2>3 DEF GetSession
  <2>4. CASE Matches(work, n, p) /\ Online(work, n)
    <3>1. req[u].kind = "login" /\ n \in Names
      BY <1>1, <1>2, <1>5, <2>1, LoginRequest DEF GetSession, SaveInv, Place, LoginSteps
    <3>2. work.uid[n] \in Uids /\ db.uid = work.uid /\ db.pass = work.pass
      BY <1>1, <1>2, <2>4, <3>1 DEF AccountInv, Databases, Matches, Registered
    <3>3. PICK sid : sid = work.session[work.uid[n]]
      OBVIOUS
    <3>4. sid \in Sids /\ sid # NoSid
      BY <1>2, <2>4, <3>2, <3>3 DEF Databases, Online
    <3>5. Belongs(sid, n, p)
      <4>1. InTable(work.uid[n], sid)
        BY <3>3 DEF InTable
      <4>2. sid.number <= issued /\ \A i \in Uids : InTable(i, sid) => i = work.uid[n]
        BY <3>2, <3>4, <4>1 DEF SessionInv, TableInv
      <4> QED
        BY <2>4, <3>2, <4>2 DEF Belongs, Matches, Registered
    <3>6. /\ db' = db /\ work' = work /\ issued' = issued /\ req' = req
          /\ data'[u].sid = sid
      BY <1>2, <1>5, <2>1, <2>2, <2>4, <3>3 DEF GetSession, ids
    <3>7. Belongs(sid, n, p)'
      BY <3>5, <3>6 DEF Belongs, Matches, Registered, InTable
    <3> QED
      BY <2>1, <2>2, <3>1, <3>6, <3>7 DEF OwnInv, Belongs
  <2> QED
    BY <2>3, <2>4
<1>6. CASE Crash
  BY <1>4, <1>6 DEF Crash, FreshGameData
<1>7. CASE UNCHANGED vars
  BY <1>3, <1>7 DEF vars, local
<1>8. ASSUME NEW t \in Threads, Handle(t) \/ Step(t) \/ Fault(t), t # u PROVE OwnInv(u)'
  BY <1>1, <1>3, <1>8, OthersKeep
<1>9. ASSUME Handle(u) \/ Step(u) \/ Fault(u), ~ GetSession(u) PROVE OwnInv(u)'
  <2>1. CASE \E r \in Requests : Begin(u, r)
    <3>1. data'[u].sid = NoSid
      BY <1>1, <2>1 DEF Begin, Accept, TypeInv
    <3> QED
      BY <1>4, <3>1
  <2>2. CASE Respond(u)
    <3>1. data'[u].sid = NoSid
      BY <1>2, <2>2 DEF Respond, FreshGameData
    <3> QED
      BY <1>4, <3>1
  <2>3. CASE GetRadish(u) \/ GetUpgrades(u)
    <3>1. data'[u].sid = data[u].sid /\ req'[u] = req[u]
      BY <1>2, <2>3 DEF GetRadish, GetUpgrades, GameData
    <3> QED
      BY <1>3, <3>1
  <2>4. CASE AddSession(u) \/ Update(u)
    <3>1. data' = data /\ req' = req
      BY <2>4 DEF AddSession, Update, SetRadish, SetUpgrade, DropSession
    <3> QED
      BY <1>3, <3>1
  <2>5. CASE \/ Refuse(u) \/ Query(u) \/ Finalize(u) \/ Reserve(u) \/ Promote(u)
             \/ BeginExclusive(u)
    <3>1. data' = data /\ req' = req
      BY <2>5 DEF Refuse, Query, Finalize, Reserve, Promote, BeginExclusive, local
    <3> QED
      BY <1>3, <3>1
  <2>6. CASE InsertUser(u) \/ Commit(u) \/ Busy(u) \/ Fault(u)
    <3>1. data' = data /\ req' = req
      BY <2>6 DEF InsertUser, Commit, Busy, Fault, QueryFails, StatementFails
    <3> QED
      BY <1>3, <3>1
  <2> QED
    BY <1>9, <2>1, <2>2, <2>3, <2>4, <2>5, <2>6 DEF Handle, Step, Work, Login
<1> QED
  BY <1>5, <1>6, <1>7, <1>8, <1>9 DEF Next

LEMMA KnownNext ==
    ASSUME SessionInv, [Next]_vars
    PROVE  KnownInv'
<1>1. Effect /\ SaveInv /\ TypeOK /\ AccountInv
  BY Effects DEF SessionInv, TypeInv
<1>2. ASSUME NEW k \in known
      PROVE  Belongs(SessionId(k.number), k.name, k.pass)'
  <2>1. k \in Told
    BY <1>1 DEF TypeOK
  <2>2. PICK sid : sid = SessionId(k.number)
    OBVIOUS
  <2>3. sid \in Sids /\ k.name \in Names
    BY <2>1, <2>2 DEF Told, Sids
  <2>4. Belongs(sid, k.name, k.pass)
    BY <2>2 DEF SessionInv, KnownInv
  <2>5. Belongs(sid, k.name, k.pass)'
    BY <1>1, <2>3, <2>4, BelongsStays
  <2> QED
    BY <2>2, <2>5
<1>3. ASSUME NEW k \in known', k \notin known
      PROVE  Belongs(SessionId(k.number), k.name, k.pass)'
  <2>1. PICK t \in Threads : Respond(t)
    <3>1. known' # known
      BY <1>3
    <3>2. PICK t \in Threads : Handle(t) \/ Step(t) \/ Fault(t)
      BY <3>1 DEF Next, vars, Crash, ids
    <3>3. ~ Handle(t) /\ ~ Fault(t)
      BY <3>1 DEF Handle, Refuse, Begin, Accept, Fault, QueryFails, StatementFails, ids
    <3>4. ~ Login(t) /\ ~ Update(t)
      BY <3>1 DEF Login, GetRadish, GetUpgrades, AddSession, GetSession, Update, SetRadish,
                  SetUpgrade, DropSession, ids
    <3>5. ~ Query(t) /\ ~ Finalize(t) /\ ~ Reserve(t) /\ ~ Promote(t) /\ ~ BeginExclusive(t)
          /\ ~ InsertUser(t) /\ ~ Commit(t) /\ ~ Busy(t)
      BY <3>1 DEF Query, Finalize, Reserve, Promote, BeginExclusive, InsertUser, Commit, Busy, ids
    <3> QED
      BY <3>2, <3>3, <3>4, <3>5 DEF Step, Work
  <2>2. /\ k \in Told /\ k.number = data[t].sid.number
        /\ k.name = req[t].name /\ k.pass = req[t].pass
    BY <1>3, <2>1 DEF Respond
  <2>3. data[t].sid \in Sids \cup {NoSid} /\ k.number # 0
    BY <1>1, <2>2 DEF TypeOK, GameData, Told
  <2>4. data[t].sid # NoSid /\ data[t].sid = SessionId(k.number)
    BY <2>2, <2>3, SidsDrawn DEF NoSid
  <2>5. Belongs(SessionId(k.number), k.name, k.pass)
    BY <2>2, <2>4 DEF SessionInv, OwnInv
  <2> QED
    BY <2>1, <2>5 DEF Respond, Belongs, Matches, Registered, InTable
<1> QED
  BY <1>2, <1>3 DEF KnownInv

-----------------------------------------------------------------------------
(* What a login has read.                                                  *)

LEMMA ReadNext ==
    ASSUME SessionInv, [Next]_vars, NEW u \in Threads
    PROVE  ReadInv(u)'
<1> DEFINE n == req[u].name
           Places == {"get_upgrades", "add_session", "get_session", "commit"}
<1>1. TypeOK /\ SaveInv /\ ReadInv(u) /\ Place(u)
  BY DEF SessionInv, TypeInv, SaveInv
<1>2. /\ pc \in [Threads -> Steps] /\ data \in [Threads -> GameData] /\ work \in Databases
  BY <1>1 DEF TypeOK
<1>3. ASSUME pc'[u] \notin Places PROVE ReadInv(u)'
  BY <1>3 DEF ReadInv
<1>4. CASE Crash
  BY <1>3, <1>4 DEF Crash
<1>5. CASE UNCHANGED vars
  BY <1>1, <1>5 DEF vars, local, ReadInv, Matches, Registered
<1>6. ASSUME NEW t \in Threads, Handle(t) \/ Step(t) \/ Fault(t), t # u PROVE ReadInv(u)'
  <2>1. pc'[u] = pc[u] /\ req'[u] = req[u] /\ data'[u] = data[u]
    BY <1>1, <1>6, OthersKeep
  <2>2. CASE InTransaction(u)
    <3>1. work' = work
      BY <1>1, <1>6, <2>2, OthersQuiet
    <3> QED
      BY <1>1, <2>1, <3>1 DEF ReadInv, Matches, Registered
  <2>3. CASE ~ InTransaction(u)
    BY <1>3, <2>1, <2>3 DEF InTransaction, Statements
  <2> QED
    BY <2>2, <2>3
<1>7. CASE GetRadish(u)
  BY <1>2, <1>7 DEF GetRadish, Goto, ReadInv, Matches, Registered
<1>8. CASE GetUpgrades(u)
  <2>1. /\ pc[u] = "get_upgrades" /\ req' = req /\ work' = work
        /\ data'[u] = [data[u] EXCEPT !.upgrades = IF Matches(work, n, req[u].pass)
                                                   THEN work.upgrades[n] ELSE @]
    BY <1>2, <1>8 DEF GetUpgrades
  <2>2. data'[u].radish = data[u].radish
        /\ Matches(work, n, req[u].pass) => data'[u].upgrades = work.upgrades[n]
    BY <1>2, <2>1 DEF GameData
  <2> QED
    BY <1>1, <2>1, <2>2 DEF ReadInv, Matches, Registered
<1>9. CASE AddSession(u)
  <2>1. /\ pc[u] = "add_session" /\ req' = req /\ data' = data
        /\ work'.uid = work.uid /\ work'.pass = work.pass
        /\ work'.radish = work.radish /\ work'.upgrades = work.upgrades
    BY <1>2, <1>9 DEF AddSession, Execute, Databases
  <2> QED
    BY <1>1, <2>1 DEF ReadInv, Matches, Registered
<1>10. CASE GetSession(u)
  <2>1. /\ pc[u] = "get_session" /\ req' = req /\ work' = work
        /\ data'[u].radish = data[u].radish /\ data'[u].upgrades = data[u].upgrades
    BY <1>2, <1>10 DEF GetSession, GameData
  <2> QED
    BY <1>1, <2>1 DEF ReadInv, Matches, Registered
<1>11. CASE Update(u)
  <2>1. req' = req /\ req[u].kind = "update"
    BY <1>1, <1>11 DEF Update, SetRadish, SetUpgrade, DropSession, Place, UpdateSteps
  <2> QED
    BY <2>1 DEF ReadInv
<1>12. CASE Handle(u)
  <2>1. ASSUME NEW r \in Requests, Begin(u, r) PROVE pc'[u] \notin Places
    BY <1>2, <2>1, RequestKinds DEF Begin, Accept, Goto, FirstStep
  <2> QED
    BY <1>2, <1>3, <1>12, <2>1 DEF Handle, Refuse, Answer, Goto
<1>13. CASE Query(u) \/ Reserve(u) \/ Promote(u)
  BY <1>3, <1>13 DEF Query, Reserve, Promote, Queries, local
<1>14. CASE Finalize(u)
  <2>1. req[u].kind \in {"create", "login", "update"}
    BY <1>1, <1>14, RequestKinds DEF Finalize, SaveInv, LockInv, ControlType
  <2>2. After(req[u].kind, pc[u]) \notin Places
    BY <2>1 DEF After
  <2> QED
    BY <1>2, <1>3, <1>14, <2>2 DEF Finalize, Answer, Goto
<1>15. CASE BeginExclusive(u)
  BY <1>2, <1>3, <1>15 DEF BeginExclusive, Goto
<1>16. CASE InsertUser(u) \/ Commit(u) \/ Busy(u) \/ Fault(u) \/ Respond(u)
  BY <1>2, <1>3, <1>16
  DEF InsertUser, Commit, Busy, Fault, QueryFails, StatementFails, Respond, Answer, Goto
<1> QED
  BY <1>4, <1>5, <1>6, <1>7, <1>8, <1>9, <1>10, <1>11, <1>12, <1>13, <1>14, <1>15, <1>16
  DEF Next, Step, Work, Login

\* The answer to a login is given by COMMIT.
LEMMA LoginIsAnswered ==
    ASSUME SaveInv, TypeInv, NEW u \in Threads, Handle(u) \/ Step(u) \/ Fault(u), ~ Commit(u),
           pc'[u] = "done", status'[u] = 200
    PROVE  data'[u].sid = NoSid
<1>1. pc \in [Threads -> Steps] /\ status \in [Threads -> {0, 200, 400, 422, 500}]
      /\ \A t \in Threads : pc[t] \notin {"commit", "done"} => data[t].sid = NoSid
  BY DEF TypeInv, TypeOK
<1> USE DEF Goto, Answer
<1>2. CASE Handle(u)
  <2>1. ASSUME NEW r \in Requests, Begin(u, r) PROVE FALSE
    BY <1>1, <2>1, RequestKinds DEF Begin, Accept, FirstStep
  <2> QED
    BY <1>1, <1>2, <2>1 DEF Handle, Refuse
<1>3. CASE InsertUser(u)
  BY <1>1, <1>3 DEF InsertUser
<1>4. CASE Busy(u) \/ Fault(u) \/ Respond(u) \/ BeginExclusive(u)
  BY <1>1, <1>4 DEF Busy, Fault, QueryFails, StatementFails, Respond, BeginExclusive
<1>5. CASE Query(u) \/ Reserve(u) \/ Promote(u)
  BY <1>5 DEF Query, Reserve, Promote, Queries, local
<1>6. CASE Finalize(u)
  <2>1. req[u].kind \in {"create", "login", "update"}
    BY <1>6, RequestKinds DEF Finalize, SaveInv, LockInv, ControlType
  <2>2. After(req[u].kind, pc[u]) # "done"
    BY <2>1 DEF After
  <2> QED
    BY <1>1, <1>6, <2>2 DEF Finalize
<1>7. ~ Login(u)
  BY <1>1 DEF Login, GetRadish, GetUpgrades, AddSession, GetSession
<1>8. ~ Update(u)
  <2>1. Update(u) => \E s \in {"set_upgrade", "drop_session", "commit"} : pc' = [pc EXCEPT ![u] = s]
    BY DEF Update, SetRadish, SetUpgrade, DropSession
  <2> QED
    BY <1>1, <2>1
<1> QED
  BY <1>2, <1>3, <1>4, <1>5, <1>6, <1>7, <1>8 DEF Step, Work

LEMMA CurrentNext ==
    ASSUME SessionInv, [Next]_vars, NEW u \in Threads
    PROVE  CurrentInv(u)'
<1>1. /\ TypeOK /\ TypeInv /\ SaveInv /\ AccountInv /\ CurrentInv(u) /\ OwnInv(u)
      /\ ReadInv(u) /\ Effect
  BY Effects DEF SessionInv, TypeInv
<1>2. /\ pc \in [Threads -> Steps] /\ data \in [Threads -> GameData]
      /\ db \in Databases /\ work \in Databases
  BY <1>1 DEF TypeOK
<1>3. CASE Crash
  BY <1>3 DEF Crash, CurrentInv
<1>4. CASE UNCHANGED vars
  BY <1>1, <1>4 DEF vars, local, CurrentInv, Holds, Online, Registered, Progress
<1>5. CASE Commit(u)
  <2>1. /\ pc[u] = "commit" /\ db' = work /\ work' = work /\ req' = req /\ data' = data
    BY <1>5 DEF Commit
  <2>2. PICK n : n = req[u].name
    OBVIOUS
  <2>3. PICK sid : sid = data[u].sid
    OBVIOUS
  <2>4. CASE sid = NoSid
    BY <2>1, <2>3, <2>4 DEF CurrentInv
  <2>5. CASE sid # NoSid
    <3>1. req[u].kind = "login" /\ Matches(db, n, req[u].pass) /\ n \in Names
      BY <1>1, <2>2, <2>3, <2>5 DEF OwnInv, Belongs
    <3>2. Matches(work, n, req[u].pass)
      BY <1>1, <3>1 DEF AccountInv, Matches, Registered
    <3>3. data[u].radish = work.radish[n] /\ data[u].upgrades = work.upgrades[n]
      BY <1>1, <2>1, <2>2, <3>1, <3>2 DEF ReadInv
    <3> QED
      BY <2>1, <2>2, <2>3, <3>3 DEF CurrentInv, Progress
  <2> QED
    BY <2>4, <2>5
<1>6. ASSUME Handle(u) \/ Step(u) \/ Fault(u), ~ Commit(u) PROVE CurrentInv(u)'
  BY <1>1, <1>6, LoginIsAnswered DEF CurrentInv
<1>7. ASSUME NEW t \in Threads, Handle(t) \/ Step(t) \/ Fault(t), t # u PROVE CurrentInv(u)'
  <2>1. pc'[u] = pc[u] /\ req'[u] = req[u] /\ data'[u] = data[u] /\ status'[u] = status[u]
    BY <1>1, <1>7, OthersKeep
  <2>2. PICK n : n = req[u].name
    OBVIOUS
  <2>3. PICK sid : sid = data[u].sid
    OBVIOUS
  <2> SUFFICES ASSUME pc[u] = "done", status[u] = 200, sid # NoSid
               PROVE  /\ \A i \in Uids : work'.session[i] = sid => db'.session[i] = sid
                      /\ Holds(db', n, sid) =>
                            [radish |-> data[u].radish, upgrades |-> data[u].upgrades]
                                = Progress(db', n)
    BY <2>1, <2>2, <2>3 DEF CurrentInv, Holds, Online, Registered, Progress
  <2>4. /\ n \in Names /\ Registered(db, n) /\ sid.number <= issued
        /\ \A i \in Uids : work.session[i] = sid => db.session[i] = sid
        /\ Holds(db, n, sid) =>
              [radish |-> data[u].radish, upgrades |-> data[u].upgrades] = Progress(db, n)
    BY <1>1, <2>2, <2>3 DEF OwnInv, Belongs, Matches, CurrentInv
  <2>5. sid \in Sids /\ sid.number \in Nat /\ issued \in Nat
    BY <1>1, <1>2, <2>3, SidsDrawn, IssuedGrows DEF GameData
  <2>6. \A i \in Uids : work'.session[i] = sid => db'.session[i] = sid
    <3>1. ASSUME NEW r, SessionStarts(r)
          PROVE  \A i \in Uids : work'.session[i] = sid => db'.session[i] = sid
      <4>1. NewSid # sid
        BY <2>4, <2>5 DEF NewSid, SessionId
      <4>2. \A i \in Uids : work'.session[i] \in {NewSid, work.session[i]}
        BY <1>2, <3>1 DEF SessionStarts, Databases
      <4> QED
        BY <2>4, <3>1, <4>1, <4>2 DEF SessionStarts
    <3>2. CASE DataStays \/ TransactionEnds \/ TransactionGoesOn
      BY <2>4, <3>2 DEF DataStays, TransactionEnds, TransactionGoesOn
    <3>3. ASSUME NEW m \in Names, NEW p \in Passwords, UserJoins(m, p) PROVE work' = db'
      BY <3>3 DEF UserJoins
    <3> QED
      BY <1>1, <3>1, <3>2, <3>3 DEF Effect
  <2>7. ASSUME Holds(db', n, sid)
        PROVE  [radish |-> data[u].radish, upgrades |-> data[u].upgrades] = Progress(db', n)
    <3>1. db'.uid[n] = db.uid[n] /\ db.uid[n] \in Uids
      BY <1>1, <1>2, <2>4, AccountsStay DEF Databases, Registered
    <3>2. db' = db \/ db' = work \/ db'.session = db.session
      <4>1. ASSUME NEW m \in Names, NEW p \in Passwords, UserJoins(m, p)
            PROVE  db'.session = db.session
        BY <1>2, <4>1 DEF UserJoins, WithUser, Databases
      <4> QED
        BY <1>1, <4>1 DEF Effect, DataStays, TransactionEnds, TransactionGoesOn, SessionStarts
    <3>3. Holds(db, n, sid)
      BY <2>4, <2>7, <3>1, <3>2 DEF Holds, Online, Registered
    <3>4. Progress(db', n) = Progress(db, n)
      <4>1. SUFFICES ASSUME Progress(db, n)' # Progress(db, n) PROVE FALSE
        BY DEF Progress
      <4>2. ~ Online(db, n)'
        BY <1>1, <2>4, <4>1, SavesStep DEF SavedBy
      <4> QED
        BY <2>7, <4>2 DEF Holds, Online, Registered
    <3> QED
      BY <2>4, <3>3, <3>4
  <2> QED
    BY <2>6, <2>7
<1> QED
  BY <1>3, <1>4, <1>5, <1>6, <1>7 DEF Next

LEMMA SessionNext ==
    ASSUME SessionInv, [Next]_vars
    PROVE  SessionInv'
<1>1. SaveInv /\ TypeInv /\ TypeOK /\ AccountInv /\ TableInv /\ Effect
  BY Effects DEF SessionInv, TypeInv
<1>2. SaveInv' /\ TypeInv' /\ AccountInv' /\ TableInv'
  BY <1>1, SaveNext, TypeNext, AccountNext, TableNext
<1> QED
  BY <1>2, OwnNext, ReadNext, CurrentNext, KnownNext DEF SessionInv

LEMMA SessionInit == Init => SessionInv
<1> SUFFICES ASSUME Init PROVE SessionInv
  OBVIOUS
<1>1. SaveInv
  BY SaveInit
<1>2. db \in Databases /\ work = db
  BY DEF Init, EmptyDatabase, Databases, Upgrades, NoUpgrades
<1>3. /\ \A t \in Threads : /\ pc[t] = "idle" /\ data[t] = FreshGameData
                            /\ req[t] = NoRequest
      /\ issued = 0 /\ known = {}
      /\ \A n \in Names : db.uid[n] = 0
      /\ \A i \in Uids : db.session[i] = NoSid
  BY DEF Init, EmptyDatabase
<1>4. TypeInv
  <2>1. TypeOK
    <3>1. /\ pc \in [Threads -> Steps] /\ req \in [Threads -> Requests]
          /\ left \in [Threads -> SUBSET Types] /\ lock \in [Threads -> Locks]
      BY <1>1 DEF SaveInv, LockInv, ControlType, Data
    <3>2. /\ found \in [Threads -> BOOLEAN] /\ leaked \in BOOLEAN
          /\ data \in [Threads -> GameData]
          /\ status \in [Threads -> {0, 200, 400, 422, 500}]
          /\ known \subseteq Told
      BY FreshGameDataType DEF Init
    <3>3. issued \in 0 .. MaxLogins
      BY <1>3, MaxLoginsAssumption
    <3> QED
      BY <1>2, <3>1, <3>2, <3>3 DEF TypeOK
  <2>2. {t \in Threads : Draws(t)} = {}
    BY <1>3 DEF Draws, NoRequest
  <2>3. issued + Cardinality({t \in Threads : Draws(t)}) <= MaxLogins
    BY <1>3, <2>2, FS_EmptySet, MaxLoginsAssumption
  <2> QED
    BY <1>3, <2>1, <2>3, FreshGameDataType DEF TypeInv
<1>5. AccountInv
  <2>1. NextUid(db) > 0
    <3>1. {n \in Names : Registered(db, n)} = {}
      BY <1>3 DEF Registered
    <3> QED
      BY <3>1, FS_EmptySet DEF NextUid
  <2> QED
    BY <1>2, <1>3, <2>1 DEF AccountInv, Registered
<1>6. TableInv
  BY <1>2, <1>3, SidsDrawn DEF TableInv, InTable, NoSid
<1> QED
  BY <1>1, <1>3, <1>4, <1>5, <1>6, FreshGameDataType
  DEF SessionInv, OwnInv, ReadInv, CurrentInv, KnownInv

LEMMA SessionCorrect == Spec => []SessionInv
<1>1. SessionInv /\ [Next]_vars => SessionInv'
  BY SessionNext
<1> QED
  BY <1>1, SessionInit, PTL DEF Spec

-----------------------------------------------------------------------------
(* Saves that are acknowledged.                                           *)

\* The answers of the steps that are not a COMMIT are errors or those of
\* add_user.
LEMMA OnlyCommitAcknowledges ==
    ASSUME SaveInv, [Next]_vars, NEW t \in Threads, req[t].kind = "update",
           status \in [Threads -> Int],
           pc[t] # "done", pc'[t] = "done", status'[t] = 200
    PROVE  Commit(t)
<1>1. pc \in [Threads -> Steps]
  BY DEF SaveInv, LockInv, ControlType
<1>2. ~ Crash /\ ~ UNCHANGED vars
  BY DEF Crash, vars, local
<1>3. PICK u \in Threads : Handle(u) \/ Step(u) \/ Fault(u)
  BY <1>2 DEF Next
<1>4. \/ Commit(u) \/ InsertUser(u)
      \/ \E s \in Steps \ {"done"} : pc' = [pc EXCEPT ![u] = s]
      \/ pc' = pc
      \/ \E c \in {400, 422, 500} :
             pc' = [pc EXCEPT ![u] = "done"] /\ status' = [status EXCEPT ![u] = c]
  <2> USE DEF Goto, Answer, Steps, Queries, Statements
  <2>1. CASE Refuse(u)
    BY <2>1 DEF Refuse
  <2>2. ASSUME NEW r \in Requests, Begin(u, r) PROVE \E s \in Steps \ {"done"} : pc' = [pc EXCEPT ![u] = s]
    <3>1. FirstStep(r) \in {"user_exists", "is_online"}
      BY <2>2, RequestKinds DEF Begin, Accept, FirstStep
    <3> QED
      BY <2>2, <3>1 DEF Begin, Accept
  <2>3. CASE Finalize(u)
    <3>1. CASE GivesUp(req[u].kind, pc[u], found[u])
      BY <2>3, <3>1 DEF Finalize
    <3>2. CASE ~ GivesUp(req[u].kind, pc[u], found[u])
      <4>1. After(req[u].kind, pc[u]) \in Steps \ {"done"}
        BY <2>3, RequestKinds DEF Finalize, After, SaveInv, LockInv, ControlType
      <4> QED
        BY <2>3, <3>2, <4>1 DEF Finalize
    <3> QED
      BY <3>1, <3>2
  <2>4. CASE Query(u) \/ Reserve(u) \/ Promote(u)
    BY <2>4 DEF Query, Reserve, Promote, local
  <2>5. CASE BeginExclusive(u)
    BY <2>5 DEF BeginExclusive
  <2>8. CASE Respond(u)
    BY <2>8 DEF Respond
  <2>6. CASE Login(u)
    <3>1. CASE GetRadish(u)
      BY <3>1 DEF GetRadish
    <3>2. CASE GetUpgrades(u)
      BY <3>2 DEF GetUpgrades
    <3>3. CASE AddSession(u)
      BY <3>3 DEF AddSession
    <3>4. CASE GetSession(u)
      BY <3>4 DEF GetSession
    <3> QED
      BY <2>6, <3>1, <3>2, <3>3, <3>4 DEF Login
  <2>9. CASE Update(u)
    <3>1. CASE SetRadish(u)
      BY <3>1 DEF SetRadish
    <3>2. CASE SetUpgrade(u)
      BY <3>2 DEF SetUpgrade
    <3>3. CASE DropSession(u)
      BY <3>3 DEF DropSession
    <3> QED
      BY <2>9, <3>1, <3>2, <3>3 DEF Update
  <2>7. CASE Busy(u) \/ Fault(u)
    BY <2>7 DEF Busy, Fault, QueryFails, StatementFails
  <2> QED
    BY <1>3, <2>1, <2>2, <2>3, <2>4, <2>5, <2>6, <2>7, <2>8, <2>9 DEF Handle, Step, Work
<1>5. CASE Commit(u)
  BY <1>1, <1>5 DEF Commit, Answer, Goto
<1>6. ~ InsertUser(u) \/ u # t
  BY DEF InsertUser, SaveInv, Place
<1>7. CASE InsertUser(u)
  BY <1>1, <1>6, <1>7 DEF InsertUser, Answer, Goto
<1> QED
  BY <1>1, <1>4, <1>5, <1>7

\* A PUT that is answered 200 while the session it names is the user's has
\* stored all it carried, for any number of threads and upgrades
\* (game_request_handler.cc:463-531).
THEOREM AcknowledgedSavesTheorem == Spec => AcknowledgedSavesAreKept
<1> DEFINE Kept(t) ==
               /\ pc[t] # "done" /\ pc[t]' = "done" /\ status[t]' = 200
               /\ req[t].kind = "update" /\ Holds(db, req[t].name, req[t].sid)
               => Progress(db, req[t].name)' = Merge(Progress(db, req[t].name), req[t].save)
           AllKept == \A t \in Threads : Kept(t)
<1>1. SessionInv /\ [Next]_vars => [AllKept]_vars
  <2> SUFFICES ASSUME SessionInv, [Next]_vars, NEW t \in Threads,
                      pc[t] # "done", pc'[t] = "done", status'[t] = 200,
                      req[t].kind = "update", Holds(db, req[t].name, req[t].sid)
               PROVE  Progress(db, req[t].name)'
                         = Merge(Progress(db, req[t].name), req[t].save)
    OBVIOUS
  <2>1. SaveInv /\ status \in [Threads -> Int]
    BY DEF SessionInv, TypeInv, TypeOK
  <2>2. Commit(t)
    BY <2>1, OnlyCommitAcknowledges
  <2>3. db' = work /\ req' = req /\ pc[t] = "commit" /\ Saved(t)
    BY <2>1, <2>2 DEF Commit, SaveInv, InTransaction, Statements, Partial
  <2>4. Progress(work, req[t].name) = MergeBut(Progress(db, req[t].name), req[t].save, {})
    BY <2>3 DEF Saved
  <2>5. Progress(db, req[t].name)' = Progress(work, req[t].name)
    BY <2>3 DEF Progress
  <2> QED
    BY <2>4, <2>5 DEF MergeBut, Merge
<1> HIDE DEF AllKept
<1>2. Spec => [][AllKept]_vars
  BY <1>1, SessionCorrect, PTL DEF Spec
<1> QED
  BY <1>2 DEF AcknowledgedSavesAreKept, AllKept
-----------------------------------------------------------------------------
(* What the invariant says.                                                *)

\* The database, the locks and the handlers keep their types, and no more
\* session ids are drawn than logins come in.
THEOREM TypeCorrect == Spec => []TypeOK
<1>1. SessionInv => TypeOK
  BY DEF SessionInv, TypeInv
<1> QED
  BY <1>1, SessionCorrect, PTL

\* A session id that a client was sent opens the progress of the user it logged
\* in as, with that user's password, and of nobody else, for any number of
\* clients and also when logins with wrong passwords store sessions for user ids
\* of SQLite's choice (game_request_handler.cc:267-305).
THEOREM SessionsOpenOwnProgressTheorem == Spec => []SessionsOpenOwnProgress
<1>1. SessionInv => SessionsOpenOwnProgress
  <2> SUFFICES ASSUME SessionInv, NEW n \in Names, NEW k \in known,
                      Holds(db, n, SessionId(k.number))
               PROVE  k.name = n /\ Matches(db, n, k.pass)
    BY DEF SessionsOpenOwnProgress
  <2>1. TypeOK
    BY DEF SessionInv, TypeInv
  <2>2. k.name \in Names
    BY <2>1 DEF TypeOK, Told
  <2>3. Belongs(SessionId(k.number), k.name, k.pass)
    BY DEF SessionInv, KnownInv
  <2>4. db.uid[n] \in Uids /\ Registered(db, n)
    BY <2>1 DEF TypeOK, Databases, Holds, Online, Registered
  <2>5. db.uid[n] = db.uid[k.name]
    BY <2>3, <2>4 DEF Belongs, InTable, Holds
  <2>6. k.name = n
    BY <2>2, <2>4, <2>5 DEF SessionInv, AccountInv
  <2> QED
    BY <2>3, <2>6 DEF Belongs
<1> QED
  BY <1>1, SessionCorrect, PTL

\* What a login answers is what is stored for as long as the session it opened
\* lasts, whatever the other threads save meanwhile
\* (game_request_handler.cc:267-305).
THEOREM LoginIsCurrentTheorem == Spec => []LoginIsCurrent
<1>1. SessionInv => LoginIsCurrent
  BY DEF SessionInv, CurrentInv, LoginIsCurrent, Holds, Online
<1> QED
  BY <1>1, SessionCorrect, PTL
=============================================================================
