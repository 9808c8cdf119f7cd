--------------------------- MODULE GameRefinement ---------------------------
(***************************************************************************)
(* GameStore implements Game.  What a request looked at first decides when *)
(* its query is done; what it does takes effect with the INSERT of a new   *)
(* user or the COMMIT of a transaction, and with it the answer is given.   *)
(***************************************************************************)
EXTENDS GameStore

NoNumber == 0

\* A request as the client means it: a session id is its number.
Asked(r) == [kind |-> r.kind, name |-> r.name, pass |-> r.pass,
             session |-> r.sid.number, save |-> r.save]

AccountView ==
    [n \in Names |->
        IF Registered(db, n)
        THEN [pass |-> db.pass[n], radish |-> db.radish[n],
              upgrades |-> db.upgrades[n]]
        ELSE [pass |-> NoNumber]]

SessionView ==
    [n \in Names |-> IF Online(db, n) THEN db.session[db.uid[n]].number ELSE NoNumber]

Queried(t) == pc[t] \in Queries /\ lock[t] = "shared"

\* is_online and user_exists come first.
Waiting(t) == pc[t] \in Queries /\ pc[t] = FirstStep(req[t]) /\ ~ Queried(t)

StageView(t) ==
    CASE pc[t] = "idle" -> "none"
      [] pc[t] = "done" -> "answered"
      [] Waiting(t) -> "called"
      [] Queried(t) /\ GivesUp(req[t].kind, pc[t], found[t]) -> "failed"
      [] OTHER -> "passed"

AnswerView(t) ==
    LET told == pc[t] = "done" /\ status[t] = 200
    IN  [status |-> status[t],
         session |-> IF told THEN data[t].sid.number ELSE NoNumber,
         radish |-> IF told THEN data[t].radish ELSE Garbage,
         upgrades |-> IF told THEN data[t].upgrades ELSE NoUpgrades]

Promise == INSTANCE Game
               WITH Requests <- {Asked(r) : r \in Requests \ {NoRequest}},
                    NoRequest <- Asked(NoRequest),
                    SessionIds <- 1 .. MaxLogins,
                    NoSession <- NoNumber,
                    account <- AccountView,
                    session <- SessionView,
                    told <- {k.number : k \in known},
                    request <- [t \in Threads |-> Asked(req[t])],
                    stage <- [t \in Threads |-> StageView(t)],
                    answer <- [t \in Threads |-> AnswerView(t)]

\* Requests that overlap, fail halfway or die with the process are, to their
\* clients, checks and effects in one step each on accounts and sessions
\* (game_request_handler.cc:160-532): no statement in between is ever seen.
AtomicGame == Promise!Spec
=============================================================================
