--------------------------- MODULE KeyValueStore ---------------------------
(***************************************************************************)
(* What include/crud_store.h promises: a map from entities and ids to      *)
(* documents on which every operation takes effect in one step.            *)
(***************************************************************************)
EXTENDS Integers

CONSTANTS
    Clients,    \* who may call, one operation at a time each
    Entities,   \* entity names
    Bodies,     \* documents
    MaxInt,     \* the largest id a create may return
    Ids,        \* every id, those a client cannot ask for included
    Missing,    \* no document is stored
    NoReply     \* the client is not waiting to take a reply

VARIABLES
    store,      \* store[e][k]: the document of the entity e with the id k
    reply       \* reply[c]: the answer client c has not taken yet

vars == <<store, reply>>

\* A reply carries what its operation returns, and neutral values otherwise.
Replies == [status : {200, 400, 404, 500}, id : Ids,
            body : Bodies \cup {Missing}, ids : SUBSET Ids]

Reply(code, k, b, ks) == [status |-> code, id |-> k, body |-> b, ids |-> ks]

Stored(e) == {k \in Ids : store[e][k] # Missing}

Answer(c, r) == reply[c] = NoReply /\ reply' = [reply EXCEPT ![c] = r]

Init == /\ store = [e \in Entities |-> [k \in Ids |-> Missing]]
        /\ reply = [c \in Clients |-> NoReply]

\* "id of new entity will be 1 if no id's in system or max_id + 1".  After
\* MaxInt there is no such id: the promise says nothing then.
Fresh(e, k) ==
    IF Stored(e) = {} THEN k = 1
    ELSE \E m \in Stored(e) : /\ \A j \in Stored(e) : j <= m
                              /\ m < MaxInt => k = m + 1

Create(c, e, b) ==
    \E k \in Ids :
        /\ Fresh(e, k)
        /\ store' = [store EXCEPT ![e][k] = b]
        /\ Answer(c, Reply(IF k = -1 THEN 500 ELSE 200, k, Missing, {}))

Retrieve(c, e, k) ==
    /\ Answer(c, IF store[e][k] = Missing
                 THEN Reply(404, k, Missing, {})
                 ELSE Reply(200, k, store[e][k], {}))
    /\ UNCHANGED store

Update(c, e, k, b) ==
    /\ store' = [store EXCEPT ![e][k] = b]
    /\ Answer(c, Reply(200, k, Missing, {}))

Delete(c, e, k) ==
    /\ store' = [store EXCEPT ![e][k] = Missing]
    /\ Answer(c, Reply(IF store[e][k] = Missing THEN 404 ELSE 200, k, Missing, {}))

List(c, e) ==
    /\ Answer(c, Reply(200, 0, Missing, Stored(e)))
    /\ UNCHANGED store

\* The operation is refused, or the disk has no room: nothing changes.
Fail(c) ==
    /\ \E code \in {400, 500}, k \in Ids : Answer(c, Reply(code, k, Missing, {}))
    /\ UNCHANGED store

Take(c) ==
    /\ reply[c] # NoReply
    /\ reply' = [reply EXCEPT ![c] = NoReply]
    /\ UNCHANGED store

Operation(c, e) ==
    \/ List(c, e)
    \/ \E b \in Bodies : Create(c, e, b)
    \/ \E k \in Ids : Retrieve(c, e, k) \/ Delete(c, e, k)
    \/ \E k \in Ids, b \in Bodies : Update(c, e, k, b)

Next == \E c \in Clients :
            Take(c) \/ Fail(c) \/ \E e \in Entities : Operation(c, e)

Spec == Init /\ [][Next]_vars

TypeOK == /\ store \in [Entities -> [Ids -> Bodies \cup {Missing}]]
          /\ reply \in [Clients -> Replies \cup {NoReply}]
=============================================================================
