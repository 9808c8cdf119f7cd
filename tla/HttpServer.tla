----------------------------- MODULE HttpServer -----------------------------
(***************************************************************************)
(* Server, Session and the io threads of server_main.                      *)
(*                                                                         *)
(* The kernel completes the asynchronous operations of the acceptor and of *)
(* the sessions; Asio queues their handlers, and two threads, both in      *)
(* io_service::run, take them from the queue.  There is no strand: that no *)
(* two threads work on one session rests on each handler starting at most  *)
(* one operation, as the last thing it does with the session.              *)
(*                                                                         *)
(* A body is a sequence of parts, and what a request carries is one part,  *)
(* named after its connection and its number; a response is the body that  *)
(* its request handler was given.                                          *)
(***************************************************************************)
EXTENDS Integers, Sequences, FiniteSets

CONSTANTS
    Threads,      \* threads in io_service::run
    Sessions,     \* room for Session objects
    Conns,        \* TCP connections
    NoConn,       \* a session without a connection
    MaxRequests,  \* MaxRequests[c]: bound on the messages of connection c
    Careless,     \* connections whose messages may be malformed
    MaxErrors,    \* bound on the failing accepts
    Throws        \* may a request handler throw?

ASSUME SizesAssumption == MaxRequests \in [Conns -> Nat] /\ MaxErrors \in Nat

ASSUME NoConnAssumption == NoConn \notin Conns

\* An accept operation, one session per connection.
ASSUME RoomAssumption ==
    /\ IsFiniteSet(Sessions) /\ IsFiniteSet(Conns)
    /\ Cardinality(Sessions) > Cardinality(Conns)

Errors == {"ok", "eof", "partial", "reset", "malformed"}

\* A completed operation, to be handled.
Completions == [sess : Sessions, kind : {"accept", "read", "write"}, error : Errors]

\* "free": no object; "accept", "read", "write": the kernel works on it;
\* "ready": a handler is queued or running; "none": an object nobody works on.
Operations == {"free", "accept", "read", "write", "ready", "none"}

\* Where a thread is in its handler: about to begin, about to start the write
\* of a response, about to accept again.
Steps == {"idle", "enter", "respond", "rearm"}

\* What a client sends: a request, or a message that Beast refuses, with a bad
\* method, target or version, with a header over 8 KB or a body over 1 MB.
Messages == {"request", "malformed"}

\* What is on its way to the server: a message, the end of the stream, or the
\* end of the stream in the middle of a message.
Inputs == [type : Messages, n : Nat] \cup [type : {"eof", "torn"}, n : {0}]

\* "dropped": closed by the server while the client had it open.
ConnStates == {"new", "syn", "open", "closed", "reset", "dropped"}

\* What bodies are made of: the body of request n of a connection.
Parts == [conn : Conns, n : Nat]

VARIABLES
    op,        \* op[s]: the operation of session s
    sock,      \* sock[s]: its connection
    body,      \* body[s]: the body of its req_
    res,       \* res[s]: its res_
    queue,     \* handlers that are ready to run
    running,   \* running[t]: the completion thread t handles, << >> for none
    step,      \* step[t]: how far thread t is
    conn,      \* conn[c]: where connection c is, one of ConnStates
    in,        \* in[c]: what the client has sent and no read has taken
    out,       \* out[c]: the responses written to it
    sent,      \* sent[c]: the messages the client has sent on it
    errors     \* the number of failed accepts

sessions == <<op, sock, body, res>>
threads == <<running, step>>
net == <<conn, in, out, sent>>
vars == <<sessions, queue, threads, net, errors>>

Ready(s, kind, error) ==
    queue' = Append(queue, [sess |-> s, kind |-> kind, error |-> error])

SetOp(s, o) == op' = [op EXCEPT ![s] = o]

\* Server(): the constructor starts the first accept.
Init ==
    /\ op \in {o \in [Sessions -> {"free", "accept"}] :
                   Cardinality({s \in Sessions : o[s] = "accept"}) = 1}
    /\ sock = [s \in Sessions |-> NoConn]
    /\ body = [s \in Sessions |-> <<>>]
    /\ res = [s \in Sessions |-> <<>>]
    /\ queue = <<>>
    /\ running = [t \in Threads |-> <<>>]
    /\ step = [t \in Threads |-> "idle"]
    /\ conn = [c \in Conns |-> "new"]
    /\ in = [c \in Conns |-> <<>>]
    /\ out = [c \in Conns |-> <<>>]
    /\ sent = [c \in Conns |-> <<>>]
    /\ errors = 0

-----------------------------------------------------------------------------
(* Clients.                                                                *)

Connect(c) ==
    /\ conn[c] = "new"
    /\ conn' = [conn EXCEPT ![c] = "syn"]
    /\ UNCHANGED <<sessions, queue, threads, in, out, sent, errors>>

\* Messages may be sent before the earlier ones are answered.
Send(c) ==
    /\ conn[c] = "open"
    /\ Len(sent[c]) < MaxRequests[c]
    /\ \E type \in Messages :
        /\ type = "malformed" => c \in Careless
        /\ sent' = [sent EXCEPT ![c] = Append(@, type)]
        /\ in' = [in EXCEPT ![c] = Append(@, [type |-> type, n |-> Len(sent[c]) + 1])]
    /\ UNCHANGED <<sessions, queue, threads, conn, out, errors>>

\* The client closes, after a message or in the middle of one.
Close(c) ==
    /\ conn[c] = "open"
    /\ conn' = [conn EXCEPT ![c] = "closed"]
    /\ \E type \in {"eof", "torn"} :
        in' = [in EXCEPT ![c] = Append(@, [type |-> type, n |-> 0])]
    /\ UNCHANGED <<sessions, queue, threads, out, sent, errors>>

\* The connection is gone, by a reset or a network that fails.
Abort(c) ==
    /\ conn[c] = "open"
    /\ conn' = [conn EXCEPT ![c] = "reset"]
    /\ in' = [in EXCEPT ![c] = <<>>]
    /\ UNCHANGED <<sessions, queue, threads, out, sent, errors>>

-----------------------------------------------------------------------------
(* The kernel and Asio: operations complete.                               *)

AcceptCompletes(s) ==
    /\ op[s] = "accept"
    /\ \E c \in Conns :
        /\ conn[c] = "syn"
        /\ conn' = [conn EXCEPT ![c] = "open"]
        /\ sock' = [sock EXCEPT ![s] = c]
    /\ SetOp(s, "ready")
    /\ Ready(s, "accept", "ok")
    /\ UNCHANGED <<body, res, threads, in, out, sent, errors>>

AcceptFails(s) ==
    /\ op[s] = "accept"
    /\ errors < MaxErrors
    /\ errors' = errors + 1
    /\ SetOp(s, "ready")
    /\ Ready(s, "accept", "reset")
    /\ UNCHANGED <<sock, body, res, threads, net>>

\* Beast's reader of a string_body appends to the body that req_ has.
ReadCompletes(s) ==
    LET c == sock[s]
    IN  /\ op[s] = "read"
        /\ in[c] # <<>>
        /\ in' = [in EXCEPT ![c] = Tail(@)]
        /\ CASE Head(in[c]).type = "request" ->
                   /\ body' = [body EXCEPT ![s] = Append(@, [conn |-> c, n |-> Head(in[c]).n])]
                   /\ Ready(s, "read", "ok")
             [] Head(in[c]).type = "malformed" ->
                   Ready(s, "read", "malformed") /\ UNCHANGED body
             [] Head(in[c]).type = "eof" ->
                   Ready(s, "read", "eof") /\ UNCHANGED body
             [] Head(in[c]).type = "torn" ->
                   Ready(s, "read", "partial") /\ UNCHANGED body
        /\ SetOp(s, "ready")
        /\ UNCHANGED <<sock, res, threads, conn, out, sent, errors>>

\* The transport fails; that Beast refuses a message is in ReadCompletes.
ReadFails(s) ==
    /\ op[s] = "read"
    /\ conn[sock[s]] = "reset"
    /\ SetOp(s, "ready")
    /\ Ready(s, "read", "reset")
    /\ UNCHANGED <<sock, body, res, threads, net, errors>>

\* A client that has closed may get the response or not.
WriteCompletes(s) ==
    LET c == sock[s]
    IN  /\ op[s] = "write"
        /\ conn[c] # "reset"
        /\ out' = [out EXCEPT ![c] = Append(@, res[s])]
        /\ SetOp(s, "ready")
        /\ Ready(s, "write", "ok")
        /\ UNCHANGED <<sock, body, res, threads, conn, in, sent, errors>>

WriteFails(s) ==
    /\ op[s] = "write"
    /\ conn[sock[s]] \in {"closed", "reset"}
    /\ SetOp(s, "ready")
    /\ Ready(s, "write", "reset")
    /\ UNCHANGED <<sock, body, res, threads, net, errors>>

-----------------------------------------------------------------------------
(* The io threads: io_service::run and the handlers.                       *)

Run(t) ==
    /\ step[t] = "idle"
    /\ queue # <<>>
    /\ running' = [running EXCEPT ![t] = Head(queue)]
    /\ step' = [step EXCEPT ![t] = "enter"]
    /\ queue' = Tail(queue)
    /\ UNCHANGED <<sessions, net, errors>>

Handles(t, kind, outcomes) ==
    /\ step[t] = "enter"
    /\ running[t].kind = kind
    /\ running[t].error \in outcomes

Return(t) ==
    /\ running' = [running EXCEPT ![t] = <<>>]
    /\ step' = [step EXCEPT ![t] = "idle"]

GoOn(t, next) == step' = [step EXCEPT ![t] = next] /\ UNCHANGED running

\* delete this; the destructor closes the socket.
Delete(s) ==
    /\ SetOp(s, "free")
    /\ sock' = [sock EXCEPT ![s] = NoConn]
    /\ body' = [body EXCEPT ![s] = <<>>]
    /\ res' = [res EXCEPT ![s] = <<>>]

\* Mutant: the session is started without a look at the error.
StartAnySession(t) ==
    /\ Handles(t, "accept", Errors)
    /\ SetOp(running[t].sess, "read")
    /\ GoOn(t, "rearm")
    /\ UNCHANGED <<sock, body, res, queue, net, errors>>

\* handle_accept starts the session, which other threads may then work on ...
StartSession(t) ==
    /\ Handles(t, "accept", {"ok"})
    /\ SetOp(running[t].sess, "read")
    /\ GoOn(t, "rearm")
    /\ UNCHANGED <<sock, body, res, queue, net, errors>>

\* Mutant: a failing accept is the last one.
DropAndReturn(t) ==
    /\ Handles(t, "accept", Errors \ {"ok"})
    /\ Delete(running[t].sess)
    /\ Return(t)
    /\ UNCHANGED <<queue, net, errors>>

DropSession(t) ==
    /\ Handles(t, "accept", Errors \ {"ok"})
    /\ Delete(running[t].sess)
    /\ GoOn(t, "rearm")
    /\ UNCHANGED <<queue, net, errors>>

\* ... and goes on to wait for the next connection with a new session.
StartAccept(t) ==
    /\ step[t] = "rearm"
    /\ \E s \in Sessions : op[s] = "free" /\ SetOp(s, "accept")
    /\ Return(t)
    /\ UNCHANGED <<sock, body, res, queue, net, errors>>

\* Mutant: the body of the last request is left in req_.
CreateResponseOnly(t) ==
    /\ Handles(t, "read", {"ok"})
    /\ LET s == running[t].sess
       IN  res' = [res EXCEPT ![s] = body[s]]
    /\ GoOn(t, "respond")
    /\ UNCHANGED <<op, sock, body, queue, net, errors>>

\* Mutant: the next request is read before the response is written.
CreateResponseAndRead(t) ==
    /\ Handles(t, "read", {"ok"})
    /\ LET s == running[t].sess
       IN  /\ res' = [res EXCEPT ![s] = body[s]]
           /\ body' = [body EXCEPT ![s] = <<>>]
           /\ SetOp(s, "read")
    /\ GoOn(t, "respond")
    /\ UNCHANGED <<sock, queue, net, errors>>

\* The request handler runs, which may take a while, and returns.
CreateResponse(t) ==
    /\ Handles(t, "read", {"ok"})
    /\ LET s == running[t].sess
       IN  /\ res' = [res EXCEPT ![s] = body[s]]
           /\ body' = [body EXCEPT ![s] = <<>>]
    /\ GoOn(t, "respond")
    /\ UNCHANGED <<op, sock, queue, net, errors>>

StartWrite(t) ==
    /\ step[t] = "respond"
    /\ SetOp(running[t].sess, "write")
    /\ Return(t)
    /\ UNCHANGED <<sock, body, res, queue, net, errors>>

\* An exception leaves io_service::run: std::terminate in a thread's function,
\* and in main as well, where the joinable thread is destroyed.  The process
\* is started again and the clients' connections are gone.
HandlerThrows(t) ==
    /\ Throws
    /\ Handles(t, "read", {"ok"})
    /\ op' = [s \in Sessions |-> IF s = running[t].sess THEN "accept" ELSE "free"]
    /\ sock' = [s \in Sessions |-> NoConn]
    /\ body' = [s \in Sessions |-> <<>>]
    /\ res' = [s \in Sessions |-> <<>>]
    /\ queue' = <<>>
    /\ running' = [u \in Threads |-> <<>>]
    /\ step' = [u \in Threads |-> "idle"]
    /\ conn' = [c \in Conns |-> IF conn[c] \in {"new", "syn"} THEN "new" ELSE "reset"]
    /\ in' = [c \in Conns |-> <<>>]
    /\ UNCHANGED <<out, sent, errors>>

\* Mutant: a message that Beast refuses is taken for a partial one.
KeepMalformed(t) ==
    /\ Handles(t, "read", {"partial", "malformed"})
    /\ SetOp(running[t].sess, "none")
    /\ Return(t)
    /\ UNCHANGED <<sock, body, res, queue, net, errors>>

\* Neither another read nor a delete: the object stays for ever.
PartialRead(t) ==
    /\ Handles(t, "read", {"partial"})
    /\ SetOp(running[t].sess, "none")
    /\ Return(t)
    /\ UNCHANGED <<sock, body, res, queue, net, errors>>

\* The destructor closes the socket of a client that may still have the
\* connection open; what it has sent and nobody read is lost.
CloseSocket(c) ==
    /\ conn' = [conn EXCEPT ![c] = IF @ = "open" THEN "dropped" ELSE @]
    /\ in' = [in EXCEPT ![c] = <<>>]

Disconnect(t) ==
    /\ \/ Handles(t, "read", {"eof", "reset", "malformed"})
       \/ Handles(t, "write", Errors \ {"ok"})
    /\ Delete(running[t].sess)
    /\ CloseSocket(sock[running[t].sess])
    /\ Return(t)
    /\ UNCHANGED <<queue, out, sent, errors>>

\* Mutant: one response per connection, as without keep-alive.
WaitForNothing(t) ==
    /\ Handles(t, "write", {"ok"})
    /\ SetOp(running[t].sess, "none")
    /\ Return(t)
    /\ UNCHANGED <<sock, body, res, queue, net, errors>>

\* Mutant: the session ends with the first response.
CloseAfterResponse(t) ==
    /\ Handles(t, "write", {"ok"})
    /\ Delete(running[t].sess)
    /\ CloseSocket(sock[running[t].sess])
    /\ Return(t)
    /\ UNCHANGED <<queue, out, sent, errors>>

ReadNext(t) ==
    /\ Handles(t, "write", {"ok"})
    /\ SetOp(running[t].sess, "read")
    /\ Return(t)
    /\ UNCHANGED <<sock, body, res, queue, net, errors>>

Client(c) == Connect(c) \/ Send(c) \/ Close(c) \/ Abort(c)

Complete(s) ==
    \/ AcceptCompletes(s) \/ AcceptFails(s)
    \/ ReadCompletes(s) \/ ReadFails(s)
    \/ WriteCompletes(s) \/ WriteFails(s)

Work(t) ==
    \/ Run(t)
    \/ StartSession(t) \/ DropSession(t) \/ StartAccept(t)
    \/ CreateResponse(t) \/ StartWrite(t)
    \/ PartialRead(t) \/ Disconnect(t) \/ ReadNext(t)

Next ==
    \/ \E c \in Conns : Client(c)
    \/ \E s \in Sessions : Complete(s)
    \/ \E t \in Threads : Work(t) \/ HandlerThrows(t)

Spec == Init /\ [][Next]_vars

\* The kernel completes what it can, and a thread that has something to do is
\* scheduled; a blocking handler sleeps for a second and then returns.
FairSpec == /\ Spec
            /\ \A s \in Sessions : WF_vars(Complete(s))
            /\ \A t \in Threads : WF_vars(Work(t))

-----------------------------------------------------------------------------
(* Properties.                                                             *)

TypeOK ==
    /\ op \in [Sessions -> Operations]
    /\ sock \in [Sessions -> Conns \cup {NoConn}]
    /\ body \in [Sessions -> Seq(Parts)]
    /\ res \in [Sessions -> Seq(Parts)]
    /\ queue \in Seq(Completions)
    /\ running \in [Threads -> Completions \cup {<<>>}]
    /\ step \in [Threads -> Steps]
    /\ conn \in [Conns -> ConnStates]
    /\ in \in [Conns -> Seq(Inputs)]
    /\ out \in [Conns -> Seq(Seq(Parts))]
    /\ sent \in [Conns -> Seq(Messages)]
    /\ errors \in 0 .. MaxErrors
    /\ \A s \in Sessions : /\ op[s] \in {"free", "accept"} => sock[s] = NoConn
                           /\ op[s] \in {"read", "write"} => sock[s] \in Conns

\* The queued handlers and the running ones that may still touch session s.
Queued(s) == {k \in 1 .. Len(queue) : queue[k].sess = s}
Touching(s) == {t \in Threads : step[t] \in {"enter", "respond"}
                                /\ running[t].sess = s}

\* A session has at most one handler, queued or running, and none while the
\* kernel works on it or after it was deleted (session.cc:61-118): without a
\* strand no two threads are in one session and none is in a deleted one.
OneHandlerPerSession ==
    \A s \in Sessions :
        Cardinality(Queued(s)) + Cardinality(Touching(s))
            = IF op[s] = "ready" THEN 1 ELSE 0

\* The server waits for the next connection, or a thread is about to see to
\* it (server.cc:13-32): never two accepts and never none.
OneAccept ==
    Cardinality({s \in Sessions : op[s] = "accept"})
      + Cardinality({k \in 1 .. Len(queue) : queue[k].kind = "accept"})
      + Cardinality({t \in Threads : /\ step[t] \in {"enter", "rearm"}
                                     /\ running[t].kind = "accept"}) = 1

\* The responses on a connection are those to its requests, in their order, and
\* each handler was given the body of its request alone (session.cc:54-55,
\* 68-78): nothing of an earlier request, nothing of another connection.
AnswersInOrder ==
    \A c \in Conns : \A k \in 1 .. Len(out[c]) : out[c][k] = <<[conn |-> c, n |-> k]>>

\* A connection that is open has a session that reads from it, writes to it or
\* has a handler: a session is deleted only together with its connection.  The
\* sessions that nobody will ever work on again, for want of a read or a delete
\* after a partial message, are those of clients that have closed, and no other
\* way leads there (session.cc:61-117).
OpenConnectionsAreServed ==
    /\ \A c \in Conns : conn[c] = "open" =>
           \E s \in Sessions : sock[s] = c /\ op[s] \in {"read", "write", "ready"}
    /\ \A s \in Sessions : op[s] = "none" =>
           sock[s] \in Conns /\ conn[sock[s]] = "closed"

\* The server closes a connection that its client has open for one thing only, a
\* message that Beast refuses, and not before all that was sent ahead of it is
\* answered (session.cc:61-79, 94-98, 102-112): a client with a request too many
\* or too large loses the connection, never a response.
OnlyMalformedAreDropped ==
    \A c \in Conns : conn[c] = "dropped" =>
        LET n == Len(out[c]) + 1
        IN  n <= Len(sent[c]) /\ sent[c][n] = "malformed"

\* A message on a connection is answered, or the connection ends, however many
\* others are in hand (session.cc:61-79, 94-98, 102-112).
RequestsAreAnswered ==
    \A c \in Conns : \A n \in 1 .. MaxRequests[c] :
        Len(sent[c]) >= n ~> Len(out[c]) >= n \/ conn[c] # "open"

\* A client that connects is accepted, also after accepts that failed
\* (server.cc:23-32).
ConnectionsAreAccepted == \A c \in Conns : conn[c] = "syn" ~> conn[c] # "syn"
=============================================================================
