-------------------------- MODULE HttpServerProofs --------------------------
(***************************************************************************)
(* Sessions without a strand, for any number of threads, sessions,         *)
(* connections and requests.                                               *)
(*                                                                         *)
(* ControlInv: a session that is "ready" has one handler and no other      *)
(* session has any, and the one accept of the server is with the kernel,   *)
(* in the queue or with a thread.  ServerInv, on top of it: how many       *)
(* requests of its connection a session has answered, from what it is      *)
(* doing, and that the messages not yet read are those sent from there on. *)
(* EndInv, beside it: only a client ends its stream, a session ends after  *)
(* its client has gone or with the first message that is malformed, and an *)
(* open connection has a session.                                          *)
(***************************************************************************)
EXTENDS HttpServer, FiniteSetTheorems, SequenceTheorems, TLAPS

Touches(t) == step[t] \in {"enter", "respond"}

Types ==
    /\ op \in [Sessions -> Operations]
    /\ sock \in [Sessions -> Conns \cup {NoConn}]
    /\ body \in [Sessions -> Seq(Parts)]
    /\ res \in [Sessions -> Seq(Parts)]
    /\ queue \in Seq(Completions)
    /\ running \in [Threads -> Completions \cup {<<>>}]
    /\ step \in [Threads -> Steps]
    /\ conn \in [Conns -> ConnStates]
    /\ in \in [Conns -> Seq(Inputs)]
    /\ out \in [Conns -> Seq(Seq(Parts))]
    /\ sent \in [Conns -> Seq(Messages)]
    /\ errors \in 0 .. MaxErrors
    /\ \A t \in Threads :
          /\ step[t] # "idle" => running[t] \in Completions
          /\ step[t] = "respond" => running[t].kind = "read"
          /\ step[t] = "rearm" => running[t].kind = "accept"

\* Handlers and the sessions they may touch.
HandlerInv ==
    /\ \A k \in 1 .. Len(queue) : op[queue[k].sess] = "ready"
    /\ \A j, k \in 1 .. Len(queue) : queue[j].sess = queue[k].sess => j = k
    /\ \A t \in Threads : Touches(t) =>
          /\ op[running[t].sess] = "ready"
          /\ \A k \in 1 .. Len(queue) : queue[k].sess # running[t].sess
    /\ \A t, u \in Threads :
          Touches(t) /\ Touches(u) /\ running[t].sess = running[u].sess => t = u
    /\ \A s \in Sessions : op[s] = "ready" =>
          \/ \E k \in 1 .. Len(queue) : queue[k].sess = s
          \/ \E t \in Threads : Touches(t) /\ running[t].sess = s

\* Where the accept is.
Accepting(s) == op[s] = "accept"
AcceptIsQueued(k) == queue[k].kind = "accept"
SeesToAccept(t) == step[t] \in {"enter", "rearm"} /\ running[t].kind = "accept"

AcceptInv ==
    /\ \A r, s \in Sessions : Accepting(r) /\ Accepting(s) => r = s
    /\ \A j, k \in 1 .. Len(queue) : AcceptIsQueued(j) /\ AcceptIsQueued(k) => j = k
    /\ \A t, u \in Threads : SeesToAccept(t) /\ SeesToAccept(u) => t = u
    /\ \A s \in Sessions, k \in 1 .. Len(queue) : ~ (Accepting(s) /\ AcceptIsQueued(k))
    /\ \A s \in Sessions, t \in Threads : ~ (Accepting(s) /\ SeesToAccept(t))
    /\ \A k \in 1 .. Len(queue), t \in Threads : ~ (AcceptIsQueued(k) /\ SeesToAccept(t))
    /\ \/ \E s \in Sessions : Accepting(s)
       \/ \E k \in 1 .. Len(queue) : AcceptIsQueued(k)
       \/ \E t \in Threads : SeesToAccept(t)

ControlInv == Types /\ HandlerInv /\ AcceptInv

\* n messages of connection c were read: those that are left follow.
Read(c, n) ==
    /\ conn[c] \notin {"new", "syn"}
    /\ conn[c] = "open" => Len(sent[c]) = n + Len(in[c])
    /\ \A k \in 1 .. Len(in[c]) : in[c][k].type \in Messages =>
           /\ in[c][k].n = n + k
           /\ n + k <= Len(sent[c]) /\ sent[c][n + k] = in[c][k].type

\* All that session s has read is answered.
Waits(s) ==
    /\ sock[s] \in Conns
    /\ body[s] = <<>>
    /\ Read(sock[s], Len(out[sock[s]]))

\* All but the last request, and b is the body of that one.
Owes(s, b) ==
    LET c == sock[s]
        n == Len(out[c]) + 1
    IN  /\ c \in Conns
        /\ b = <<[conn |-> c, n |-> n]>>
        /\ Read(c, n)

SessionInv(s) ==
    /\ op[s] \in {"free", "accept"} => sock[s] = NoConn /\ body[s] = <<>>
    /\ op[s] = "read" => Waits(s)
    /\ op[s] = "write" => body[s] = <<>> /\ Owes(s, res[s])

\* What a completion e says of its session.
CompletionInv(e) ==
    /\ e.kind = "accept" /\ e.error = "ok" => Waits(e.sess)
    /\ e.kind = "read" /\ e.error = "ok" => Owes(e.sess, body[e.sess])
    /\ e.kind = "write" /\ e.error = "ok" => Waits(e.sess)

ThreadInv(t) ==
    /\ step[t] = "enter" => CompletionInv(running[t])
    /\ step[t] = "respond" => LET s == running[t].sess
                              IN  body[s] = <<>> /\ Owes(s, res[s])

ConnInv(c) ==
    conn[c] \in {"new", "syn"} =>
        /\ in[c] = <<>> /\ out[c] = <<>> /\ sent[c] = <<>>
        /\ \A s \in Sessions : sock[s] # c

ServerInv ==
    /\ ControlInv
    /\ \A r, s \in Sessions : sock[r] = sock[s] => r = s \/ sock[r] = NoConn
    /\ \A c \in Conns : ConnInv(c)
    /\ \A s \in Sessions : SessionInv(s)
    /\ \A k \in 1 .. Len(queue) : CompletionInv(queue[k])
    /\ \A t \in Threads : ThreadInv(t)
    /\ AnswersInOrder
-----------------------------------------------------------------------------
(* The queue.                                                              *)

LEMMA QueueType ==
    ASSUME Types
    PROVE  /\ Len(queue) \in Nat
           /\ \A k \in 1 .. Len(queue) : queue[k] \in Completions
  BY ElementOfSeq, LenProperties DEF Types

LEMMA QueueGrows ==
    ASSUME Types, NEW e \in Completions, queue' = Append(queue, e)
    PROVE  /\ queue' \in Seq(Completions)
           /\ Len(queue') = Len(queue) + 1
           /\ queue'[Len(queue) + 1] = e
           /\ \A k \in 1 .. Len(queue) : queue'[k] = queue[k]
           /\ \A k \in 1 .. Len(queue') : k \in 1 .. Len(queue) \/ k = Len(queue) + 1
  BY QueueType DEF Types

LEMMA QueueShrinks ==
    ASSUME Types, queue # <<>>, queue' = Tail(queue)
    PROVE  /\ queue' \in Seq(Completions)
           /\ Head(queue) = queue[1] /\ Head(queue) \in Completions
           /\ 1 \in 1 .. Len(queue)
           /\ \A k \in 1 .. Len(queue') : /\ queue'[k] = queue[k + 1]
                                          /\ k + 1 \in 1 .. Len(queue)
           /\ \A k \in 1 .. Len(queue) : k = 1 \/ (k - 1 \in 1 .. Len(queue')
                                                   /\ queue'[k - 1] = queue[k])
<1>1. /\ Tail(queue) \in Seq(Completions) /\ Len(Tail(queue)) = Len(queue) - 1
      /\ \A k \in 1 .. Len(Tail(queue)) : Tail(queue)[k] = queue[k + 1]
      /\ Head(queue) \in Completions
  BY HeadTailProperties DEF Types
<1>2. Len(queue) \in Nat /\ Len(queue) # 0
  BY QueueType, EmptySeq DEF Types
<1> QED
  BY <1>1, <1>2 DEF Types

-----------------------------------------------------------------------------
(* Steps that start, move and end a handler.                               *)

\* What the kernel does for session s is complete: a handler is queued.
LEMMA HandlerIsQueued ==
    ASSUME ControlInv, NEW s \in Sessions, op[s] # "ready",
           NEW e \in Completions, e.sess = s,
           op' = [op EXCEPT ![s] = "ready"], queue' = Append(queue, e),
           UNCHANGED threads,
           e.kind = "accept" <=> op[s] = "accept"
    PROVE  HandlerInv' /\ AcceptInv'
<1> USE DEF ControlInv
<1>1. UNCHANGED <<running, step>>
  BY DEF threads
<1>2. HandlerInv'
  <2>1. \A k \in 1 .. Len(queue) : queue[k].sess # s
    BY DEF HandlerInv
  <2>2. \A t \in Threads : Touches(t) => running[t].sess # s
    BY DEF HandlerInv
  <2>3. \A r \in Sessions : op'[r] = IF r = s THEN "ready" ELSE op[r]
    BY DEF Types
  <2>4. \A k \in 1 .. Len(queue) : queue[k].sess \in Sessions
    BY QueueType DEF Completions
  <2>5. \A t \in Threads : Touches(t) => running[t].sess \in Sessions
    BY DEF Types, Touches, Completions
  <2>6. /\ \A k \in 1 .. Len(queue') : \/ k \in 1 .. Len(queue) /\ queue'[k] = queue[k]
                                       \/ k = Len(queue) + 1 /\ queue'[k] = e
        /\ \A k \in 1 .. Len(queue) : k \in 1 .. Len(queue') /\ queue'[k] = queue[k]
        /\ \E k \in 1 .. Len(queue') : queue'[k] = e
    BY QueueGrows, QueueType
  <2>7. \A t \in Threads : Touches(t)' <=> Touches(t)
    BY <1>1 DEF Touches
  <2>8. \A k \in 1 .. Len(queue') : op'[queue'[k].sess] = "ready"
    BY <2>3, <2>4, <2>6 DEF HandlerInv
  <2>9. \A j, k \in 1 .. Len(queue') : queue'[j].sess = queue'[k].sess => j = k
    <3>1. ASSUME NEW j \in 1 .. Len(queue'), NEW k \in 1 .. Len(queue'),
                 queue'[j].sess = queue'[k].sess
          PROVE  j = k
      <4>1. CASE j \in 1 .. Len(queue) /\ queue'[j] = queue[j]
        <5>1. CASE k \in 1 .. Len(queue) /\ queue'[k] = queue[k]
          <6>1. queue[j].sess = queue[k].sess
            BY <3>1, <4>1, <5>1, Zenon
          <6> QED
            BY <4>1, <5>1, <6>1, Zenon DEF HandlerInv
        <5>2. CASE k = Len(queue) + 1 /\ queue'[k] = e
          BY <2>1, <3>1, <4>1, <5>2, Zenon
        <5> QED
          BY <2>6, <5>1, <5>2, Zenon
      <4>2. CASE j = Len(queue) + 1 /\ queue'[j] = e
        BY <2>1, <2>6, <3>1, <4>2, Zenon
      <4> QED
        BY <2>6, <4>1, <4>2, Zenon
    <3> QED
      BY <3>1
  <2>10. \A t \in Threads : Touches(t) =>
            /\ op'[running[t].sess] = "ready"
            /\ \A k \in 1 .. Len(queue') : queue'[k].sess # running[t].sess
    BY <2>2, <2>3, <2>5, <2>6 DEF HandlerInv
  <2>11. \A r \in Sessions : op'[r] = "ready" =>
            \/ \E k \in 1 .. Len(queue') : queue'[k].sess = r
            \/ \E t \in Threads : Touches(t) /\ running[t].sess = r
    BY <2>3, <2>6 DEF HandlerInv
  <2> QED
    BY <1>1, <2>7, <2>8, <2>9, <2>10, <2>11 DEF HandlerInv
<1>3. AcceptInv'
  <2>1. \A r \in Sessions : Accepting(r)' <=> Accepting(r) /\ r # s
    BY DEF Types, Accepting
  <2>2. \A t \in Threads : SeesToAccept(t)' <=> SeesToAccept(t)
    BY <1>1 DEF SeesToAccept
  <2>3. PICK n : n = Len(queue) + 1
    OBVIOUS
  <2>4. /\ \A k \in 1 .. Len(queue)' : k = n \/ k \in 1 .. Len(queue)
        /\ n \in 1 .. Len(queue)' /\ n \notin 1 .. Len(queue)
        /\ \A k \in 1 .. Len(queue) : k \in 1 .. Len(queue)'
    BY <2>3, QueueGrows, QueueType
  <2>5. /\ \A k \in 1 .. Len(queue) : AcceptIsQueued(k)' <=> AcceptIsQueued(k)
        /\ AcceptIsQueued(n)' <=> Accepting(s)
    BY <2>3, QueueGrows DEF AcceptIsQueued, Accepting
  <2> QED
    BY <2>1, <2>2, <2>4, <2>5 DEF AcceptInv
<1> QED
  BY <1>2, <1>3

LEMMA HandlerRuns ==
    ASSUME ControlInv, NEW t \in Threads, Run(t)
    PROVE  ControlInv'
<1> USE DEF ControlInv
<1>1. /\ step[t] = "idle" /\ queue # <<>> /\ queue' = Tail(queue)
      /\ \A u \in Threads : /\ running'[u] = IF u = t THEN Head(queue) ELSE running[u]
                            /\ step'[u] = IF u = t THEN "enter" ELSE step[u]
      /\ op' = op
  BY DEF Run, sessions, Types
<1>2. Types'
  BY <1>1, QueueShrinks DEF Types, Run, sessions, net, Steps
<1>3. HandlerInv'
  <2>1. /\ \A u \in Threads \ {t} : Touches(u)' <=> Touches(u)
        /\ ~ Touches(t) /\ running'[t] = queue[1]
    BY <1>1, QueueShrinks DEF Touches
  <2>2. \A k \in 1 .. Len(queue') : /\ queue'[k] = queue[k + 1] /\ k + 1 # 1
                                    /\ k + 1 \in 1 .. Len(queue)
    BY <1>1, QueueShrinks
  <2>3. \A k \in 1 .. Len(queue') : op'[queue'[k].sess] = "ready"
    BY <1>1, <2>2 DEF HandlerInv
  <2>4. ASSUME NEW j \in 1 .. Len(queue'), NEW k \in 1 .. Len(queue'),
               queue'[j].sess = queue'[k].sess
        PROVE  j = k
    <3>1. /\ j + 1 \in 1 .. Len(queue) /\ k + 1 \in 1 .. Len(queue)
          /\ queue[j + 1].sess = queue[k + 1].sess
      BY <2>2, <2>4
    <3>2. j + 1 = k + 1
      BY <3>1 DEF HandlerInv
    <3> QED
      BY <3>2
  <2>5. ASSUME NEW u \in Threads, Touches(u)'
        PROVE  /\ op'[running'[u].sess] = "ready"
               /\ \A k \in 1 .. Len(queue') : queue'[k].sess # running'[u].sess
    <3>1. CASE u = t
      BY <1>1, <2>1, <2>2, <3>1, QueueShrinks DEF HandlerInv
    <3>2. CASE u # t
      BY <1>1, <2>1, <2>2, <2>5, <3>2 DEF HandlerInv
    <3> QED
      BY <3>1, <3>2
  <2>6. ASSUME NEW u \in Threads, NEW v \in Threads, Touches(u)', Touches(v)',
               running'[u].sess = running'[v].sess
        PROVE  u = v
    BY <1>1, <2>1, <2>6, QueueShrinks DEF HandlerInv
  <2>7. ASSUME NEW s \in Sessions, op'[s] = "ready"
        PROVE  \/ \E k \in 1 .. Len(queue') : queue'[k].sess = s
               \/ \E u \in Threads : Touches(u)' /\ running'[u].sess = s
    <3>1. CASE \E u \in Threads : Touches(u) /\ running[u].sess = s
      BY <1>1, <2>1, <3>1
    <3>2. CASE \E k \in 1 .. Len(queue) : queue[k].sess = s
      <4>1. PICK k \in 1 .. Len(queue) : queue[k].sess = s
        BY <3>2
      <4>2. CASE k = 1
        BY <1>1, <2>1, <4>1, <4>2 DEF Touches
      <4>3. CASE k # 1
        BY <1>1, <4>1, <4>3, QueueShrinks
      <4> QED
        BY <4>2, <4>3
    <3> QED
      BY <1>1, <2>7, <3>1, <3>2 DEF HandlerInv
  <2> QED
    BY <2>3, <2>4, <2>5, <2>6, <2>7 DEF HandlerInv
<1>4. AcceptInv'
  <2>1. \A s \in Sessions : Accepting(s)' <=> Accepting(s)
    BY <1>1 DEF Accepting
  <2>2. /\ \A u \in Threads : u # t => (SeesToAccept(u)' <=> SeesToAccept(u))
        /\ ~ SeesToAccept(t)
        /\ SeesToAccept(t)' <=> AcceptIsQueued(1)
    BY <1>1, QueueShrinks DEF SeesToAccept, AcceptIsQueued
  <2>3. /\ \A k \in 1 .. Len(queue)' : /\ k + 1 \in 1 .. Len(queue)
                                       /\ AcceptIsQueued(k)' <=> AcceptIsQueued(k + 1)
        /\ \A k \in 1 .. Len(queue) :
               k = 1 \/ /\ k - 1 \in 1 .. Len(queue)'
                        /\ AcceptIsQueued(k - 1)' <=> AcceptIsQueued(k)
        /\ 1 \in 1 .. Len(queue)
    BY <1>1, QueueShrinks DEF AcceptIsQueued
  <2>4. \A k \in 1 .. Len(queue)' : k + 1 # 1 /\ k \in Int
    OBVIOUS
  <2> QED
    BY <2>1, <2>2, <2>3, <2>4 DEF AcceptInv
<1> QED
  BY <1>2, <1>3, <1>4

\* A handler gives up its session for another operation o, or for nothing.
LEMMA HandlerEnds ==
    ASSUME ControlInv, NEW t \in Threads, Touches(t), NEW o \in Operations \ {"ready"},
           op' = [op EXCEPT ![running[t].sess] = o], queue' = queue,
           \/ Return(t) /\ running[t].kind # "accept"
           \/ GoOn(t, "rearm") /\ running[t].kind = "accept" /\ step[t] = "enter",
           o # "accept"
    PROVE  HandlerInv' /\ AcceptInv'
<1> USE DEF ControlInv
<1> DEFINE s == running[t].sess
<1>1. s \in Sessions /\ op[s] = "ready"
  BY DEF Types, Touches, Completions, HandlerInv
<1>2. /\ \A u \in Threads \ {t} : running'[u] = running[u] /\ step'[u] = step[u]
      /\ step'[t] \in {"idle", "rearm"}
  BY DEF Return, GoOn, Types
<1>3. \A r \in Sessions : op'[r] = IF r = s THEN o ELSE op[r]
  BY DEF Types
<1>4. HandlerInv'
  <2>1. \A u \in Threads : Touches(u)' => u # t /\ Touches(u)
    BY <1>2 DEF Touches
  <2>2. \A u \in Threads \ {t} : Touches(u) => Touches(u)' /\ running[u].sess # s
    BY <1>2 DEF Touches, HandlerInv
  <2>3. \A k \in 1 .. Len(queue) : queue[k].sess # s /\ queue[k].sess \in Sessions
    BY QueueType DEF HandlerInv, Completions
  <2>4. \A u \in Threads : Touches(u) => running[u].sess \in Sessions
    BY DEF Types, Touches, Completions
  <2> QED
    BY <1>1, <1>2, <1>3, <2>1, <2>2, <2>3, <2>4 DEF HandlerInv
<1>5. AcceptInv'
  <2>1. \A r \in Sessions : Accepting(r)' <=> Accepting(r)
    BY <1>1, <1>3 DEF Accepting
  <2>2. \A u \in Threads : SeesToAccept(u)' <=> SeesToAccept(u)
    BY <1>2 DEF SeesToAccept, Return, GoOn, Types, Touches
  <2>3. \A k : AcceptIsQueued(k)' <=> AcceptIsQueued(k)
    BY DEF AcceptIsQueued
  <2> QED
    BY <2>1, <2>2, <2>3 DEF AcceptInv
<1> QED
  BY <1>4, <1>5

\* The response is there and about to be written.
LEMMA HandlerGoesOn ==
    ASSUME ControlInv, NEW t \in Threads, Handles(t, "read", {"ok"}),
           GoOn(t, "respond"), UNCHANGED <<op, queue>>
    PROVE  HandlerInv' /\ AcceptInv'
<1> USE DEF ControlInv
<1>1. \A u \in Threads : /\ Touches(u)' <=> Touches(u)
                         /\ SeesToAccept(u)' <=> SeesToAccept(u)
  BY DEF Touches, SeesToAccept, GoOn, Handles, Types
<1>2. running' = running
  BY DEF GoOn
<1>3. HandlerInv'
  BY <1>1, <1>2 DEF HandlerInv
<1>4. AcceptInv'
  BY <1>1 DEF AcceptInv, Accepting, AcceptIsQueued
<1> QED
  BY <1>3, <1>4

LEMMA AcceptStarts ==
    ASSUME ControlInv, NEW t \in Threads, StartAccept(t)
    PROVE  HandlerInv' /\ AcceptInv'
<1> USE DEF ControlInv
<1>1. PICK s \in Sessions : op[s] = "free" /\ op' = [op EXCEPT ![s] = "accept"]
  BY DEF StartAccept, SetOp
<1>2. /\ step[t] = "rearm" /\ running[t].kind = "accept" /\ queue' = queue
      /\ \A u \in Threads \ {t} : running'[u] = running[u] /\ step'[u] = step[u]
      /\ step'[t] = "idle"
      /\ \A r \in Sessions : op'[r] = IF r = s THEN "accept" ELSE op[r]
  BY <1>1 DEF StartAccept, Return, Types
<1>3. HandlerInv'
  <2>1. \A u \in Threads : Touches(u)' <=> Touches(u)
    BY <1>2 DEF Touches
  <2>2. \A u \in Threads : Touches(u) => u # t /\ running[u].sess \in Sessions
    BY <1>2 DEF Touches, Types, Completions
  <2>3. \A k \in 1 .. Len(queue) : queue[k].sess \in Sessions
    BY QueueType DEF Completions
  <2> QED
    BY <1>1, <1>2, <2>1, <2>2, <2>3 DEF HandlerInv
<1>4. AcceptInv'
  <2>1. /\ SeesToAccept(t) /\ ~ SeesToAccept(t)'
        /\ \A u \in Threads \ {t} : SeesToAccept(u)' <=> SeesToAccept(u)
    BY <1>2 DEF SeesToAccept
  <2>2. \A r \in Sessions : Accepting(r)' <=> r = s \/ Accepting(r)
    BY <1>2 DEF Accepting
  <2>3. \A k : AcceptIsQueued(k)' <=> AcceptIsQueued(k)
    BY <1>2 DEF AcceptIsQueued
  <2> QED
    BY <1>2, <2>1, <2>2, <2>3 DEF AcceptInv
<1> QED
  BY <1>3, <1>4

\* The process is started again.
LEMMA ControlRestarts ==
    ASSUME ControlInv, NEW t \in Threads, HandlerThrows(t)
    PROVE  HandlerInv' /\ AcceptInv'
<1>1. /\ \A u \in Threads : ~ Touches(u)' /\ ~ SeesToAccept(u)'
      /\ Len(queue)' = 0
  BY DEF HandlerThrows, Touches, SeesToAccept
<1>2. running[t].sess \in Sessions
  BY DEF ControlInv, Types, HandlerThrows, Handles, Completions
<1> QED
  BY <1>1, <1>2 DEF HandlerThrows, HandlerInv, AcceptInv, Accepting
-----------------------------------------------------------------------------
(* Types.                                                                  *)

LEMMA InitTypes == Init => Types
  BY SizesAssumption, EmptySeq DEF Init, Types, Operations, Steps, ConnStates

LEMMA ClientTypes ==
    ASSUME Types, NEW c \in Conns, Client(c)
    PROVE  Types'
<1>1. UNCHANGED <<op, sock, body, res, queue, running, step, out, errors>>
  BY DEF Client, Connect, Send, Close, Abort, sessions, threads
<1>2. conn' \in [Conns -> ConnStates]
  BY DEF Client, Connect, Send, Close, Abort, Types, ConnStates
<1>3. sent' \in [Conns -> Seq(Messages)] /\ in' \in [Conns -> Seq(Inputs)]
  <2>1. CASE Send(c)
    <3>1. PICK type \in Messages :
              /\ sent' = [sent EXCEPT ![c] = Append(@, type)]
              /\ in' = [in EXCEPT ![c] = Append(@, [type |-> type, n |-> Len(sent[c]) + 1])]
      BY <2>1 DEF Send
    <3>2. Len(sent[c]) + 1 \in Nat /\ Append(sent[c], type) \in Seq(Messages)
      BY DEF Types
    <3>3. [type |-> type, n |-> Len(sent[c]) + 1] \in Inputs
      BY <3>2 DEF Inputs
    <3>4. Append(in[c], [type |-> type, n |-> Len(sent[c]) + 1]) \in Seq(Inputs)
      BY <3>3 DEF Types
    <3> QED
      BY <3>1, <3>2, <3>4 DEF Types
  <2>2. CASE Close(c)
    <3>1. PICK type \in {"eof", "torn"} :
              in' = [in EXCEPT ![c] = Append(@, [type |-> type, n |-> 0])]
      BY <2>2 DEF Close
    <3>2. Append(in[c], [type |-> type, n |-> 0]) \in Seq(Inputs)
      BY DEF Inputs, Types
    <3> QED
      BY <2>2, <3>1, <3>2 DEF Close, Types
  <2>3. CASE Connect(c)
    BY <2>3 DEF Connect, Types
  <2>4. CASE Abort(c)
    BY <2>4, EmptySeq DEF Abort, Types
  <2> QED
    BY <2>1, <2>2, <2>3, <2>4 DEF Client
<1> QED
  BY <1>1, <1>2, <1>3 DEF Types

LEMMA HeadOfInput ==
    ASSUME Types, NEW c \in Conns, in[c] # <<>>
    PROVE  /\ Head(in[c]) \in Inputs /\ Head(in[c]) = in[c][1]
           /\ Tail(in[c]) \in Seq(Inputs)
           /\ Len(Tail(in[c])) = Len(in[c]) - 1
           /\ Len(in[c]) \in Nat \ {0}
           /\ \A k \in 1 .. Len(Tail(in[c])) :
                  Tail(in[c])[k] = in[c][k + 1] /\ k + 1 \in 1 .. Len(in[c])
<1>1. in[c] \in Seq(Inputs)
  BY DEF Types
<1>2. Len(in[c]) \in Nat \ {0}
  BY <1>1, EmptySeq
<1> QED
  BY <1>1, <1>2, HeadTailProperties

\* The kind of a completion tells the operation.
LEMMA CompletionQueued ==
    ASSUME NEW s \in Sessions, NEW kind, NEW error, Ready(s, kind, error),
           kind \in {"accept", "read", "write"}, error \in Errors
    PROVE  /\ [sess |-> s, kind |-> kind, error |-> error] \in Completions
           /\ queue' = Append(queue, [sess |-> s, kind |-> kind, error |-> error])
  BY DEF Ready, Completions

LEMMA InputOfRead ==
    ASSUME ServerInv, NEW s \in Sessions, ReadCompletes(s)
    PROVE  /\ sock[s] \in Conns /\ in[sock[s]] # <<>>
           /\ Head(in[sock[s]]).type \in {"request", "malformed", "eof", "torn"}
           /\ Head(in[sock[s]]).n \in Nat
<1>1. sock[s] \in Conns /\ in[sock[s]] # <<>>
  BY DEF ServerInv, ReadCompletes, SessionInv, Waits
<1> QED
  BY <1>1, HeadOfInput DEF Inputs, Messages, ServerInv, ControlInv

\* What the kernel's steps have in common.
LEMMA CompleteQueues ==
    ASSUME ServerInv, NEW s \in Sessions, Complete(s)
    PROVE  /\ \E error \in Errors : Ready(s, op[s], error)
           /\ op[s] \in {"accept", "read", "write"}
           /\ op' = [op EXCEPT ![s] = "ready"]
           /\ UNCHANGED <<res, threads, sent>>
<1>1. CASE AcceptCompletes(s) \/ AcceptFails(s)
  BY <1>1 DEF AcceptCompletes, AcceptFails, SetOp, Errors, net
<1>2. CASE ReadCompletes(s)
  BY <1>2, InputOfRead DEF ReadCompletes, SetOp, Errors
<1>3. CASE ReadFails(s) \/ WriteCompletes(s) \/ WriteFails(s)
  BY <1>3 DEF ReadFails, WriteCompletes, WriteFails, SetOp, Errors, net
<1> QED
  BY <1>1, <1>2, <1>3 DEF Complete

LEMMA CompleteTypes ==
    ASSUME ServerInv, NEW s \in Sessions, Complete(s)
    PROVE  Types'
<1> USE DEF ServerInv, ControlInv
<1>1. queue' \in Seq(Completions)
  BY CompleteQueues, CompletionQueued, QueueGrows
<1>2. op' = [op EXCEPT ![s] = "ready"] /\ UNCHANGED <<res, running, step, sent>>
  BY CompleteQueues DEF threads
<1>3. /\ sock' \in [Sessions -> Conns \cup {NoConn}]
      /\ conn' \in [Conns -> ConnStates]
      /\ errors' \in 0 .. MaxErrors
      /\ body' \in [Sessions -> Seq(Parts)] /\ in' \in [Conns -> Seq(Inputs)]
      /\ out' \in [Conns -> Seq(Seq(Parts))]
  <2>1. CASE ReadCompletes(s)
    <3> DEFINE c == sock[s]
    <3>1. body' = body \/ body' = [body EXCEPT ![s] =
              Append(@, [conn |-> c, n |-> Head(in[c]).n])]
      BY <2>1, InputOfRead DEF ReadCompletes
    <3>2. Append(body[s], [conn |-> c, n |-> Head(in[c]).n]) \in Seq(Parts)
      <4>1. [conn |-> c, n |-> Head(in[c]).n] \in Parts
        BY <2>1, InputOfRead DEF Parts
      <4>2. body[s] \in Seq(Parts)
        BY DEF Types
      <4> QED
        BY <4>1, <4>2
    <3>3. in' \in [Conns -> Seq(Inputs)]
      BY <2>1, InputOfRead, HeadOfInput DEF ReadCompletes, Types
    <3> QED
      BY <2>1, <3>1, <3>2, <3>3 DEF ReadCompletes, Types
  <2>2. CASE WriteCompletes(s)
    <3>1. sock[s] \in Conns
      BY <2>2 DEF WriteCompletes, SessionInv, Owes
    <3>2. Append(out[sock[s]], res[s]) \in Seq(Seq(Parts))
      BY <3>1 DEF Types
    <3> QED
      BY <2>2, <3>1, <3>2 DEF WriteCompletes, Types
  <2>3. CASE AcceptCompletes(s)
    BY <2>3 DEF AcceptCompletes, Types, ConnStates
  <2>4. CASE AcceptFails(s)
    <3>1. errors + 1 \in 0 .. MaxErrors
      BY <2>4, SizesAssumption DEF AcceptFails, Types
    <3> QED
      BY <2>4, <3>1 DEF AcceptFails, Types, net
  <2>5. CASE ReadFails(s) \/ WriteFails(s)
    BY <2>5 DEF ReadFails, WriteFails, Types, net
  <2> QED
    BY <2>1, <2>2, <2>3, <2>4, <2>5 DEF Complete
<1> QED
  BY <1>1, <1>2, <1>3 DEF Types, Operations

LEMMA WorkTypes ==
    ASSUME Types, NEW t \in Threads, Work(t) \/ HandlerThrows(t)
    PROVE  Types'
<1>1. step[t] # "idle" => running[t] \in Completions /\ running[t].sess \in Sessions
  BY DEF Types, Completions
<1>2. CASE Run(t)
  BY <1>2, QueueShrinks DEF Run, Types, Steps, sessions, net
<1>3. CASE StartSession(t)
  BY <1>1, <1>3 DEF StartSession, Handles, GoOn, SetOp, Types, Steps, Operations, net
<1>4. CASE DropSession(t)
  BY <1>1, <1>4, EmptySeq DEF DropSession, Handles, GoOn, Delete, SetOp, Types, Steps, Operations, net
<1>5. CASE StartAccept(t)
  BY <1>1, <1>5 DEF StartAccept, Return, SetOp, Types, Steps, Operations, net
<1>6. CASE CreateResponse(t)
  BY <1>1, <1>6, EmptySeq DEF CreateResponse, Handles, GoOn, Types, Steps, net
<1>7. CASE StartWrite(t)
  BY <1>1, <1>7 DEF StartWrite, Return, SetOp, Types, Steps, Operations, net
<1>8. CASE PartialRead(t)
  BY <1>1, <1>8 DEF PartialRead, Handles, Return, SetOp, Types, Steps, Operations, net
<1>11. CASE ReadNext(t)
  BY <1>1, <1>11 DEF ReadNext, Handles, Return, SetOp, Types, Steps, Operations, net
<1>9. CASE Disconnect(t)
  <2>1. conn' \in [Conns -> ConnStates] /\ in' \in [Conns -> Seq(Inputs)]
    BY <1>9, EmptySeq DEF Disconnect, CloseSocket, Types, ConnStates
  <2> QED
    BY <1>1, <1>9, <2>1, EmptySeq
    DEF Disconnect, Handles, Return, Delete, SetOp, Types, Steps, Operations
<1>10. CASE HandlerThrows(t)
  BY <1>10, EmptySeq DEF HandlerThrows, Types, Steps, Operations, ConnStates
<1> QED
  BY <1>2, <1>3, <1>4, <1>5, <1>6, <1>7, <1>8, <1>9, <1>10, <1>11 DEF Work

LEMMA TypesNext ==
    ASSUME ServerInv, [Next]_vars
    PROVE  Types'
<1>1. CASE UNCHANGED vars
  BY <1>1 DEF vars, sessions, threads, net, Types, ServerInv, ControlInv
<1> QED
  BY <1>1, ClientTypes, CompleteTypes, WorkTypes DEF Next, ServerInv, ControlInv
-----------------------------------------------------------------------------
(* What is known of the sessions that a step leaves alone.                 *)

Unmoved(s) ==
    /\ sock'[s] = sock[s] /\ body'[s] = body[s] /\ res'[s] = res[s]
    /\ sock[s] \in Conns =>
           LET c == sock[s]
           IN  /\ conn'[c] = conn[c] /\ in'[c] = in[c]
               /\ out'[c] = out[c] /\ sent'[c] = sent[c]

LEMMA UnmovedStays ==
    ASSUME NEW s, Unmoved(s)
    PROVE  /\ Waits(s) => Waits(s)'
           /\ Owes(s, body[s]) => Owes(s, body[s])'
           /\ Owes(s, res[s]) => Owes(s, res[s])'
  BY DEF Unmoved, Waits, Owes, Read

LEMMA OtherSession ==
    ASSUME NEW s \in Sessions, Unmoved(s), op'[s] = op[s], SessionInv(s)
    PROVE  SessionInv(s)'
  BY UnmovedStays DEF SessionInv, Unmoved

LEMMA OtherCompletion ==
    ASSUME NEW e, Unmoved(e.sess), CompletionInv(e)
    PROVE  CompletionInv(e)'
<1> DEFINE s == e.sess
<1>1. /\ Waits(s) => Waits(s)'
      /\ Owes(s, body[s]) => Owes(s, body[s])'
  BY UnmovedStays
<1> QED
  BY <1>1 DEF CompletionInv

LEMMA OtherThread ==
    ASSUME NEW t \in Threads, step'[t] = step[t], running'[t] = running[t],
           Touches(t) => Unmoved(running[t].sess), ThreadInv(t)
    PROVE  ThreadInv(t)'
<1>1. CASE step[t] = "enter"
  <2>1. CompletionInv(running[t])'
    BY <1>1, OtherCompletion DEF Touches, ThreadInv
  <2> QED
    BY <1>1, <2>1 DEF ThreadInv, CompletionInv, Waits, Owes
<1>2. CASE step[t] = "respond"
  <2> DEFINE s == running[t].sess
  <2>1. Unmoved(s) /\ body[s] = <<>> /\ Owes(s, res[s])
    BY <1>2 DEF Touches, ThreadInv
  <2>2. Owes(s, res[s])' /\ body'[s] = <<>>
    BY <2>1, UnmovedStays DEF Unmoved
  <2> QED
    BY <1>2, <2>2 DEF ThreadInv, Owes
<1> QED
  BY <1>1, <1>2 DEF ThreadInv

\* A step with session s that leaves all other sessions and their connections
\* alone.
LEMMA OneSession ==
    ASSUME ServerInv, ControlInv', NEW s \in Sessions,
           \A r \in Sessions \ {s} : Unmoved(r) /\ op'[r] = op[r],
           sock'[s] \in {sock[s], NoConn} \/ \A r \in Sessions : sock[r] # sock'[s],
           SessionInv(s)',
           \A k \in 1 .. Len(queue') : \/ CompletionInv(queue[k])'
                                       \/ \E j \in 1 .. Len(queue) : /\ queue'[k] = queue[j]
                                                                     /\ queue[j].sess # s,
           \A t \in Threads : \/ ThreadInv(t)'
                              \/ /\ step'[t] = step[t] /\ running'[t] = running[t]
                                 /\ Touches(t) => running[t].sess # s,
           \A c \in Conns : ConnInv(c)', AnswersInOrder'
    PROVE  ServerInv'
<1>1. \A r, q \in Sessions : sock'[r] = sock'[q] => r = q \/ sock'[r] = NoConn
  BY DEF ServerInv, Unmoved
<1>2. ASSUME NEW r \in Sessions PROVE SessionInv(r)'
  BY OtherSession DEF ServerInv
<1>3. ASSUME NEW k \in 1 .. Len(queue') PROVE CompletionInv(queue[k])'
  <2>1. CASE \E j \in 1 .. Len(queue) : queue'[k] = queue[j] /\ queue[j].sess # s
    <3>1. PICK j \in 1 .. Len(queue) : queue'[k] = queue[j] /\ queue[j].sess # s
      BY <2>1
    <3>2. PICK e : e = queue[j]
      OBVIOUS
    <3>3. CompletionInv(e) /\ Unmoved(e.sess)
      BY <3>1, <3>2, QueueType DEF ServerInv, ControlInv, Completions
    <3>4. CompletionInv(e)'
      BY <3>3, OtherCompletion
    <3> QED
      BY <3>1, <3>2, <3>4 DEF CompletionInv, Waits, Owes
  <2> QED
    BY <2>1
<1>4. ASSUME NEW t \in Threads PROVE ThreadInv(t)'
  <2>1. CASE /\ step'[t] = step[t] /\ running'[t] = running[t]
             /\ Touches(t) => running[t].sess # s
    <3>1. Touches(t) => running[t].sess \in Sessions
      BY DEF Touches, ServerInv, ControlInv, Types, Completions
    <3> QED
      BY <2>1, <3>1, OtherThread DEF ServerInv
  <2> QED
    BY <2>1
<1> QED
  BY <1>1, <1>2, <1>3, <1>4 DEF ServerInv
-----------------------------------------------------------------------------
(* The kernel.                                                             *)

LEMMA KernelControl ==
    ASSUME ServerInv, NEW s \in Sessions, Complete(s)
    PROVE  ControlInv'
<1>1. PICK error \in Errors : Ready(s, op[s], error)
  BY CompleteQueues
<1>2. PICK e : e = [sess |-> s, kind |-> op[s], error |-> error]
  OBVIOUS
<1>3. op[s] \in {"accept", "read", "write"}
  BY CompleteQueues
<1>4. e \in Completions /\ queue' = Append(queue, e)
  BY <1>1, <1>2, <1>3, CompletionQueued
<1>5. /\ op' = [op EXCEPT ![s] = "ready"] /\ UNCHANGED threads
      /\ e.sess = s /\ e.kind = op[s] /\ op[s] # "ready"
  BY <1>2, <1>3, CompleteQueues
<1>6. HandlerInv' /\ AcceptInv'
  BY <1>4, <1>5, HandlerIsQueued DEF ServerInv
<1> QED
  BY <1>6, CompleteTypes DEF ControlInv

\* Only the completion that is queued, e, says anything new.
LEMMA KernelStep ==
    ASSUME ServerInv, NEW s \in Sessions, Complete(s), NEW error, Ready(s, op[s], error),
           NEW e, e = [sess |-> s, kind |-> op[s], error |-> error], CompletionInv(e)',
           \A r \in Sessions \ {s} : Unmoved(r),
           sock'[s] = sock[s] \/ \A r \in Sessions : sock[r] # sock'[s],
           \A c \in Conns : ConnInv(c)', AnswersInOrder'
    PROVE  ServerInv'
<1>1. ControlInv' /\ op[s] # "ready" /\ op' = [op EXCEPT ![s] = "ready"] /\ UNCHANGED threads
  BY KernelControl, CompleteQueues
<1>2. \A r \in Sessions : op'[r] = IF r = s THEN "ready" ELSE op[r]
  BY <1>1 DEF ServerInv, ControlInv, Types
<1>3. SessionInv(s)'
  BY <1>2 DEF SessionInv
<1>4. /\ \A k \in 1 .. Len(queue) : queue[k].sess # s
      /\ \A t \in Threads : Touches(t) => running[t].sess # s
  BY <1>1 DEF ServerInv, ControlInv, HandlerInv
<1>5. queue' = Append(queue, e) /\ Len(queue) \in Nat /\ queue \in Seq(Completions)
  BY QueueType DEF Ready, ServerInv, ControlInv, Types
<1>6. ASSUME NEW k \in 1 .. Len(queue')
      PROVE  \/ CompletionInv(queue[k])'
             \/ \E i \in 1 .. Len(queue) : queue'[k] = queue[i] /\ queue[i].sess # s
  <2>1. (k \in 1 .. Len(queue) /\ queue'[k] = queue[k]) \/ queue'[k] = e
    BY <1>5
  <2> QED
    BY <1>4, <2>1 DEF CompletionInv, Waits, Owes
<1>7. ASSUME NEW t \in Threads
      PROVE  /\ step'[t] = step[t] /\ running'[t] = running[t]
             /\ Touches(t) => running[t].sess # s
  BY <1>1, <1>4 DEF threads
<1> QED
  BY <1>1, <1>2, <1>3, <1>6, <1>7, OneSession

\* Only session s has the connection of s.
LEMMA OwnConnection ==
    ASSUME ServerInv, NEW s \in Sessions, sock[s] \in Conns
    PROVE  \A r \in Sessions \ {s} : sock[r] # sock[s]
  BY NoConnAssumption DEF ServerInv

LEMMA AcceptCompletesStep ==
    ASSUME ServerInv, NEW s \in Sessions, AcceptCompletes(s)
    PROVE  ServerInv'
<1>1. PICK c \in Conns : /\ conn[c] = "syn" /\ conn' = [conn EXCEPT ![c] = "open"]
                         /\ sock' = [sock EXCEPT ![s] = c]
  BY DEF AcceptCompletes
<1>2. /\ op[s] = "accept" /\ Ready(s, op[s], "ok") /\ Complete(s)
      /\ UNCHANGED <<body, res, in, out, sent>>
  BY DEF AcceptCompletes, Complete
<1>3. /\ in[c] = <<>> /\ out[c] = <<>> /\ sent[c] = <<>> /\ \A r \in Sessions : sock[r] # c
  BY <1>1 DEF ServerInv, ConnInv
<1>4. /\ sock'[s] = c /\ conn'[c] = "open"
      /\ \A r \in Sessions \ {s} : sock'[r] = sock[r]
      /\ \A d \in Conns \ {c} : conn'[d] = conn[d]
  BY <1>1 DEF ServerInv, ControlInv, Types
<1>5. \A r \in Sessions \ {s} : Unmoved(r)
  BY <1>2, <1>3, <1>4 DEF Unmoved
<1>6. ASSUME NEW d \in Conns PROVE ConnInv(d)'
  BY <1>2, <1>4 DEF ServerInv, ConnInv
<1>7. AnswersInOrder'
  BY <1>2 DEF ServerInv, AnswersInOrder
<1>8. Waits(s)'
  <2>1. body[s] = <<>>
    BY <1>2 DEF ServerInv, SessionInv
  <2>2. Len(in[c]) = 0 /\ Len(out[c]) = 0 /\ Len(sent[c]) = 0
    BY <1>3, EmptySeq
  <2>3. Read(c, 0)'
    BY <1>2, <1>3, <1>4, <2>2 DEF Read
  <2> QED
    BY <1>2, <1>4, <2>1, <2>2, <2>3 DEF Waits
<1>9. PICK e : e = [sess |-> s, kind |-> op[s], error |-> "ok"]
  OBVIOUS
<1>10. CompletionInv(e)'
  BY <1>2, <1>8, <1>9 DEF CompletionInv, Waits, Owes
<1> QED
  BY <1>2, <1>3, <1>4, <1>5, <1>6, <1>7, <1>9, <1>10, KernelStep

\* A failure tells the handler only.
LEMMA FailStep ==
    ASSUME ServerInv, NEW s \in Sessions, AcceptFails(s) \/ ReadFails(s) \/ WriteFails(s)
    PROVE  ServerInv'
<1>1. Ready(s, op[s], "reset") /\ Complete(s) /\ UNCHANGED <<sock, body, res, conn, in, out, sent>>
  BY DEF AcceptFails, ReadFails, WriteFails, Complete, net
<1>2. \A r \in Sessions \ {s} : Unmoved(r)
  BY <1>1 DEF Unmoved
<1>3. \A c \in Conns : ConnInv(c)'
  BY <1>1 DEF ServerInv, ConnInv
<1>4. AnswersInOrder'
  BY <1>1 DEF ServerInv, AnswersInOrder
<1>5. PICK e : e = [sess |-> s, kind |-> op[s], error |-> "reset"]
  OBVIOUS
<1>6. CompletionInv(e)'
  BY <1>5 DEF CompletionInv
<1> QED
  BY <1>1, <1>2, <1>3, <1>4, <1>5, <1>6, KernelStep

\* The request that is read is the one after those that were answered.
LEMMA ReadCompletesStep ==
    ASSUME ServerInv, NEW s \in Sessions, ReadCompletes(s)
    PROVE  ServerInv'
<1>1. PICK c \in Conns : c = sock[s]
  BY InputOfRead
<1>2. PICK m \in Nat : m = Len(out[c])
  BY LenProperties DEF ServerInv, ControlInv, Types
<1>3. PICK head : head = Head(in[c])
  OBVIOUS
<1>4. /\ op[s] = "read" /\ in' = [in EXCEPT ![c] = Tail(@)] /\ Complete(s)
      /\ UNCHANGED <<sock, res, conn, out, sent>>
      /\ in[c] # <<>> /\ head.type \in {"request", "malformed", "eof", "torn"}
  BY <1>1, <1>3, InputOfRead DEF ReadCompletes, Complete
<1>5. /\ in[c] \in Seq(Inputs) /\ Len(in[c]) \in Nat \ {0} /\ head = in[c][1]
      /\ Len(Tail(in[c])) = Len(in[c]) - 1
      /\ \A k \in 1 .. Len(Tail(in[c])) :
             Tail(in[c])[k] = in[c][k + 1] /\ k + 1 \in 1 .. Len(in[c])
  BY <1>3, <1>4, HeadOfInput DEF ServerInv, ControlInv, Types
<1>6. (\A d \in Conns \ {c} : in'[d] = in[d]) /\ in'[c] = Tail(in[c])
  BY <1>4 DEF ServerInv, ControlInv, Types
<1>7. \A r \in Sessions \ {s} : Unmoved(r)
  <2>1. \A r \in Sessions \ {s} : body'[r] = body[r]
    BY <1>1, <1>3, <1>4 DEF ReadCompletes, ServerInv, ControlInv, Types
  <2> QED
    BY <1>1, <1>4, <1>6, <2>1, OwnConnection DEF Unmoved
<1>8. Read(c, m) /\ body[s] = <<>>
  BY <1>1, <1>2, <1>4 DEF ServerInv, SessionInv, Waits
<1>9. \A d \in Conns : ConnInv(d)'
  BY <1>4, <1>6, <1>8 DEF ServerInv, ConnInv, Read
<1>10. AnswersInOrder'
  BY <1>4 DEF ServerInv, AnswersInOrder
<1>11. CASE head.type = "request"
  <2>1. Ready(s, op[s], "ok")
    BY <1>1, <1>3, <1>4, <1>11 DEF ReadCompletes
  <2>2. head.n = m + 1
    BY <1>5, <1>8, <1>11 DEF Read, Messages
  <2>3. body'[s] = <<[conn |-> c, n |-> m + 1]>>
    <3>1. body' = [body EXCEPT ![s] = Append(@, [conn |-> c, n |-> head.n])]
      BY <1>1, <1>3, <1>11 DEF ReadCompletes
    <3> QED
      BY <1>8, <2>2, <3>1 DEF ServerInv, ControlInv, Types
  <2>4. Read(c, m + 1)'
    <3>1. /\ conn'[c] \notin {"new", "syn"}
          /\ conn'[c] = "open" => Len(sent'[c]) = m + 1 + Len(in'[c])
      <4>1. Len(in'[c]) = Len(in[c]) - 1 /\ conn'[c] = conn[c] /\ sent'[c] = sent[c]
        BY <1>4, <1>5, <1>6
      <4>2. \A l \in Nat \ {0} : m + 1 + (l - 1) = m + l
        OBVIOUS
      <4>3. m + 1 + Len(in'[c]) = m + Len(in[c])
        BY <1>5, <4>1, <4>2
      <4> QED
        BY <1>8, <4>1, <4>3 DEF Read
    <3>2. ASSUME NEW k \in 1 .. Len(in'[c]), in'[c][k].type \in Messages
          PROVE  /\ in'[c][k].n = m + 1 + k
                 /\ m + 1 + k <= Len(sent'[c]) /\ sent'[c][m + 1 + k] = in'[c][k].type
      <4>1. in'[c][k] = in[c][k + 1] /\ k + 1 \in 1 .. Len(in[c]) /\ sent' = sent
        BY <1>4, <1>5, <1>6
      <4>2. /\ in[c][k + 1].n = m + (k + 1)
            /\ m + (k + 1) <= Len(sent[c]) /\ sent[c][m + (k + 1)] = in[c][k + 1].type
        BY <1>8, <3>2, <4>1 DEF Read
      <4>3. m + (k + 1) = m + 1 + k
        BY <4>1
      <4> QED
        BY <4>1, <4>2, <4>3
    <3> QED
      BY <3>1, <3>2 DEF Read
  <2>5. Owes(s, body[s])'
    BY <1>1, <1>2, <1>4, <2>3, <2>4 DEF Owes
  <2>6. PICK e : e = [sess |-> s, kind |-> op[s], error |-> "ok"]
    OBVIOUS
  <2>7. CompletionInv(e)'
    BY <1>4, <2>5, <2>6 DEF CompletionInv, Waits, Owes
  <2> QED
    BY <1>4, <1>7, <1>9, <1>10, <2>1, <2>6, <2>7, KernelStep
<1>12. CASE head.type # "request"
  <2>1. PICK error \in {"eof", "partial", "malformed"} : Ready(s, op[s], error)
    BY <1>1, <1>3, <1>4, <1>12 DEF ReadCompletes
  <2>2. PICK e : e = [sess |-> s, kind |-> op[s], error |-> error]
    OBVIOUS
  <2>3. CompletionInv(e)'
    BY <2>2 DEF CompletionInv
  <2> QED
    BY <1>4, <1>7, <1>9, <1>10, <2>1, <2>2, <2>3, KernelStep
<1> QED
  BY <1>11, <1>12

\* The response is the next one of the connection.
LEMMA WriteCompletesStep ==
    ASSUME ServerInv, NEW s \in Sessions, WriteCompletes(s)
    PROVE  ServerInv'
<1> DEFINE c == sock[s]
           m == Len(out[c])
<1>1. /\ op[s] = "write" /\ out' = [out EXCEPT ![c] = Append(@, res[s])] /\ Complete(s)
      /\ Ready(s, op[s], "ok") /\ UNCHANGED <<sock, body, res, conn, in, sent>>
  BY DEF WriteCompletes, Complete
<1>2. body[s] = <<>> /\ Owes(s, res[s])
  BY <1>1 DEF ServerInv, SessionInv
<1>3. /\ c \in Conns /\ res[s] = <<[conn |-> c, n |-> m + 1]>> /\ Read(c, m + 1)
      /\ conn[c] \notin {"new", "syn"}
  BY <1>2 DEF Owes, Read
<1>4. /\ out[c] \in Seq(Seq(Parts)) /\ res[s] \in Seq(Parts) /\ m \in Nat
  BY <1>3, LenProperties DEF ServerInv, ControlInv, Types
<1>5. /\ \A d \in Conns \ {c} : out'[d] = out[d]
      /\ out'[c] = Append(out[c], res[s]) /\ Len(out'[c]) = m + 1
      /\ out'[c][m + 1] = res[s] /\ \A k \in 1 .. m : out'[c][k] = out[c][k]
  BY <1>1, <1>3, <1>4 DEF ServerInv, ControlInv, Types
<1>6. \A r \in Sessions \ {s} : Unmoved(r)
  BY <1>1, <1>3, <1>5, OwnConnection DEF Unmoved
<1>7. \A d \in Conns : ConnInv(d)'
  BY <1>1, <1>3, <1>5 DEF ServerInv, ConnInv
<1>8. AnswersInOrder'
  <2>1. ASSUME NEW d \in Conns, NEW k \in 1 .. Len(out'[d])
        PROVE  out'[d][k] = <<[conn |-> d, n |-> k]>>
    <3>1. CASE d # c
      BY <1>5, <3>1 DEF ServerInv, AnswersInOrder
    <3>2. CASE d = c /\ k = m + 1
      BY <1>3, <1>5, <3>2
    <3>3. CASE d = c /\ k # m + 1
      <4>1. k \in 1 .. m
        BY <1>4, <1>5, <3>3
      <4> QED
        BY <1>3, <1>5, <3>3, <4>1 DEF ServerInv, AnswersInOrder
    <3> QED
      BY <3>1, <3>2, <3>3
  <2> QED
    BY <2>1 DEF AnswersInOrder
<1>9. Waits(s)'
  <2>1. PICK d \in Conns : d = c
    BY <1>3
  <2>2. PICK n : n = m + 1
    OBVIOUS
  <2>3. sock'[s] = d /\ body'[s] = <<>> /\ Len(out'[d]) = n
    BY <1>1, <1>2, <1>5, <2>1, <2>2
  <2>4. Read(d, n)
    BY <1>3, <2>1, <2>2
  <2>5. Read(d, n)'
    BY <1>1, <2>4 DEF Read
  <2> QED
    BY <2>3, <2>5 DEF Waits
<1>10. PICK e : e = [sess |-> s, kind |-> op[s], error |-> "ok"]
  OBVIOUS
<1>11. CompletionInv(e)'
  BY <1>1, <1>9, <1>10 DEF CompletionInv, Waits, Owes
<1> QED
  BY <1>1, <1>6, <1>7, <1>8, <1>10, <1>11, KernelStep
-----------------------------------------------------------------------------
(* The threads.                                                            *)

\* Of the network, only the connection of session s may change: it is closed.
SocketOnly(s) ==
    /\ UNCHANGED <<out, sent>>
    /\ \A c \in Conns : \/ conn'[c] = conn[c] /\ in'[c] = in[c]
                        \/ /\ c = sock[s] /\ sock'[s] = NoConn /\ in'[c] = <<>>
                           /\ conn'[c] = IF conn[c] = "open" THEN "dropped" ELSE conn[c]

LEMMA NetIsKept ==
    ASSUME UNCHANGED net, NEW s
    PROVE  SocketOnly(s)
  BY DEF net, SocketOnly

LEMMA SocketCloses ==
    ASSUME Types, NEW t \in Threads, Disconnect(t), NEW s, s = running[t].sess
    PROVE  SocketOnly(s) /\ (sock[s] \in Conns => conn'[sock[s]] # "open")
<1>1. s \in Sessions
  BY DEF Disconnect, Handles, Types, Completions
<1> QED
  BY <1>1 DEF Disconnect, Delete, CloseSocket, SocketOnly, Types

\* A handler of session s, which keeps to s and its connection.
LEMMA ThreadStep ==
    ASSUME ServerInv, ControlInv', NEW t \in Threads, Touches(t),
           NEW s, s = running[t].sess,
           \A r \in Sessions \ {s} : Unmoved(r) /\ op'[r] = op[r],
           \A u \in Threads \ {t} : step'[u] = step[u] /\ running'[u] = running[u],
           queue' = queue, SocketOnly(s),
           sock'[s] \in {sock[s], NoConn}, SessionInv(s)', ThreadInv(t)'
    PROVE  ServerInv'
<1>1. s \in Sessions
  BY DEF Touches, ServerInv, ControlInv, Types, Completions
<1>2. ASSUME NEW k \in 1 .. Len(queue')
      PROVE  \E i \in 1 .. Len(queue) : queue'[k] = queue[i] /\ queue[i].sess # s
  BY DEF ServerInv, ControlInv, HandlerInv
<1>3. ASSUME NEW u \in Threads \ {t}, Touches(u) PROVE running[u].sess # s
  BY <1>3 DEF ServerInv, ControlInv, HandlerInv
<1>4. UNCHANGED <<out, sent>>
  BY DEF SocketOnly
<1>5. \A r \in Sessions : sock'[r] \in {sock[r], NoConn}
  BY DEF Unmoved
<1>6. ASSUME NEW c \in Conns, conn'[c] \in {"new", "syn"}
      PROVE  /\ in'[c] = <<>> /\ out'[c] = <<>> /\ sent'[c] = <<>>
             /\ \A r \in Sessions : sock'[r] # c
  <2>1. conn[c] = conn'[c] /\ in'[c] \in {in[c], <<>>}
    BY <1>6 DEF SocketOnly
  <2>2. ConnInv(c)
    BY DEF ServerInv
  <2> QED
    BY <1>4, <1>5, <1>6, <2>1, <2>2, NoConnAssumption DEF ConnInv
<1>7. AnswersInOrder'
  BY <1>4 DEF ServerInv, AnswersInOrder
<1>8. \A c \in Conns : ConnInv(c)'
  BY <1>6 DEF ConnInv
<1> QED
  BY <1>1, <1>2, <1>3, <1>7, <1>8, OneSession

LEMMA RunStep ==
    ASSUME ServerInv, NEW t \in Threads, Run(t)
    PROVE  ServerInv'
<1>1. /\ UNCHANGED <<op, sock, body, res, conn, in, out, sent>>
      /\ \A u \in Threads : /\ running'[u] = IF u = t THEN Head(queue) ELSE running[u]
                            /\ step'[u] = IF u = t THEN "enter" ELSE step[u]
      /\ queue # <<>> /\ queue' = Tail(queue)
  BY DEF Run, sessions, net, ServerInv, ControlInv, Types
<1>2. ControlInv'
  BY HandlerRuns DEF ServerInv
<1>6. \A s \in Sessions : Unmoved(s)
  BY <1>1 DEF Unmoved
<1>3. ASSUME NEW s \in Sessions PROVE SessionInv(s)'
  BY <1>1, <1>6, OtherSession DEF ServerInv
<1>4. \A c \in Conns : ConnInv(c)'
  BY <1>1 DEF ServerInv, ConnInv
<1>5. AnswersInOrder'
  BY <1>1 DEF ServerInv, AnswersInOrder
<1>7. ASSUME NEW e \in Completions, CompletionInv(e) PROVE CompletionInv(e)'
  BY <1>6, <1>7, OtherCompletion DEF Completions
<1>8. ASSUME NEW k \in 1 .. Len(queue') PROVE CompletionInv(queue[k])'
  <2>1. PICK e : e = queue[k + 1]
    OBVIOUS
  <2>2. queue'[k] = e /\ e \in Completions /\ CompletionInv(e)
    BY <1>1, <2>1, QueueShrinks, QueueType DEF ServerInv, ControlInv
  <2> QED
    BY <1>7, <2>2 DEF CompletionInv, Waits, Owes
<1>9. ASSUME NEW u \in Threads PROVE ThreadInv(u)'
  <2>1. CASE u = t
    <3>1. PICK e : e = queue[1]
      OBVIOUS
    <3>2. running'[t] = e /\ e \in Completions /\ CompletionInv(e) /\ step'[t] = "enter"
      BY <1>1, <3>1, QueueShrinks DEF ServerInv, ControlInv
    <3> QED
      BY <1>7, <2>1, <3>2 DEF ThreadInv, CompletionInv, Waits, Owes
  <2>2. CASE u # t
    <3>1. Touches(u) => running[u].sess \in Sessions
      BY DEF Touches, ServerInv, ControlInv, Types, Completions
    <3> QED
      BY <1>1, <1>6, <2>2, <3>1, OtherThread DEF ServerInv
  <2> QED
    BY <2>1, <2>2
<1> QED
  BY <1>1, <1>2, <1>3, <1>4, <1>5, <1>8, <1>9 DEF ServerInv

\* The handler of an accept, a read or a write that goes on to start another
\* operation or ends the session.
LEMMA SessionGoesOnStep ==
    ASSUME ServerInv, NEW t \in Threads,
           StartSession(t) \/ StartWrite(t) \/ ReadNext(t) \/ PartialRead(t)
    PROVE  ServerInv'
<1>1. PICK s \in Sessions : s = running[t].sess
  BY DEF StartSession, StartWrite, ReadNext, PartialRead, Handles, ServerInv, ControlInv,
         Types, Completions
<1>2. PICK o \in {"read", "write", "none"} :
         /\ op' = [op EXCEPT ![s] = o]
         /\ o = "read" => StartSession(t) \/ ReadNext(t)
         /\ o = "write" => StartWrite(t)
  BY <1>1 DEF StartSession, StartWrite, ReadNext, PartialRead, SetOp
<1>3. /\ UNCHANGED <<sock, body, res, queue, net>> /\ Touches(t)
      /\ \/ Return(t) /\ running[t].kind # "accept"
         \/ GoOn(t, "rearm") /\ running[t].kind = "accept" /\ step[t] = "enter"
  BY DEF StartSession, StartWrite, ReadNext, PartialRead, Handles, Touches, ServerInv,
         ControlInv, Types
<1>4. ControlInv'
  <2>1. HandlerInv' /\ AcceptInv'
    BY <1>1, <1>2, <1>3, HandlerEnds DEF Operations, ServerInv
  <2> QED
    BY <2>1, WorkTypes DEF ControlInv, ServerInv, Work
<1>5. /\ UNCHANGED <<conn, in, out, sent>>
      /\ \A r \in Sessions : op'[r] = IF r = s THEN o ELSE op[r]
  BY <1>2, <1>3 DEF net, ServerInv, ControlInv, Types
<1>6. \A r \in Sessions : Unmoved(r)
  BY <1>3, <1>5 DEF Unmoved
<1>7. SessionInv(s)'
  <2>1. CASE o = "read"
    <3>1. Waits(s)
      BY <1>1, <1>2, <2>1 DEF StartSession, ReadNext, Handles, ServerInv, ThreadInv,
                             CompletionInv
    <3> QED
      BY <1>5, <1>6, <2>1, <3>1, UnmovedStays DEF SessionInv
  <2>2. CASE o = "write"
    <3>1. body[s] = <<>> /\ Owes(s, res[s])
      BY <1>1, <1>2, <2>2 DEF StartWrite, ServerInv, ThreadInv
    <3> QED
      BY <1>3, <1>5, <1>6, <2>2, <3>1, UnmovedStays DEF SessionInv
  <2>3. CASE o = "none"
    BY <1>5, <2>3 DEF SessionInv
  <2> QED
    BY <2>1, <2>2, <2>3
<1>8. /\ step'[t] \in {"idle", "rearm"}
      /\ \A u \in Threads \ {t} : step'[u] = step[u] /\ running'[u] = running[u]
  BY <1>3 DEF Return, GoOn, ServerInv, ControlInv, Types
<1>9. ThreadInv(t)'
  BY <1>8 DEF ThreadInv
<1>10. SocketOnly(s) /\ queue' = queue
  BY <1>3, NetIsKept
<1> QED
  BY <1>1, <1>3, <1>4, <1>5, <1>6, <1>7, <1>8, <1>9, <1>10, ThreadStep

LEMMA SessionEndsStep ==
    ASSUME ServerInv, NEW t \in Threads, DropSession(t) \/ Disconnect(t)
    PROVE  ServerInv'
<1>1. PICK s \in Sessions : s = running[t].sess
  BY DEF DropSession, Disconnect, Handles, ServerInv, ControlInv, Types, Completions
<1>2. /\ op' = [op EXCEPT ![s] = "free"]
      /\ sock' = [sock EXCEPT ![s] = NoConn]
      /\ body' = [body EXCEPT ![s] = <<>>]
      /\ res' = [res EXCEPT ![s] = <<>>]
      /\ queue' = queue /\ Touches(t)
      /\ \/ Return(t) /\ running[t].kind # "accept"
         \/ GoOn(t, "rearm") /\ running[t].kind = "accept" /\ step[t] = "enter"
  BY <1>1 DEF DropSession, Disconnect, Delete, SetOp, Handles, Touches
<1>3. ControlInv'
  <2>1. HandlerInv' /\ AcceptInv'
    BY <1>1, <1>2, HandlerEnds DEF Operations, ServerInv
  <2> QED
    BY <2>1, WorkTypes DEF ControlInv, ServerInv, Work
<1>4. /\ \A r \in Sessions \ {s} : /\ op'[r] = op[r] /\ sock'[r] = sock[r]
                                   /\ body'[r] = body[r] /\ res'[r] = res[r]
      /\ op'[s] = "free" /\ sock'[s] = NoConn /\ body'[s] = <<>>
  BY <1>2 DEF ServerInv, ControlInv, Types
<1>9. SocketOnly(s)
  BY <1>1, NetIsKept, SocketCloses DEF DropSession, ServerInv, ControlInv
<1>5. ASSUME NEW r \in Sessions \ {s} PROVE Unmoved(r)
  <2>1. sock[r] \in Conns => sock[r] # sock[s]
    BY NoConnAssumption DEF ServerInv
  <2> QED
    BY <1>4, <1>9, <2>1 DEF Unmoved, SocketOnly
<1>6. SessionInv(s)'
  BY <1>4 DEF SessionInv
<1>7. /\ step'[t] \in {"idle", "rearm"}
      /\ \A u \in Threads \ {t} : step'[u] = step[u] /\ running'[u] = running[u]
  BY <1>2 DEF Return, GoOn, ServerInv, ControlInv, Types
<1>8. ThreadInv(t)'
  BY <1>7 DEF ThreadInv
<1> QED
  BY <1>1, <1>2, <1>3, <1>4, <1>5, <1>6, <1>7, <1>8, <1>9, ThreadStep

\* The response has the body of the request, and the next one starts from none.
LEMMA CreateResponseStep ==
    ASSUME ServerInv, NEW t \in Threads, CreateResponse(t)
    PROVE  ServerInv'
<1>1. PICK s \in Sessions : s = running[t].sess
  BY DEF CreateResponse, Handles, ServerInv, ControlInv, Types, Completions
<1>2. /\ Handles(t, "read", {"ok"}) /\ GoOn(t, "respond")
      /\ res' = [res EXCEPT ![s] = body[s]]
      /\ body' = [body EXCEPT ![s] = <<>>]
      /\ UNCHANGED <<op, sock, queue, net>> /\ Touches(t)
  BY <1>1 DEF CreateResponse, Handles, Touches
<1>3. ControlInv'
  <2>1. HandlerInv' /\ AcceptInv'
    BY <1>2, HandlerGoesOn DEF ServerInv
  <2> QED
    BY <2>1, WorkTypes DEF ControlInv, ServerInv, Work
<1>4. /\ UNCHANGED <<conn, in, out, sent>>
      /\ \A r \in Sessions \ {s} : body'[r] = body[r] /\ res'[r] = res[r]
      /\ body'[s] = <<>> /\ res'[s] = body[s] /\ sock'[s] = sock[s]
  BY <1>2 DEF net, ServerInv, ControlInv, Types
<1>5. \A r \in Sessions \ {s} : Unmoved(r)
  BY <1>2, <1>4 DEF Unmoved
<1>6. op[s] = "ready" /\ op'[s] = "ready"
  BY <1>1, <1>2 DEF ServerInv, ControlInv, HandlerInv
<1>7. SessionInv(s)'
  BY <1>6 DEF SessionInv
<1>8. /\ step'[t] = "respond" /\ running'[t] = running[t]
      /\ \A u \in Threads \ {t} : step'[u] = step[u] /\ running'[u] = running[u]
  BY <1>2 DEF GoOn, ServerInv, ControlInv, Types
<1>9. Owes(s, body[s])
  BY <1>1, <1>2 DEF Handles, ServerInv, ThreadInv, CompletionInv
<1>10. Owes(s, res[s])'
  BY <1>4, <1>9 DEF Owes, Read
<1>11. ThreadInv(t)'
  BY <1>1, <1>4, <1>8, <1>10 DEF ThreadInv, Owes
<1>12. SocketOnly(s) /\ queue' = queue
  BY <1>2, NetIsKept
<1> QED
  BY <1>1, <1>2, <1>3, <1>4, <1>5, <1>7, <1>8, <1>11, <1>12, ThreadStep

LEMMA StartAcceptStep ==
    ASSUME ServerInv, NEW t \in Threads, StartAccept(t)
    PROVE  ServerInv'
<1>1. PICK s \in Sessions : op[s] = "free" /\ op' = [op EXCEPT ![s] = "accept"]
  BY DEF StartAccept, SetOp
<1>2. UNCHANGED <<sock, body, res, queue, conn, in, out, sent>>
  BY DEF StartAccept, net
<1>3. ControlInv'
  BY AcceptStarts, WorkTypes DEF ServerInv, ControlInv, Work
<1>4. \A r \in Sessions : op'[r] = IF r = s THEN "accept" ELSE op[r]
  BY <1>1 DEF ServerInv, ControlInv, Types
<1>5. \A r \in Sessions : Unmoved(r)
  BY <1>2 DEF Unmoved
<1>6. SessionInv(s)'
  BY <1>1, <1>2, <1>4 DEF ServerInv, SessionInv
<1>7. /\ \A k \in 1 .. Len(queue) : queue[k].sess # s
      /\ \A u \in Threads : Touches(u) => running[u].sess # s
  BY <1>1 DEF ServerInv, ControlInv, HandlerInv
<1>8. /\ step'[t] = "idle"
      /\ \A u \in Threads \ {t} : step'[u] = step[u] /\ running'[u] = running[u]
  BY DEF StartAccept, Return, ServerInv, ControlInv, Types
<1>9. ThreadInv(t)'
  BY <1>8 DEF ThreadInv
<1>10. \A c \in Conns : ConnInv(c)'
  BY <1>2 DEF ServerInv, ConnInv
<1>11. AnswersInOrder'
  BY <1>2 DEF ServerInv, AnswersInOrder
<1>12. \A k \in 1 .. Len(queue') : queue'[k] = queue[k] /\ k \in 1 .. Len(queue)
  BY <1>2
<1> QED
  BY <1>2, <1>3, <1>4, <1>5, <1>6, <1>7, <1>8, <1>9, <1>10, <1>11, <1>12, OneSession

\* A new process knows no session; connections that were open are not any more.
LEMMA RestartStep ==
    ASSUME ServerInv, NEW t \in Threads, HandlerThrows(t)
    PROVE  ServerInv'
<1>1. ControlInv'
  BY ControlRestarts, WorkTypes DEF ServerInv, ControlInv
<1>2. /\ Len(queue)' = 0 /\ \A u \in Threads : step'[u] = "idle"
      /\ \A s \in Sessions : op'[s] \in {"free", "accept"} /\ sock'[s] = NoConn
                             /\ body'[s] = <<>>
      /\ \A c \in Conns : /\ in'[c] = <<>> /\ out'[c] = out[c] /\ sent'[c] = sent[c]
                          /\ conn'[c] \in {"new", "syn"} => conn[c] \in {"new", "syn"}
  BY EmptySeq DEF HandlerThrows
<1>3. \A c \in Conns : ConnInv(c)'
  BY <1>2, NoConnAssumption DEF ServerInv, ConnInv
<1>4. AnswersInOrder'
  <2>1. out' = out
    BY DEF HandlerThrows
  <2> QED
    BY <2>1 DEF ServerInv, AnswersInOrder
<1>5. \A s \in Sessions : SessionInv(s)'
  BY <1>2 DEF SessionInv
<1>6. \A u \in Threads : ThreadInv(u)'
  BY <1>2 DEF ThreadInv
<1> QED
  BY <1>1, <1>2, <1>3, <1>4, <1>5, <1>6 DEF ServerInv
-----------------------------------------------------------------------------
(* Clients, and the theorems.                                              *)

\* A step of a client moves requests, and the sessions do not notice.
LEMMA ClientMoves ==
    ASSUME ServerInv, Types',
           UNCHANGED <<op, sock, body, res, queue, running, step, out>>,
           \A d \in Conns, n \in Nat : Read(d, n) => Read(d, n)',
           \A d \in Conns : ConnInv(d)'
    PROVE  ServerInv'
<1>1. \A d \in Conns : Len(out[d]) \in Nat
  BY LenProperties DEF ServerInv, ControlInv, Types
<1>2. \A s \in Sessions : Waits(s) => Waits(s)'
  BY <1>1 DEF Waits
<1>3. \A s, b : Owes(s, b) => Owes(s, b)'
  <2> SUFFICES ASSUME NEW s, NEW b, Owes(s, b) PROVE Owes(s, b)'
    OBVIOUS
  <2>1. PICK c : c = sock[s]
    OBVIOUS
  <2>2. PICK n \in Nat : n = Len(out[c]) + 1
    BY <1>1, <2>1 DEF Owes
  <2>3. c \in Conns /\ b = <<[conn |-> c, n |-> n]>> /\ Read(c, n)
    BY <2>1, <2>2 DEF Owes
  <2>4. Read(c, n)'
    BY <2>3
  <2> QED
    BY <2>1, <2>2, <2>3, <2>4 DEF Owes
<1>4. \A e \in Completions : CompletionInv(e) => CompletionInv(e)'
  <2> SUFFICES ASSUME NEW e \in Completions, CompletionInv(e) PROVE CompletionInv(e)'
    OBVIOUS
  <2>1. e.sess \in Sessions
    BY DEF Completions
  <2>2. PICK s \in Sessions : s = e.sess
    BY <2>1
  <2>3. PICK b : b = body[s]
    OBVIOUS
  <2>4. (Waits(s) => Waits(s)') /\ (Owes(s, b) => Owes(s, b)')
    BY <1>2, <1>3
  <2> QED
    BY <2>2, <2>3, <2>4 DEF CompletionInv, Waits, Owes
<1>5. ControlInv'
  <2>1. HandlerInv'
    BY DEF ServerInv, ControlInv, HandlerInv, Touches
  <2>2. AcceptInv'
    BY DEF ServerInv, ControlInv, AcceptInv, Accepting, AcceptIsQueued, SeesToAccept
  <2> QED
    BY <2>1, <2>2 DEF ControlInv
<1>6. ASSUME NEW s \in Sessions PROVE SessionInv(s)'
  <2>1. PICK b : b = res[s]
    OBVIOUS
  <2>2. Owes(s, b) => Owes(s, b)'
    BY <1>3
  <2> QED
    BY <1>2, <2>1, <2>2 DEF ServerInv, SessionInv, Owes
<1>7. ASSUME NEW k \in 1 .. Len(queue) PROVE CompletionInv(queue[k])'
  <2>1. PICK e \in Completions : e = queue[k]
    BY QueueType DEF ServerInv, ControlInv
  <2>2. CompletionInv(e)'
    BY <1>4, <2>1 DEF ServerInv
  <2> QED
    BY <2>1, <2>2 DEF CompletionInv, Waits, Owes
<1>8. ASSUME NEW t \in Threads PROVE ThreadInv(t)'
  <2>1. CASE step[t] = "enter"
    <3>1. PICK e \in Completions : e = running[t]
      BY <2>1 DEF ServerInv, ControlInv, Types
    <3>2. CompletionInv(e)'
      BY <1>4, <2>1, <3>1 DEF ServerInv, ThreadInv
    <3> QED
      BY <2>1, <3>1, <3>2 DEF ThreadInv, CompletionInv, Waits, Owes
  <2>2. CASE step[t] = "respond"
    <3>1. PICK s : s = running[t].sess
      OBVIOUS
    <3>2. PICK b : b = res[s]
      OBVIOUS
    <3>3. body[s] = <<>> /\ Owes(s, b)
      BY <2>2, <3>1, <3>2 DEF ServerInv, ThreadInv
    <3>4. Owes(s, b)'
      BY <1>3, <3>3
    <3> QED
      BY <2>2, <3>1, <3>2, <3>3, <3>4 DEF ThreadInv, Owes
  <2> QED
    BY <2>1, <2>2 DEF ThreadInv
<1>9. AnswersInOrder'
  BY DEF ServerInv, AnswersInOrder
<1> QED
  BY <1>5, <1>6, <1>7, <1>8, <1>9 DEF ServerInv

LEMMA ClientStep ==
    ASSUME ServerInv, NEW c \in Conns, Client(c)
    PROVE  ServerInv'
<1>1. UNCHANGED <<op, sock, body, res, queue, running, step, out>>
  BY DEF Client, Connect, Send, Close, Abort, sessions, threads
<1>2. Types'
  BY ClientTypes DEF ServerInv, ControlInv
<1>3. /\ in[c] \in Seq(Inputs) /\ Len(in[c]) \in Nat
      /\ sent[c] \in Seq(Messages) /\ Len(sent[c]) \in Nat
  BY LenProperties DEF ServerInv, ControlInv, Types
<1>4. \A d \in Conns \ {c} : conn'[d] = conn[d] /\ in'[d] = in[d] /\ sent'[d] = sent[d]
  BY DEF Client, Connect, Send, Close, Abort, ServerInv, ControlInv, Types
<1>5. conn'[c] \notin {"new", "syn"} \/ Connect(c)
  BY DEF Client, Send, Close, Abort, ServerInv, ControlInv, Types
<1>6. ASSUME NEW n \in Nat, Read(c, n) PROVE Read(c, n)'
  <2>1. CASE Connect(c)
    BY <1>6, <2>1 DEF Connect, Read
  <2>2. CASE Send(c)
    <3>1. PICK type \in Messages :
              /\ sent' = [sent EXCEPT ![c] = Append(@, type)]
              /\ in' = [in EXCEPT ![c] = Append(@, [type |-> type, n |-> Len(sent[c]) + 1])]
      BY <2>2 DEF Send
    <3>2. PICK e : e = [type |-> type, n |-> Len(sent[c]) + 1]
      OBVIOUS
    <3>3. e \in Inputs /\ e.type = type /\ e.n = Len(sent[c]) + 1
      BY <1>3, <3>2 DEF Inputs
    <3>4. /\ conn[c] = "open" /\ conn' = conn
          /\ sent'[c] = Append(sent[c], type) /\ in'[c] = Append(in[c], e)
      BY <2>2, <3>1, <3>2 DEF Send, ServerInv, ControlInv, Types
    <3>5. /\ Len(in'[c]) = Len(in[c]) + 1 /\ in'[c][Len(in[c]) + 1] = e
          /\ \A k \in 1 .. Len(in[c]) : in'[c][k] = in[c][k]
      BY <1>3, <3>3, <3>4
    <3>6. /\ Len(sent'[c]) = Len(sent[c]) + 1 /\ sent'[c][Len(sent[c]) + 1] = type
          /\ \A k \in 1 .. Len(sent[c]) : sent'[c][k] = sent[c][k]
      BY <1>3, <3>4
    <3>7. Len(sent[c]) = n + Len(in[c])
      BY <1>6, <3>4 DEF Read
    <3>8. ASSUME NEW k \in 1 .. Len(in'[c]), in'[c][k].type \in Messages
          PROVE  /\ in'[c][k].n = n + k
                 /\ n + k <= Len(sent'[c]) /\ sent'[c][n + k] = in'[c][k].type
      <4>1. CASE k \in 1 .. Len(in[c])
        <5>1. /\ in[c][k].n = n + k /\ n + k <= Len(sent[c])
              /\ sent[c][n + k] = in[c][k].type
          BY <1>6, <3>5, <3>8, <4>1 DEF Read
        <5>2. n + k \in 1 .. Len(sent[c])
          BY <1>3, <4>1, <5>1
        <5> QED
          BY <1>3, <3>5, <3>6, <4>1, <5>1, <5>2
      <4>2. CASE k = Len(in[c]) + 1
        <5>1. n + k = Len(sent[c]) + 1
          BY <1>3, <3>7, <4>2
        <5>2. in'[c][k] = e
          BY <3>5, <4>2
        <5>3. n + k <= Len(sent'[c]) /\ sent'[c][n + k] = type
          BY <1>3, <3>6, <5>1
        <5> QED
          BY <3>3, <5>1, <5>2, <5>3
      <4> QED
        BY <1>3, <3>5, <4>1, <4>2
    <3>9. Len(sent'[c]) = n + Len(in'[c])
      BY <1>3, <3>5, <3>6, <3>7
    <3> QED
      BY <1>6, <3>4, <3>8, <3>9 DEF Read
  <2>3. CASE Close(c)
    <3>1. PICK type \in {"eof", "torn"} :
              in' = [in EXCEPT ![c] = Append(@, [type |-> type, n |-> 0])]
      BY <2>3 DEF Close
    <3>2. PICK e : e = [type |-> type, n |-> 0]
      OBVIOUS
    <3>3. e \in Inputs /\ e.type \notin Messages
      BY <3>2 DEF Inputs, Messages
    <3>4. conn'[c] = "closed" /\ in'[c] = Append(in[c], e) /\ sent' = sent
      BY <2>3, <3>1, <3>2 DEF Close, ServerInv, ControlInv, Types
    <3>5. /\ Len(in'[c]) = Len(in[c]) + 1 /\ in'[c][Len(in[c]) + 1] = e
          /\ \A k \in 1 .. Len(in[c]) : in'[c][k] = in[c][k]
      BY <1>3, <3>3, <3>4
    <3>6. \A k \in 1 .. Len(in'[c]) : k \in 1 .. Len(in[c]) \/ k = Len(in[c]) + 1
      BY <1>3, <3>5
    <3> QED
      BY <1>6, <3>3, <3>4, <3>5, <3>6 DEF Read
  <2>4. CASE Abort(c)
    <3>1. conn'[c] = "reset" /\ in'[c] = <<>> /\ sent' = sent
      BY <2>4 DEF Abort, ServerInv, ControlInv, Types
    <3>2. Len(in'[c]) = 0
      BY <3>1
    <3> QED
      BY <3>1, <3>2 DEF Read
  <2> QED
    BY <2>1, <2>2, <2>3, <2>4 DEF Client
<1>7. ASSUME NEW d \in Conns, NEW n \in Nat, Read(d, n) PROVE Read(d, n)'
  <2>1. CASE d = c
    BY <1>6, <1>7, <2>1
  <2>2. CASE d # c
    BY <1>4, <1>7, <2>2 DEF Read
  <2> QED
    BY <2>1, <2>2
<1>8. ASSUME NEW d \in Conns PROVE ConnInv(d)'
  <2>1. CASE d # c
    BY <1>1, <1>4, <2>1 DEF ServerInv, ConnInv
  <2>2. CASE d = c
    BY <1>1, <1>5, <2>2 DEF ServerInv, ConnInv, Connect
  <2> QED
    BY <2>1, <2>2
<1> QED
  BY <1>1, <1>2, <1>7, <1>8, ClientMoves

LEMMA ServerInit == Init => ServerInv
<1> SUFFICES ASSUME Init PROVE ServerInv
  OBVIOUS
<1>1. Types
  BY InitTypes
<1>2. /\ Len(queue) = 0 /\ \A t \in Threads : step[t] = "idle"
      /\ \A s \in Sessions : op[s] \in {"free", "accept"} /\ sock[s] = NoConn
                             /\ body[s] = <<>>
      /\ \A c \in Conns : conn[c] = "new" /\ in[c] = <<>> /\ out[c] = <<>> /\ sent[c] = <<>>
  BY DEF Init
<1>3. PICK a \in Sessions : \A s \in Sessions : op[s] = "accept" <=> s = a
  <2> DEFINE A == {s \in Sessions : op[s] = "accept"}
  <2>1. Cardinality(A) = 1
    BY DEF Init
  <2>2. IsFiniteSet(A)
    BY RoomAssumption, FS_Subset
  <2>3. PICK a : A = {a}
    BY <2>1, <2>2, FS_Singleton
  <2> QED
    BY <2>3
<1>4. HandlerInv
  BY <1>2 DEF HandlerInv, Touches
<1>5. AcceptInv
  BY <1>2, <1>3 DEF AcceptInv, Accepting, AcceptIsQueued, SeesToAccept
<1>6. \A c \in Conns : ConnInv(c)
  BY <1>2, NoConnAssumption DEF ConnInv
<1>7. AnswersInOrder
  BY <1>2 DEF AnswersInOrder
<1> QED
  BY <1>1, <1>2, <1>4, <1>5, <1>6, <1>7
  DEF ServerInv, ControlInv, SessionInv, ThreadInv

LEMMA ServerNext ==
    ASSUME ServerInv, [Next]_vars
    PROVE  ServerInv'
<1>1. CASE \E c \in Conns : Client(c)
  BY <1>1, ClientStep
<1>2. ASSUME NEW s \in Sessions, Complete(s) PROVE ServerInv'
  BY <1>2, AcceptCompletesStep, FailStep, ReadCompletesStep, WriteCompletesStep DEF Complete
<1>3. ASSUME NEW t \in Threads, Work(t) PROVE ServerInv'
  BY <1>3, RunStep, SessionGoesOnStep, SessionEndsStep, CreateResponseStep, StartAcceptStep
  DEF Work
<1>4. CASE \E t \in Threads : HandlerThrows(t)
  BY <1>4, RestartStep
<1>5. CASE UNCHANGED vars
  <2>1. UNCHANGED <<op, sock, body, res, queue, running, step, out, conn, in, sent>>
    BY <1>5 DEF vars, sessions, threads, net
  <2>2. \A d \in Conns : ConnInv(d)'
    BY <2>1 DEF ServerInv, ConnInv
  <2>3. \A d \in Conns, n \in Nat : Read(d, n) => Read(d, n)'
    BY <2>1 DEF Read
  <2> QED
    BY <2>1, <2>2, <2>3, TypesNext, ClientMoves
<1> QED
  BY <1>1, <1>2, <1>3, <1>4, <1>5 DEF Next

\* The sessions, their handlers and the accept stay in step, and each session
\* knows its place among the requests of its connection (session.cc:54-118,
\* server.cc:13-32).
THEOREM ServerCorrect == Spec => []ServerInv
<1>1. ServerInv /\ [Next]_vars => ServerInv'
  BY ServerNext
<1> QED
  BY <1>1, ServerInit, PTL DEF Spec

\* Every variable has its type, and a session has a connection exactly while it
\* may need one (session.h, server.cc:13-32).
THEOREM TypeCorrect == Spec => []TypeOK
<1>1. ServerInv => TypeOK
  BY DEF ServerInv, ControlInv, Types, SessionInv, Waits, Owes, TypeOK
<1> QED
  BY <1>1, ServerCorrect, PTL

\* At most one member: the cardinality of a set that is counted in a property.
LEMMA OneAtMost ==
    ASSUME NEW S, \A x, y \in S : x = y
    PROVE  /\ S = {} => Cardinality(S) = 0
           /\ S # {} => Cardinality(S) = 1
<1>1. ASSUME NEW x \in S PROVE Cardinality(S) = 1
  <2>1. S = {x}
    OBVIOUS
  <2> QED
    BY <2>1, FS_Singleton
<1> QED
  BY <1>1, FS_EmptySet

LEMMA HandlersCounted == ServerInv => OneHandlerPerSession
<1> SUFFICES ASSUME ServerInv, NEW s \in Sessions
             PROVE  Cardinality(Queued(s)) + Cardinality(Touching(s))
                        = IF op[s] = "ready" THEN 1 ELSE 0
  BY DEF OneHandlerPerSession
<1>1. HandlerInv
  BY DEF ServerInv, ControlInv
<1>2. PICK Q : Q = Queued(s)
  OBVIOUS
<1>3. PICK T : T = Touching(s)
  OBVIOUS
<1>4. /\ \A k : k \in Q <=> k \in 1 .. Len(queue) /\ queue[k].sess = s
      /\ \A t : t \in T <=> t \in Threads /\ Touches(t) /\ running[t].sess = s
  BY <1>2, <1>3 DEF Queued, Touching, Touches
<1>5. (\A j, k \in Q : j = k) /\ (\A t, u \in T : t = u)
  BY <1>1, <1>4 DEF HandlerInv
<1>6. /\ Q = {} => Cardinality(Q) = 0
      /\ Q # {} => Cardinality(Q) = 1
      /\ T = {} => Cardinality(T) = 0
      /\ T # {} => Cardinality(T) = 1
  BY <1>5, OneAtMost
<1>7. /\ Q = {} \/ T = {}
      /\ op[s] = "ready" <=> Q # {} \/ T # {}
  BY <1>1, <1>4 DEF HandlerInv
<1> QED
  BY <1>2, <1>3, <1>6, <1>7

\* A session has at most one handler, queued or running, and none while the
\* kernel works on it or after it was deleted: no strand is needed
\* (session.cc:61-118).
THEOREM OneHandlerPerSessionTheorem == Spec => []OneHandlerPerSession
  BY ServerCorrect, HandlersCounted, PTL

LEMMA AcceptsCounted == ServerInv => OneAccept
<1> SUFFICES ASSUME AcceptInv PROVE OneAccept
  BY DEF ServerInv, ControlInv
<1>1. PICK A : A = {s \in Sessions : op[s] = "accept"}
  OBVIOUS
<1>2. PICK Q : Q = {k \in 1 .. Len(queue) : queue[k].kind = "accept"}
  OBVIOUS
<1>3. PICK T : T = {t \in Threads : step[t] \in {"enter", "rearm"}
                                    /\ running[t].kind = "accept"}
  OBVIOUS
<1>4. /\ \A s : s \in A <=> s \in Sessions /\ Accepting(s)
      /\ \A k : k \in Q <=> k \in 1 .. Len(queue) /\ AcceptIsQueued(k)
      /\ \A t : t \in T <=> t \in Threads /\ SeesToAccept(t)
  BY <1>1, <1>2, <1>3 DEF Accepting, AcceptIsQueued, SeesToAccept
<1>5. (\A r, s \in A : r = s) /\ (\A j, k \in Q : j = k) /\ (\A t, u \in T : t = u)
  BY <1>4 DEF AcceptInv
<1>6. /\ A = {} => Cardinality(A) = 0
      /\ A # {} => Cardinality(A) = 1
      /\ Q = {} => Cardinality(Q) = 0
      /\ Q # {} => Cardinality(Q) = 1
      /\ T = {} => Cardinality(T) = 0
      /\ T # {} => Cardinality(T) = 1
  BY <1>5, OneAtMost
<1>7. /\ A = {} \/ Q = {}
      /\ A = {} \/ T = {}
      /\ Q = {} \/ T = {}
      /\ A # {} \/ Q # {} \/ T # {}
  BY <1>4 DEF AcceptInv
<1> QED
  BY <1>1, <1>2, <1>3, <1>6, <1>7 DEF OneAccept

\* The server waits for the next connection, or a thread is about to see to it,
\* also after accepts that failed and after a restart: never two accepts and
\* never none (server.cc:13-32).
THEOREM OneAcceptTheorem == Spec => []OneAccept
  BY ServerCorrect, AcceptsCounted, PTL

\* The responses on a connection are those to its requests, in their order,
\* with whatever requests were sent ahead and whichever threads handled them
\* (session.cc:54-55, 68-78).
THEOREM AnswersInOrderTheorem == Spec => []AnswersInOrder
<1>1. ServerInv => AnswersInOrder
  BY DEF ServerInv
<1> QED
  BY <1>1, ServerCorrect, PTL
-----------------------------------------------------------------------------
(* Connections that end.                                                   *)

\* The client of session s has gone, or has closed the connection.
Gone(s) == sock[s] \in Conns /\ conn[sock[s]] \in {"closed", "reset"}
Closed(s) == sock[s] \in Conns /\ conn[sock[s]] = "closed"

\* All that came before a malformed message of connection c is answered.
MalformedNext(c) ==
    LET n == Len(out[c]) + 1
    IN  n <= Len(sent[c]) /\ sent[c][n] = "malformed"

Refused(s) == sock[s] \in Conns /\ MalformedNext(sock[s])

\* What a failure e says of its session.
FailureInv(e) ==
    /\ e.kind = "accept" /\ e.error # "ok" => sock[e.sess] = NoConn
    /\ e.kind \in {"read", "write"} /\ e.error # "ok" => Gone(e.sess) \/ Refused(e.sess)
    /\ e.kind = "read" /\ e.error = "partial" => Closed(e.sess)

\* The end of a stream is the client's doing, and a session that is let go had
\* no client any more or one that sent what nobody can read.
EndInv ==
    /\ \A c \in Conns : \A k \in 1 .. Len(in[c]) :
           in[c][k].type \notin Messages => conn[c] = "closed"
    /\ \A s \in Sessions : op[s] = "none" => Closed(s)
    /\ \A k \in 1 .. Len(queue) : FailureInv(queue[k])
    /\ \A t \in Threads : step[t] = "enter" => FailureInv(running[t])
    /\ \A c \in Conns : conn[c] = "open" => \E s \in Sessions : sock[s] = c
    /\ \A c \in Conns : conn[c] = "dropped" =>
           MalformedNext(c) /\ \A s \in Sessions : sock[s] # c

Stable == \A c \in Conns : conn[c] \in {"closed", "reset"} => conn'[c] = conn[c]

LEMMA FailureStays ==
    ASSUME NEW e, FailureInv(e), Stable, sock'[e.sess] = sock[e.sess],
           Refused(e.sess) => Refused(e.sess)'
    PROVE  FailureInv(e)'
<1> DEFINE s == e.sess
<1>1. (Gone(s) => Gone(s)') /\ (Closed(s) => Closed(s)') /\ (Refused(s) => Refused(s)')
  BY DEF Gone, Closed, Stable
<1> QED
  BY <1>1 DEF FailureInv

\* Session s is let go, and its client has no open connection any more.
LetsGo(s) ==
    /\ sock'[s] = NoConn
    /\ sock[s] # NoConn => /\ Gone(s) \/ Refused(s)
                           /\ conn'[sock[s]] # "open"

\* A handler that keeps to session s, which no other handler is about.
LEMMA HandlerKeeps ==
    ASSUME ServerInv, EndInv, NEW t \in Threads, NEW s \in Sessions,
           queue' = queue, SocketOnly(s),
           \A k \in 1 .. Len(queue) : queue[k].sess # s,
           \A u \in Threads \ {t} : /\ step'[u] = step[u] /\ running'[u] = running[u]
                                    /\ Touches(u) => running[u].sess # s,
           step'[t] # "enter",
           \A r \in Sessions \ {s} : op'[r] = op[r] /\ sock'[r] = sock[r],
           op'[s] = "none" => Closed(s) /\ sock'[s] = sock[s],
           sock'[s] = sock[s] \/ LetsGo(s)
    PROVE  EndInv'
<1>1. /\ Stable
      /\ \A c : MalformedNext(c)' <=> MalformedNext(c)
      /\ \A r \in Sessions \ {s} : Refused(r) => Refused(r)'
  BY DEF SocketOnly, Stable, MalformedNext, Refused
<1>2. ASSUME NEW c \in Conns, NEW k \in 1 .. Len(in[c])', in'[c][k].type \notin Messages
      PROVE  conn'[c] = "closed"
  <2>1. in'[c] # <<>>
    BY EmptySeq
  <2> QED
    BY <1>2, <2>1 DEF EndInv, SocketOnly
<1>3. ASSUME NEW r \in Sessions, op'[r] = "none" PROVE Closed(r)'
  BY <1>1, <1>3 DEF EndInv, Closed, Stable
<1>4. ASSUME NEW k \in 1 .. Len(queue)' PROVE FailureInv(queue[k])'
  <2>1. PICK e : e = queue[k]
    OBVIOUS
  <2>2. FailureInv(e) /\ e.sess \in Sessions \ {s} /\ queue'[k] = e
    BY <1>1, <2>1, QueueType DEF EndInv, ServerInv, ControlInv, Completions
  <2>3. FailureInv(e)'
    BY <1>1, <2>2, FailureStays
  <2> QED
    BY <2>2, <2>3 DEF FailureInv, Gone, Closed, Refused, MalformedNext
<1>5. ASSUME NEW u \in Threads, step'[u] = "enter" PROVE FailureInv(running[u])'
  <2>1. PICK e : e = running[u]
    OBVIOUS
  <2>2. u # t /\ step[u] = "enter" /\ running'[u] = e
    BY <1>5, <2>1
  <2>3. FailureInv(e) /\ e.sess \in Sessions \ {s}
    BY <2>1, <2>2 DEF EndInv, Touches, ServerInv, ControlInv, Types, Completions
  <2>4. FailureInv(e)'
    BY <1>1, <2>3, FailureStays
  <2> QED
    BY <2>2, <2>4 DEF FailureInv, Gone, Closed, Refused, MalformedNext
<1>6. ASSUME NEW c \in Conns, conn'[c] = "open" PROVE \E r \in Sessions : sock'[r] = c
  <2>1. PICK r \in Sessions : sock[r] = c
    BY <1>6 DEF EndInv, SocketOnly
  <2>2. r # s \/ sock'[s] = sock[s]
    BY <1>6, <2>1, NoConnAssumption DEF LetsGo
  <2> QED
    BY <2>1, <2>2
<1>7. ASSUME NEW c \in Conns, conn'[c] = "dropped"
      PROVE  MalformedNext(c)' /\ \A r \in Sessions : sock'[r] # c
  <2>1. CASE conn[c] = "dropped"
    <3>1. MalformedNext(c) /\ \A r \in Sessions : sock[r] # c
      BY <2>1 DEF EndInv
    <3> QED
      BY <1>1, <3>1, NoConnAssumption DEF LetsGo
  <2>2. CASE conn[c] # "dropped"
    <3>1. c = sock[s] /\ sock'[s] = NoConn /\ conn[c] = "open"
      BY <1>7, <2>2 DEF SocketOnly
    <3>2. MalformedNext(c)
      BY <3>1, NoConnAssumption DEF LetsGo, Gone, Refused
    <3>3. \A r \in Sessions \ {s} : sock[r] # c
      BY <3>1, OwnConnection
    <3> QED
      BY <1>1, <3>1, <3>2, <3>3, NoConnAssumption
  <2> QED
    BY <2>1, <2>2
<1> QED
  BY <1>2, <1>3, <1>4, <1>5, <1>6, <1>7 DEF EndInv

\* The same for a handler of session s.
LEMMA HandlerLeaves ==
    ASSUME ServerInv, EndInv, NEW t \in Threads, Touches(t), NEW s, s = running[t].sess,
           queue' = queue, SocketOnly(s),
           \A u \in Threads \ {t} : step'[u] = step[u] /\ running'[u] = running[u],
           step'[t] # "enter",
           \A r \in Sessions \ {s} : op'[r] = op[r] /\ sock'[r] = sock[r],
           op'[s] = "none" => Closed(s) /\ sock'[s] = sock[s],
           sock'[s] = sock[s] \/ LetsGo(s)
    PROVE  EndInv'
<1>1. s \in Sessions
  BY DEF Touches, ServerInv, ControlInv, Types, Completions
<1>2. /\ \A k \in 1 .. Len(queue) : queue[k].sess # s
      /\ \A u \in Threads \ {t} : Touches(u) => running[u].sess # s
  BY DEF ServerInv, ControlInv, HandlerInv
<1> QED
  BY <1>1, <1>2, HandlerKeeps

LEMMA EndOfThread ==
    ASSUME ServerInv, EndInv, NEW t \in Threads, Work(t), ~ Run(t)
    PROVE  EndInv'
<1>1. PICK s : s = running[t].sess
  OBVIOUS
<1>2. CASE StartAccept(t)
  <2>1. PICK r \in Sessions : op[r] = "free" /\ op' = [op EXCEPT ![r] = "accept"]
    BY <1>2 DEF StartAccept, SetOp
  <2>2. /\ \A k \in 1 .. Len(queue) : queue[k].sess # r
        /\ \A u \in Threads : Touches(u) => running[u].sess # r
    BY <2>1 DEF ServerInv, ControlInv, HandlerInv
  <2>3. /\ UNCHANGED <<sock, queue, net>> /\ step'[t] # "enter"
        /\ \A u \in Threads \ {t} : step'[u] = step[u] /\ running'[u] = running[u]
        /\ \A q \in Sessions : op'[q] = IF q = r THEN "accept" ELSE op[q]
    BY <1>2, <2>1 DEF StartAccept, Return, ServerInv, ControlInv, Types
  <2>4. SocketOnly(r) /\ queue' = queue
    BY <2>3, NetIsKept
  <2> QED
    BY <2>1, <2>2, <2>3, <2>4, HandlerKeeps
<1>3. ASSUME ~ StartAccept(t)
      PROVE  /\ Touches(t) /\ queue' = queue /\ SocketOnly(s) /\ step'[t] # "enter"
             /\ \A u \in Threads \ {t} : step'[u] = step[u] /\ running'[u] = running[u]
             /\ s \in Sessions
  <2>1. Touches(t) /\ queue' = queue
    BY <1>3 DEF Work, StartSession, DropSession, CreateResponse, StartWrite, PartialRead,
                Disconnect, ReadNext, Handles, Touches
  <2>3. SocketOnly(s)
    <3>1. CASE Disconnect(t)
      BY <1>1, <3>1, SocketCloses DEF ServerInv, ControlInv
    <3>2. CASE ~ Disconnect(t)
      <4>1. UNCHANGED net
        BY <1>3, <3>2 DEF Work, StartSession, DropSession, CreateResponse, StartWrite,
                          PartialRead, ReadNext
      <4> QED
        BY <4>1, NetIsKept
    <3> QED
      BY <3>1, <3>2
  <2>2. Return(t) \/ GoOn(t, "rearm") \/ GoOn(t, "respond")
    BY <1>3 DEF Work, StartSession, DropSession, CreateResponse, StartWrite, PartialRead,
                Disconnect, ReadNext
  <2> QED
    BY <1>1, <2>1, <2>2, <2>3
    DEF Return, GoOn, Touches, ServerInv, ControlInv, Types, Completions
<1>4. CASE StartSession(t) \/ CreateResponse(t) \/ StartWrite(t) \/ ReadNext(t)
  <2>1. ~ StartAccept(t)
    BY <1>4 DEF StartSession, CreateResponse, StartWrite, ReadNext, StartAccept, Handles
  <2>2. op[s] = "ready"
    BY <1>1, <1>3, <2>1 DEF ServerInv, ControlInv, HandlerInv
  <2>3. PICK o \in {"ready", "read", "write"} : op' = [op EXCEPT ![s] = o] /\ sock' = sock
    BY <1>1, <1>4, <2>2 DEF StartSession, CreateResponse, StartWrite, ReadNext, SetOp,
                            ServerInv, ControlInv, Types
  <2>4. \A r \in Sessions : op'[r] = IF r = s THEN o ELSE op[r]
    BY <2>3 DEF ServerInv, ControlInv, Types
  <2> QED
    BY <1>1, <1>3, <2>1, <2>3, <2>4, HandlerLeaves
<1>5. CASE PartialRead(t)
  <2>1. ~ StartAccept(t)
    BY <1>5 DEF PartialRead, StartAccept, Handles
  <2>2. Closed(s)
    BY <1>1, <1>5 DEF PartialRead, Handles, EndInv, FailureInv
  <2>3. /\ sock' = sock
        /\ \A r \in Sessions \ {s} : op'[r] = op[r]
    BY <1>1, <1>5 DEF PartialRead, SetOp, ServerInv, ControlInv, Types
  <2> QED
    BY <1>1, <1>3, <2>1, <2>2, <2>3, HandlerLeaves
<1>6. CASE DropSession(t) \/ Disconnect(t)
  <2>1. ~ StartAccept(t)
    BY <1>6 DEF DropSession, Disconnect, StartAccept, Handles
  <2>2. sock[s] = NoConn \/ (Disconnect(t) /\ (Gone(s) \/ Refused(s)))
    BY <1>1, <1>6 DEF DropSession, Disconnect, Handles, EndInv, FailureInv
  <2>3. /\ op' = [op EXCEPT ![s] = "free"] /\ sock' = [sock EXCEPT ![s] = NoConn]
    BY <1>1, <1>6 DEF DropSession, Disconnect, Delete, SetOp
  <2>4. /\ op'[s] = "free" /\ sock'[s] = NoConn
        /\ \A r \in Sessions \ {s} : op'[r] = op[r] /\ sock'[r] = sock[r]
    BY <1>3, <2>1, <2>3 DEF ServerInv, ControlInv, Types
  <2>5. LetsGo(s)
    BY <1>1, <2>2, <2>4, SocketCloses DEF LetsGo, Gone, Refused, ServerInv, ControlInv
  <2> QED
    BY <1>1, <1>3, <2>1, <2>4, <2>5, HandlerLeaves
<1> QED
  BY <1>2, <1>4, <1>5, <1>6 DEF Work

LEMMA EndOfRun ==
    ASSUME ServerInv, EndInv, NEW t \in Threads, Run(t)
    PROVE  EndInv'
<1>1. /\ UNCHANGED <<op, sock, conn, in, out, sent>>
      /\ \A u \in Threads : /\ running'[u] = IF u = t THEN Head(queue) ELSE running[u]
                            /\ step'[u] = IF u = t THEN "enter" ELSE step[u]
      /\ queue # <<>> /\ queue' = Tail(queue)
  BY DEF Run, sessions, net, ServerInv, ControlInv, Types
<1>2. \A e : FailureInv(e) => FailureInv(e)'
  BY <1>1 DEF FailureInv, Gone, Closed, Refused, MalformedNext
<1>3. ASSUME NEW k \in 1 .. Len(queue)' PROVE FailureInv(queue[k])'
  <2>1. PICK e : e = queue[k + 1]
    OBVIOUS
  <2>2. queue'[k] = e /\ FailureInv(e)
    BY <1>1, <2>1, QueueShrinks DEF ServerInv, ControlInv, EndInv
  <2>3. FailureInv(e)'
    BY <1>2, <2>2
  <2> QED
    BY <2>2, <2>3 DEF FailureInv, Gone, Closed, Refused, MalformedNext
<1>4. ASSUME NEW u \in Threads, step'[u] = "enter" PROVE FailureInv(running[u])'
  <2>1. PICK e : e = running'[u]
    OBVIOUS
  <2>2. FailureInv(e)
    BY <1>1, <1>4, <2>1, QueueShrinks DEF ServerInv, ControlInv, EndInv
  <2>3. FailureInv(e)'
    BY <1>2, <2>2
  <2> QED
    BY <2>1, <2>3 DEF FailureInv, Gone, Closed, Refused, MalformedNext
<1>5. \A s \in Sessions : op'[s] = "none" => Closed(s)'
  BY <1>1 DEF EndInv, Closed
<1>6. \A c : MalformedNext(c)' <=> MalformedNext(c)
  BY <1>1 DEF MalformedNext
<1> QED
  BY <1>1, <1>3, <1>4, <1>5, <1>6 DEF EndInv

\* The client alone ends a stream.
LEMMA EndOfClient ==
    ASSUME ServerInv, EndInv, NEW c \in Conns, Client(c)
    PROVE  EndInv'
<1>1. UNCHANGED <<op, sock, queue, running, step>>
  BY DEF Client, Connect, Send, Close, Abort, sessions, threads
<1>2. \A d \in Conns \ {c} : conn'[d] = conn[d] /\ in'[d] = in[d]
  BY DEF Client, Connect, Send, Close, Abort, ServerInv, ControlInv, Types
<1>3. /\ conn[c] \in {"new", "open"} /\ (conn'[c] = "open" => conn[c] = "open")
      /\ conn'[c] # "dropped"
      /\ conn'[c] = "closed" \/ \A k \in 1 .. Len(in[c])' : in'[c][k].type \in Messages
  <2>1. CASE Connect(c)
    <3>1. conn[c] = "new" /\ conn'[c] = "syn" /\ in' = in
      BY <2>1 DEF Connect, ServerInv, ControlInv, Types
    <3> QED
      BY <3>1 DEF EndInv
  <2>2. CASE Send(c)
    <3>1. PICK e : \E type \in Messages : /\ e = [type |-> type, n |-> Len(sent[c]) + 1]
                                          /\ in' = [in EXCEPT ![c] = Append(@, e)]
      BY <2>2 DEF Send
    <3>2. /\ conn[c] = "open" /\ conn' = conn /\ in'[c] = Append(in[c], e)
          /\ in[c] \in Seq(Inputs)
      BY <2>2, <3>1 DEF Send, ServerInv, ControlInv, Types
    <3>3. e \in Inputs /\ e.type \in Messages
      <4>1. Len(sent[c]) + 1 \in Nat
        BY LenProperties DEF ServerInv, ControlInv, Types
      <4> QED
        BY <3>1, <4>1 DEF Inputs
    <3>4. \A k \in 1 .. Len(in[c])' :
              (k \in 1 .. Len(in[c]) /\ in'[c][k] = in[c][k]) \/ in'[c][k] = e
      BY <3>2, <3>3
    <3>5. \A k \in 1 .. Len(in[c]) : in[c][k].type \in Messages
      BY <3>2 DEF EndInv
    <3> QED
      BY <3>2, <3>3, <3>4, <3>5
  <2>3. CASE Close(c)
    BY <2>3 DEF Close, ServerInv, ControlInv, Types
  <2>4. CASE Abort(c)
    <3>1. conn[c] = "open" /\ conn'[c] = "reset" /\ in'[c] = <<>>
      BY <2>4 DEF Abort, ServerInv, ControlInv, Types
    <3> QED
      BY <3>1
  <2> QED
    BY <2>1, <2>2, <2>3, <2>4 DEF Client
<1>4. Stable
  BY <1>2, <1>3 DEF Stable
<1>10. \A d \in Conns : MalformedNext(d) => MalformedNext(d)'
  <2>1. CASE Send(c)
    <3>1. PICK type \in Messages : sent' = [sent EXCEPT ![c] = Append(@, type)]
      BY <2>1 DEF Send
    <3>2. /\ sent[c] \in Seq(Messages) /\ out[c] \in Seq(Seq(Parts)) /\ out' = out
          /\ sent'[c] = Append(sent[c], type)
          /\ \A d \in Conns \ {c} : sent'[d] = sent[d]
      BY <2>1, <3>1 DEF Send, ServerInv, ControlInv, Types
    <3>3. /\ Len(sent[c]) \in Nat /\ Len(out[c]) \in Nat /\ Len(sent'[c]) = Len(sent[c]) + 1
          /\ \A k \in 1 .. Len(sent[c]) : sent'[c][k] = sent[c][k]
      BY <3>2, LenProperties
    <3>4. MalformedNext(c) => MalformedNext(c)'
      BY <3>2, <3>3 DEF MalformedNext
    <3>5. \A d \in Conns \ {c} : MalformedNext(d) => MalformedNext(d)'
      BY <3>2 DEF MalformedNext
    <3> QED
      BY <3>4, <3>5
  <2>2. CASE ~ Send(c)
    <3>1. UNCHANGED <<out, sent>>
      BY <2>2 DEF Client, Connect, Close, Abort
    <3> QED
      BY <3>1 DEF MalformedNext
  <2> QED
    BY <2>1, <2>2
<1>11. \A s : Refused(s) => Refused(s)'
  <2> SUFFICES ASSUME NEW s, Refused(s) PROVE Refused(s)'
    OBVIOUS
  <2>1. PICK d \in Conns : d = sock[s] /\ MalformedNext(d)
    BY DEF Refused
  <2>2. MalformedNext(d)' /\ sock'[s] = d
    BY <1>1, <1>10, <2>1
  <2> QED
    BY <2>2 DEF Refused, MalformedNext
<1>12. \A e : FailureInv(e) => FailureInv(e)'
  BY <1>1, <1>4, <1>11, FailureStays
<1>13. ASSUME NEW d \in Conns, conn'[d] = "dropped"
       PROVE  MalformedNext(d)' /\ \A s \in Sessions : sock'[s] # d
  <2>1. conn[d] = "dropped"
    BY <1>2, <1>3, <1>13
  <2> QED
    BY <1>1, <1>10, <2>1 DEF EndInv
<1>5. ASSUME NEW d \in Conns, NEW k \in 1 .. Len(in[d])', in'[d][k].type \notin Messages
      PROVE  conn'[d] = "closed"
  <2>1. CASE d = c
    BY <1>3, <1>5, <2>1
  <2>2. CASE d # c
    BY <1>2, <1>5, <2>2 DEF EndInv
  <2> QED
    BY <2>1, <2>2
<1>6. \A s \in Sessions : op'[s] = "none" => Closed(s)'
  BY <1>1, <1>4 DEF EndInv, Closed, Stable
<1>7. ASSUME NEW k \in 1 .. Len(queue)' PROVE FailureInv(queue[k])'
  <2>1. PICK e : e = queue[k]
    OBVIOUS
  <2>2. FailureInv(e)' /\ queue'[k] = e
    BY <1>1, <1>12, <2>1 DEF EndInv
  <2> QED
    BY <2>2 DEF FailureInv, Gone, Closed, Refused, MalformedNext
<1>8. ASSUME NEW u \in Threads, step'[u] = "enter" PROVE FailureInv(running[u])'
  <2>1. PICK e : e = running[u]
    OBVIOUS
  <2>2. FailureInv(e)' /\ running'[u] = e
    BY <1>1, <1>8, <1>12, <2>1 DEF EndInv
  <2> QED
    BY <2>2 DEF FailureInv, Gone, Closed, Refused, MalformedNext
<1>9. \A d \in Conns : conn'[d] = "open" => \E s \in Sessions : sock'[s] = d
  BY <1>1, <1>2, <1>3 DEF EndInv
<1> QED
  BY <1>5, <1>6, <1>7, <1>8, <1>9, <1>13 DEF EndInv

\* What the kernel says of session s, e, is as it says.
LEMMA KernelEnds ==
    ASSUME ServerInv, EndInv, NEW s \in Sessions, Complete(s), NEW error, Ready(s, op[s], error),
           NEW e, e = [sess |-> s, kind |-> op[s], error |-> error], FailureInv(e)', Stable,
           \A r \in Sessions \ {s} : sock'[r] = sock[r] /\ (Refused(r) => Refused(r)'),
           \A c \in Conns : \A k \in 1 .. Len(in[c])' :
               in'[c][k].type \notin Messages => conn'[c] = "closed",
           \A c \in Conns : conn'[c] = "open" => \E r \in Sessions : sock'[r] = c,
           \A c \in Conns : conn'[c] = "dropped" =>
               MalformedNext(c)' /\ \A r \in Sessions : sock'[r] # c
    PROVE  EndInv'
<1>1. op[s] # "ready" /\ op' = [op EXCEPT ![s] = "ready"] /\ UNCHANGED <<running, step>>
  BY CompleteQueues DEF threads
<1>2. \A r \in Sessions : op'[r] = IF r = s THEN "ready" ELSE op[r]
  BY <1>1 DEF ServerInv, ControlInv, Types
<1>3. /\ \A k \in 1 .. Len(queue) : queue[k].sess # s
      /\ \A t \in Threads : Touches(t) => running[t].sess # s
  BY <1>1 DEF ServerInv, ControlInv, HandlerInv
<1>4. queue' = Append(queue, e) /\ Len(queue) \in Nat /\ queue \in Seq(Completions)
  BY QueueType DEF Ready, ServerInv, ControlInv, Types
<1>5. ASSUME NEW r \in Sessions, op'[r] = "none" PROVE Closed(r)'
  BY <1>2, <1>5 DEF EndInv, Closed, Stable
<1>6. ASSUME NEW k \in 1 .. Len(queue)' PROVE FailureInv(queue[k])'
  <2>1. (k \in 1 .. Len(queue) /\ queue'[k] = queue[k]) \/ queue'[k] = e
    BY <1>4
  <2>2. CASE k \in 1 .. Len(queue) /\ queue'[k] = queue[k]
    <3>1. PICK f : f = queue[k]
      OBVIOUS
    <3>2. FailureInv(f) /\ f.sess \in Sessions \ {s}
      BY <1>3, <2>2, <3>1, QueueType DEF EndInv, ServerInv, ControlInv, Completions
    <3>3. FailureInv(f)'
      BY <3>2, FailureStays
    <3> QED
      BY <2>2, <3>1, <3>3 DEF FailureInv, Gone, Closed, Refused, MalformedNext
  <2>3. CASE queue'[k] = e
    BY <2>3 DEF FailureInv, Gone, Closed, Refused, MalformedNext
  <2> QED
    BY <2>1, <2>2, <2>3
<1>7. ASSUME NEW t \in Threads, step'[t] = "enter" PROVE FailureInv(running[t])'
  <2>1. PICK f : f = running[t]
    OBVIOUS
  <2>2. FailureInv(f) /\ f.sess \in Sessions \ {s}
    BY <1>1, <1>3, <1>7, <2>1 DEF EndInv, Touches, ServerInv, ControlInv, Types, Completions
  <2>3. FailureInv(f)'
    BY <2>2, FailureStays
  <2> QED
    BY <1>1, <2>1, <2>3 DEF FailureInv, Gone, Closed, Refused, MalformedNext
<1> QED
  BY <1>5, <1>6, <1>7 DEF EndInv

LEMMA EndOfKernel ==
    ASSUME ServerInv, EndInv, NEW s \in Sessions, Complete(s)
    PROVE  EndInv'
<1>1. CASE AcceptCompletes(s)
  <2>1. PICK c \in Conns : /\ conn[c] = "syn" /\ conn' = [conn EXCEPT ![c] = "open"]
                           /\ sock' = [sock EXCEPT ![s] = c]
    BY <1>1 DEF AcceptCompletes
  <2>2. /\ op[s] = "accept" /\ Ready(s, op[s], "ok") /\ in' = in /\ in[c] = <<>>
        /\ sock[s] = NoConn /\ UNCHANGED <<out, sent>>
    BY <1>1, <2>1 DEF AcceptCompletes, ServerInv, ConnInv, SessionInv
  <2>3. /\ sock'[s] = c /\ conn'[c] = "open"
        /\ \A r \in Sessions \ {s} : sock'[r] = sock[r]
        /\ \A d \in Conns \ {c} : conn'[d] = conn[d]
    BY <2>1 DEF ServerInv, ControlInv, Types
  <2>4. Stable
    BY <2>1, <2>3 DEF Stable
  <2>5. PICK e : e = [sess |-> s, kind |-> op[s], error |-> "ok"]
    OBVIOUS
  <2>6. FailureInv(e)'
    BY <2>5 DEF FailureInv
  <2>7. ASSUME NEW d \in Conns, NEW k \in 1 .. Len(in[d])', in'[d][k].type \notin Messages
        PROVE  conn'[d] = "closed"
    <3>1. d # c
      BY <2>2
    <3> QED
      BY <2>2, <2>3, <2>7, <3>1 DEF EndInv
  <2>8. ASSUME NEW d \in Conns, conn'[d] = "open" PROVE \E r \in Sessions : sock'[r] = d
    <3>1. CASE d = c
      BY <2>3, <3>1
    <3>2. CASE d # c
      <4>1. PICK r \in Sessions : sock[r] = d
        BY <2>3, <2>8, <3>2 DEF EndInv
      <4>2. r # s
        BY <2>2, <4>1, NoConnAssumption
      <4> QED
        BY <2>3, <4>1, <4>2
    <3> QED
      BY <3>1, <3>2
  <2>9. \A r \in Sessions \ {s} : sock'[r] = sock[r] /\ (Refused(r) => Refused(r)')
    BY <2>2, <2>3 DEF Refused, MalformedNext
  <2>10. ASSUME NEW d \in Conns, conn'[d] = "dropped"
         PROVE  MalformedNext(d)' /\ \A r \in Sessions : sock'[r] # d
    <3>1. d # c /\ conn[d] = "dropped"
      BY <2>3, <2>10
    <3> QED
      BY <2>2, <2>3, <3>1 DEF EndInv, MalformedNext
  <2> QED
    BY <2>2, <2>3, <2>4, <2>5, <2>6, <2>7, <2>8, <2>9, <2>10, KernelEnds
<1>2. ASSUME ~ AcceptCompletes(s)
      PROVE  /\ UNCHANGED <<sock, conn>> /\ Stable
             /\ \A r \in Sessions \ {s} : sock'[r] = sock[r] /\ (Refused(r) => Refused(r)')
             /\ \A c \in Conns : conn'[c] = "open" => \E r \in Sessions : sock'[r] = c
             /\ \A c \in Conns : conn'[c] = "dropped" =>
                    MalformedNext(c)' /\ \A r \in Sessions : sock'[r] # c
  <2>1. UNCHANGED <<sock, conn, sent>>
    BY <1>2 DEF Complete, AcceptFails, ReadCompletes, ReadFails, WriteCompletes, WriteFails, net
  <2>2. \A c \in Conns : c # sock[s] => out'[c] = out[c]
    BY <1>2 DEF Complete, AcceptFails, ReadCompletes, ReadFails, WriteCompletes, WriteFails, net,
                ServerInv, ControlInv, Types
  <2>3. \A c \in Conns : c # sock[s] => (MalformedNext(c) => MalformedNext(c)')
    BY <2>1, <2>2 DEF MalformedNext
  <2>4. ASSUME NEW r \in Sessions \ {s}, Refused(r) PROVE Refused(r)'
    <3>1. PICK c \in Conns : c = sock[r] /\ MalformedNext(c)
      BY <2>4 DEF Refused
    <3>2. c # sock[s]
      BY <3>1, NoConnAssumption DEF ServerInv
    <3>3. MalformedNext(c)' /\ sock'[r] = c
      BY <2>1, <2>3, <3>1, <3>2
    <3> QED
      BY <3>3 DEF Refused, MalformedNext
  <2>5. ASSUME NEW c \in Conns, conn'[c] = "dropped"
        PROVE  MalformedNext(c)' /\ \A r \in Sessions : sock'[r] # c
    BY <2>1, <2>3, <2>5 DEF EndInv
  <2> QED
    BY <2>1, <2>4, <2>5 DEF Stable, EndInv
<1>3. CASE AcceptFails(s) \/ ReadFails(s) \/ WriteFails(s)
  <2>1. /\ Ready(s, op[s], "reset") /\ in' = in /\ ~ AcceptCompletes(s)
        /\ UNCHANGED <<sock, conn>>
    BY <1>3 DEF AcceptFails, ReadFails, WriteFails, AcceptCompletes, Ready, net
  <2>2. PICK e : e = [sess |-> s, kind |-> op[s], error |-> "reset"]
    OBVIOUS
  <2>3. /\ op[s] = "accept" => sock[s] = NoConn
        /\ op[s] \in {"read", "write"} => Gone(s)
    BY <1>3 DEF AcceptFails, ReadFails, WriteFails, Gone, ServerInv, SessionInv, Waits, Owes
  <2>4. FailureInv(e)'
    BY <2>1, <2>2, <2>3 DEF FailureInv, Gone
  <2>5. \A c \in Conns : \A k \in 1 .. Len(in[c])' :
            in'[c][k].type \notin Messages => conn'[c] = "closed"
    BY <2>1 DEF EndInv
  <2> QED
    BY <1>2, <2>1, <2>2, <2>4, <2>5, KernelEnds
<1>4. CASE WriteCompletes(s)
  <2>1. Ready(s, op[s], "ok") /\ in' = in /\ ~ AcceptCompletes(s) /\ conn' = conn
    BY <1>4 DEF WriteCompletes, AcceptCompletes
  <2>2. PICK e : e = [sess |-> s, kind |-> op[s], error |-> "ok"]
    OBVIOUS
  <2>3. FailureInv(e)'
    BY <2>2 DEF FailureInv
  <2>4. \A c \in Conns : \A k \in 1 .. Len(in[c])' :
            in'[c][k].type \notin Messages => conn'[c] = "closed"
    BY <2>1 DEF EndInv
  <2> QED
    BY <1>2, <2>1, <2>2, <2>3, <2>4, KernelEnds
<1>5. CASE ReadCompletes(s)
  <2>1. PICK c \in Conns : c = sock[s]
    BY <1>5, InputOfRead
  <2>2. PICK head : head = Head(in[c])
    OBVIOUS
  <2>3. /\ op[s] = "read" /\ in' = [in EXCEPT ![c] = Tail(@)] /\ in[c] # <<>>
        /\ UNCHANGED <<sock, conn>> /\ ~ AcceptCompletes(s)
        /\ head.type \in {"request", "malformed", "eof", "torn"}
    BY <1>5, <2>1, <2>2, InputOfRead DEF ReadCompletes, AcceptCompletes
  <2>4. /\ head = in[c][1] /\ 1 \in 1 .. Len(in[c])
        /\ \A k \in 1 .. Len(Tail(in[c])) :
               Tail(in[c])[k] = in[c][k + 1] /\ k + 1 \in 1 .. Len(in[c])
    BY <2>2, <2>3, HeadOfInput DEF ServerInv, ControlInv
  <2>5. (\A d \in Conns \ {c} : in'[d] = in[d]) /\ in'[c] = Tail(in[c])
    BY <2>3 DEF ServerInv, ControlInv, Types
  <2>6. ASSUME NEW d \in Conns, NEW k \in 1 .. Len(in[d])', in'[d][k].type \notin Messages
        PROVE  conn'[d] = "closed"
    <3>1. CASE d = c
      BY <2>3, <2>4, <2>5, <2>6, <3>1 DEF EndInv
    <3>2. CASE d # c
      BY <2>3, <2>5, <2>6, <3>2 DEF EndInv
    <3> QED
      BY <3>1, <3>2
  <2>7. PICK error \in {"ok", "malformed", "eof", "partial"} :
            /\ Ready(s, op[s], error)
            /\ error = "malformed" => head.type = "malformed"
            /\ error \in {"eof", "partial"} => head.type \notin Messages
    BY <1>5, <2>1, <2>2, <2>3 DEF ReadCompletes, Messages
  <2>8. PICK e : e = [sess |-> s, kind |-> op[s], error |-> error]
    OBVIOUS
  <2>9. error \in {"eof", "partial"} => Closed(s)
    BY <2>1, <2>4, <2>7 DEF EndInv, Closed
  <2>11. error = "malformed" => Refused(s)
    <3>1. Read(c, Len(out[c]))
      BY <2>1, <2>3 DEF ServerInv, SessionInv, Waits
    <3>2. head.type = "malformed" =>
             Len(out[c]) + 1 <= Len(sent[c]) /\ sent[c][Len(out[c]) + 1] = "malformed"
      BY <2>4, <3>1 DEF Read, Messages
    <3> QED
      BY <2>1, <2>7, <3>2 DEF Refused, MalformedNext
  <2>12. Refused(s)' <=> Refused(s)
    BY <1>5, <2>3 DEF ReadCompletes, Refused, MalformedNext
  <2>10. FailureInv(e)'
    BY <2>3, <2>8, <2>9, <2>11, <2>12 DEF FailureInv, Gone, Closed
  <2> QED
    BY <1>2, <2>3, <2>6, <2>7, <2>8, <2>10, KernelEnds
<1> QED
  BY <1>1, <1>3, <1>4, <1>5 DEF Complete

\* After a restart no connection is left.
LEMMA EndOfProcess ==
    ASSUME ServerInv, NEW t \in Threads, HandlerThrows(t)
    PROVE  EndInv'
<1>1. /\ Len(queue)' = 0 /\ \A u \in Threads : step'[u] # "enter"
      /\ \A s \in Sessions : op'[s] # "none"
      /\ \A c \in Conns : in'[c] = <<>> /\ conn'[c] \notin {"open", "dropped"}
  BY DEF HandlerThrows
<1>2. \A c \in Conns : Len(in[c])' = 0
  BY <1>1
<1> QED
  BY <1>1, <1>2 DEF EndInv

LEMMA EndInit == Init => EndInv
<1> SUFFICES ASSUME Init PROVE EndInv
  OBVIOUS
<1>1. /\ Len(queue) = 0 /\ \A u \in Threads : step[u] # "enter"
      /\ \A s \in Sessions : op[s] # "none"
      /\ \A c \in Conns : in[c] = <<>> /\ conn[c] \notin {"open", "dropped"}
  BY DEF Init
<1>2. \A c \in Conns : Len(in[c]) = 0
  BY <1>1
<1> QED
  BY <1>1, <1>2 DEF EndInv

LEMMA EndNext ==
    ASSUME ServerInv, EndInv, [Next]_vars
    PROVE  EndInv'
<1>1. CASE UNCHANGED vars
  <2>1. UNCHANGED <<op, sock, queue, running, step, conn, in, out, sent>>
    BY <1>1 DEF vars, sessions, threads, net
  <2>2. \A c : MalformedNext(c)' <=> MalformedNext(c)
    BY <2>1 DEF MalformedNext
  <2>3. \A s : /\ Closed(s)' <=> Closed(s)
               /\ Gone(s)' <=> Gone(s)
               /\ Refused(s)' <=> Refused(s)
    BY <2>1 DEF Closed, Gone, Refused, MalformedNext
  <2>5. \A k \in 1 .. Len(queue)' : FailureInv(queue[k])'
    BY <2>1, <2>3 DEF EndInv, FailureInv
  <2>6. \A t \in Threads : step'[t] = "enter" => FailureInv(running[t])'
    BY <2>1, <2>3 DEF EndInv, FailureInv
  <2> QED
    BY <2>1, <2>2, <2>3, <2>5, <2>6 DEF EndInv
<1> QED
  BY <1>1, EndOfClient, EndOfKernel, EndOfRun, EndOfThread, EndOfProcess DEF Next

LEMMA ServedWhileOpen == ServerInv /\ EndInv => OpenConnectionsAreServed
<1> SUFFICES ASSUME ServerInv, EndInv PROVE OpenConnectionsAreServed
  OBVIOUS
<1>1. ASSUME NEW c \in Conns, conn[c] = "open"
      PROVE  \E s \in Sessions : sock[s] = c /\ op[s] \in {"read", "write", "ready"}
  <2>1. PICK s \in Sessions : sock[s] = c
    BY <1>1 DEF EndInv
  <2>2. op[s] \in Operations /\ op[s] \notin {"free", "accept"}
    BY <2>1, NoConnAssumption DEF ServerInv, SessionInv, ControlInv, Types
  <2>3. op[s] # "none"
    BY <1>1, <2>1 DEF EndInv, Closed
  <2> QED
    BY <2>1, <2>2, <2>3 DEF Operations
<1> QED
  BY <1>1 DEF OpenConnectionsAreServed, EndInv, Closed

\* What is known of the end of streams and sessions holds of every state.
THEOREM EndsCorrect == Spec => [](ServerInv /\ EndInv)
<1>1. Init => ServerInv /\ EndInv
  BY ServerInit, EndInit
<1>2. ServerInv /\ EndInv /\ [Next]_vars => (ServerInv /\ EndInv)'
  BY ServerNext, EndNext
<1> QED
  BY <1>1, <1>2, PTL DEF Spec

\* With any number of clients, messages that Beast refuses, failing operations
\* and restarts, no open connection is left without a session that works on it,
\* and only a client that closed in the middle of a message leaves a session
\* behind for ever (session.cc:61-117).
THEOREM OpenConnectionsAreServedTheorem == Spec => []OpenConnectionsAreServed
  BY EndsCorrect, ServedWhileOpen, PTL

\* The server closes a connection that its client has open for nothing but a
\* message that Beast refuses, after all that was sent ahead of it is answered
\* (session.cc:61-79, 94-98, 102-112).
THEOREM OnlyMalformedAreDroppedTheorem == Spec => []OnlyMalformedAreDropped
<1>1. EndInv => OnlyMalformedAreDropped
  BY DEF EndInv, MalformedNext, OnlyMalformedAreDropped
<1> QED
  BY <1>1, EndsCorrect, PTL
=============================================================================
