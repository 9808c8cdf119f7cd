----------------------------- MODULE CrudStore -----------------------------
(***************************************************************************)
(* The CRUD API: CRUDRequestHandler and the CRUDStore it writes through.   *)
(*                                                                         *)
(* Every request gets a handler and a store object of its own, on one of   *)
(* the io threads; nothing is locked, so all that requests share is the    *)
(* directory tree below data_path_.  One action is one system call that    *)
(* touches that tree (or one decision of the handler), and the threads     *)
(* interleave between them.                                                *)
(*                                                                         *)
(* The tree is modelled the way POSIX presents it: a directory entry       *)
(* (entity, id) points to an inode, an open file keeps its inode when the  *)
(* entry is removed, and the content belongs to the inode.  A document is  *)
(* a sequence of blocks.                                                   *)
(***************************************************************************)
EXTENDS Integers, Sequences, FiniteSets

CONSTANTS
    Threads,      \* io threads of the server
    Entities,     \* entity names, the directories below data_path_
    BadPath,      \* stands for a target that extract_elements refuses
    Blocks,       \* blocks of document text
    Bodies,       \* JSON documents a client may send
    NotJson,      \* stands for a body that json::parse refuses
    Inodes,       \* files the disk has room for
    NoInode,      \* no directory entry, or no open file
    Nothing,      \* no document is owed to the readers of an inode
    MaxInt,       \* stands for INT_MAX
    RequestIds,   \* ids in request targets; 0 when the target has none
    DiskFaults,   \* may system calls on the tree fail?
    Crashes       \* may the process be killed at any moment?

ASSUME MaxIntAssumption == MaxInt \in Nat \ {0}

\* json::dump never yields an empty text.
ASSUME BodiesAssumption == Bodies \subseteq Seq(Blocks) \ {<<>>}

\* MaxInt + 1 stands for any digit string that std::stoi cannot represent.
ASSUME RequestIdsAssumption == /\ RequestIds \subseteq 0 .. MaxInt + 1
                               /\ 0 \in RequestIds

ASSUME SentinelsAssumption == /\ BadPath \notin Entities
                              /\ NotJson \notin Bodies
                              /\ NoInode \notin Inodes
                              /\ Nothing \notin Bodies

MinInt == - MaxInt - 1
Ids == MinInt .. MaxInt

\* Mutant: an id one past the largest int is kept.
NoWrap(n) == n

\* The value of n in an int, when n is at most one above the range.
Wrap(n) == IF n > MaxInt THEN MinInt ELSE n

Methods == {"GET", "POST", "PUT", "DELETE"}

Requests ==
    [method : {"GET", "DELETE"}, entity : Entities \cup {BadPath},
     id : RequestIds, body : {NotJson}]
    \cup
    [method : {"POST", "PUT"}, entity : Entities \cup {BadPath},
     id : RequestIds, body : Bodies \cup {NotJson}]

\* What req[t] holds between requests.
NoRequest == [method |-> "GET", entity |-> BadPath, id |-> 0, body |-> NotJson]

Steps == {"idle", "list", "lookup", "read", "ensure", "pick", "open", "write",
          "remove", "done", "threw"}

Statuses == {0, 200, 400, 404, 500}

VARIABLES
    pc,         \* pc[t]: the next step of thread t
    req,        \* req[t]: the request thread t is serving
    id,         \* id[t]: the id the operation works on, new_id for a create
    ino,        \* ino[t]: the inode thread t has open
    got,        \* got[t]: the text read so far
    listed,     \* listed[t]: the ids a list request answers with
    status,     \* status[t]: the status of the response, 0 before there is one
    dirs,       \* the entity directories that exist
    link,       \* link[e][k]: the inode of the file e/k
    content,    \* content[i]: the text in inode i
    owed,       \* history: the document inode i must hold, see Owe
    disturbed   \* history: another thread interfered with t, see Disturb

threadVars == <<req, id, ino, got, listed, status>>
disk == <<dirs, link, content, owed>>
vars == <<pc, threadVars, disk, disturbed>>

-----------------------------------------------------------------------------
(* Requests.                                                               *)

IsGet(r) == r.method = "GET"
IsPost(r) == r.method = "POST"
IsPut(r) == r.method = "PUT"
IsDelete(r) == r.method = "DELETE"

\* extract_elements hands the digits to std::stoi, which throws out_of_range.
StoiOverflows(r) == r.entity # BadPath /\ r.id > MaxInt

\* The requests answered 400 before the store is touched.
Malformed(r) ==
    \/ r.entity = BadPath
    \/ /\ r.id <= MaxInt
       /\ \/ IsPost(r) /\ (r.id # 0 \/ r.body = NotJson)
          \/ IsPut(r) /\ (r.id = 0 \/ r.body = NotJson)
          \/ IsDelete(r) /\ r.id = 0

WellFormed(r) == ~ Malformed(r) /\ ~ StoiOverflows(r)

FirstStep(r) ==
    CASE IsGet(r) /\ r.id = 0 -> "list"
      [] IsGet(r) /\ r.id # 0 -> "lookup"
      [] IsPost(r) \/ IsPut(r) -> "ensure"
      [] IsDelete(r) -> "remove"

(* The directory tree.                                                     *)

StoredIds(e) == {k \in Ids : link[e][k] # NoInode}

Linked(i) == \E e \in Entities, k \in Ids : link[e][k] = i

Writers(i) == {t \in Threads : pc[t] = "write" /\ ino[t] = i}

Free(i) == ~ Linked(i) /\ \A t \in Threads : ino[t] # i

Target(t) == link[req[t].entity][id[t]]

Largest(ids) == {m \in ids : \A j \in ids : j <= m}

\* Mutant: a create that counts the files instead of looking at their ids.
CountedIds(ids) == {Wrap(Cardinality(ids) + 1)}

\* The one id create takes when the entity has these ids.
NextIds(ids) ==
    IF ids = {} THEN {1} ELSE {Wrap(m + 1) : m \in Largest(ids)}

\* Mutant: an ofstream that is opened without std::ios::trunc.
KeepOld(c) == c

\* What the opening of an ofstream leaves of a file that holds c.
Truncate(c) == <<>>

\* write(2) at offset 0 of a file that holds c.
Overlay(c, b) == b \o SubSeq(c, Len(b) + 1, Len(c))

\* What an inode must hold once thread t has opened it for writing: its body,
\* unless it shares the inode with another writer.
Owe(t, i) == IF Writers(i) = {} THEN req[t].body ELSE Nothing

\* Opening inode i for writing at the entry (e, k) disturbs the threads that
\* are reading i and the creators that have picked k but not yet opened it.
Disturb(t, i, e, k) ==
    disturbed' = [u \in Threads |->
        \/ disturbed[u]
        \/ u # t /\ pc[u] = "read" /\ ino[u] = i
        \/ /\ u # t /\ pc[u] = "open" /\ IsPost(req[u])
           /\ req[u].entity = e /\ id[u] = k]

Init ==
    /\ pc = [t \in Threads |-> "idle"]
    /\ req = [t \in Threads |-> NoRequest]
    /\ id = [t \in Threads |-> 0]
    /\ ino = [t \in Threads |-> NoInode]
    /\ got = [t \in Threads |-> <<>>]
    /\ listed = [t \in Threads |-> {}]
    /\ status = [t \in Threads |-> 0]
    /\ dirs = {}
    /\ link = [e \in Entities |-> [k \in Ids |-> NoInode]]
    /\ content = [i \in Inodes |-> <<>>]
    /\ owed = [i \in Inodes |-> Nothing]
    /\ disturbed = [t \in Threads |-> FALSE]

-----------------------------------------------------------------------------
(* The handler: from the request to the first system call, or to a reply.  *)

Goto(t, step) == pc' = [pc EXCEPT ![t] = step]

Answer(t, code) == /\ Goto(t, "done")
                   /\ status' = [status EXCEPT ![t] = code]

Refuse(t, r) ==
    /\ pc[t] = "idle"
    /\ Malformed(r)
    /\ req' = [req EXCEPT ![t] = r]
    /\ Answer(t, 400)
    /\ UNCHANGED <<id, ino, got, listed, disk, disturbed>>

\* Nothing catches what std::stoi throws: it leaves the handler, the session
\* and io_context::run, and ends in std::terminate.
StoiThrows(t, r) ==
    /\ pc[t] = "idle"
    /\ StoiOverflows(r)
    /\ req' = [req EXCEPT ![t] = r]
    /\ Goto(t, "threw")
    /\ UNCHANGED <<id, ino, got, listed, status, disk, disturbed>>

Begin(t, r) ==
    /\ pc[t] = "idle"
    /\ WellFormed(r)
    /\ req' = [req EXCEPT ![t] = r]
    /\ id' = [id EXCEPT ![t] = r.id]
    /\ Goto(t, FirstStep(r))
    /\ UNCHANGED <<ino, got, listed, status, disk, disturbed>>

\* The response is handed to the session and the handler is destroyed.
Respond(t) ==
    /\ pc[t] = "done"
    /\ Goto(t, "idle")
    /\ req' = [req EXCEPT ![t] = NoRequest]
    /\ id' = [id EXCEPT ![t] = 0]
    /\ got' = [got EXCEPT ![t] = <<>>]
    /\ listed' = [listed EXCEPT ![t] = {}]
    /\ status' = [status EXCEPT ![t] = 0]
    /\ disturbed' = [disturbed EXCEPT ![t] = FALSE]
    /\ UNCHANGED <<ino, disk>>

-----------------------------------------------------------------------------
(* The store, one system call at a time.                                   *)

\* The content and the debt of an inode nothing refers to any more are gone.
Reclaim(c, o) ==
    /\ content' = [i \in Inodes |-> IF Free(i)' THEN <<>> ELSE c[i]]
    /\ owed' = [i \in Inodes |-> IF Free(i)' THEN Nothing ELSE o[i]]

List(t) ==
    /\ pc[t] = "list"
    /\ listed' = [listed EXCEPT ![t] = StoredIds(req[t].entity)]
    /\ Answer(t, 200)
    /\ UNCHANGED <<req, id, ino, got, disk, disturbed>>

\* exists and the opening of the ifstream: only the second one counts.
Lookup(t) ==
    /\ pc[t] = "lookup"
    /\ Target(t) # NoInode
    /\ ino' = [ino EXCEPT ![t] = Target(t)]
    /\ disturbed' = [disturbed EXCEPT ![t] = \/ Writers(Target(t)) # {}
                                             \/ owed[Target(t)] = Nothing]
    /\ Goto(t, "read")
    /\ UNCHANGED <<req, id, got, listed, status, disk>>

LookupFails(t) ==
    /\ pc[t] = "lookup"
    /\ Target(t) = NoInode \/ DiskFaults
    /\ Answer(t, 404)
    /\ UNCHANGED <<req, id, ino, got, listed, disk, disturbed>>

\* The filebuf reads on from where it is until read(2) returns nothing, so
\* what an earlier read returned and what the file holds now may not match.
ReadMore(t) ==
    /\ pc[t] = "read"
    /\ LET c == content[ino[t]]
       IN  /\ Len(c) > Len(got[t])
           /\ got' = [got EXCEPT ![t] = @ \o SubSeq(c, Len(@) + 1, Len(c))]
    /\ UNCHANGED <<pc, req, id, ino, listed, status, disk, disturbed>>

ReadEnd(t) ==
    /\ pc[t] = "read"
    /\ Len(content[ino[t]]) <= Len(got[t])
    /\ Answer(t, 200)
    /\ ino' = [ino EXCEPT ![t] = NoInode]
    /\ UNCHANGED <<req, id, got, listed, dirs, link, disturbed>>
    /\ Reclaim(content, owed)

EnsureDir(t) ==
    /\ pc[t] = "ensure"
    /\ dirs' = dirs \cup {req[t].entity}
    /\ Goto(t, IF IsPost(req[t]) THEN "pick" ELSE "open")
    /\ UNCHANGED <<threadVars, link, content, owed, disturbed>>

PickId(t) ==
    /\ pc[t] = "pick"
    /\ \E k \in NextIds(StoredIds(req[t].entity)) : id' = [id EXCEPT ![t] = k]
    /\ disturbed' = [disturbed EXCEPT ![t] = FALSE]
    /\ Goto(t, "open")
    /\ UNCHANGED <<req, ino, got, listed, status, disk>>

\* The ofstream: open(2) with O_CREAT and O_TRUNC.
Open(t) ==
    /\ pc[t] = "open"
    /\ \E i \in Inodes :
        /\ IF Target(t) = NoInode THEN Free(i) ELSE i = Target(t)
        /\ link' = [link EXCEPT ![req[t].entity][id[t]] = i]
        /\ content' = [content EXCEPT ![i] = Truncate(@)]
        /\ owed' = [owed EXCEPT ![i] = Owe(t, i)]
        /\ ino' = [ino EXCEPT ![t] = i]
        /\ Disturb(t, i, req[t].entity, id[t])
    /\ Goto(t, "write")
    /\ UNCHANGED <<req, id, got, listed, status, dirs>>

\* is_open is false: create returns -1, update returns false.
OpenFails(t) ==
    /\ pc[t] = "open"
    /\ \/ DiskFaults
       \/ Target(t) = NoInode /\ \A i \in Inodes : ~ Free(i)
    /\ Answer(t, 500)
    /\ UNCHANGED <<req, id, ino, got, listed, disk, disturbed>>

\* The flush of the ofstream, close, and the reply.  The state of the stream
\* is not looked at, so the reply is the same when the flush fails; a create
\* that returns -1 counts as an error, whatever it has stored.
Flush(t, text, debt) ==
    /\ pc[t] = "write"
    /\ Answer(t, IF IsPost(req[t]) /\ id[t] = -1 THEN 500 ELSE 200)
    /\ ino' = [ino EXCEPT ![t] = NoInode]
    /\ UNCHANGED <<req, id, got, listed, dirs, link, disturbed>>
    /\ Reclaim([content EXCEPT ![ino[t]] = Overlay(@, text)],
               [owed EXCEPT ![ino[t]] = debt])

Write(t) == Flush(t, req[t].body, owed[ino[t]])

\* A full or failing disk takes only the first n blocks.
WriteFails(t) ==
    /\ DiskFaults
    /\ pc[t] = "write"
    /\ \E n \in 0 .. Len(req[t].body) - 1 :
        Flush(t, SubSeq(req[t].body, 1, n), Nothing)

Remove(t) ==
    /\ pc[t] = "remove"
    /\ Answer(t, IF Target(t) = NoInode THEN 404 ELSE 200)
    /\ link' = [link EXCEPT ![req[t].entity][id[t]] = NoInode]
    /\ UNCHANGED <<req, id, ino, got, listed, dirs, disturbed>>
    /\ Reclaim(content, owed)

\* exists, create_directories, directory_iterator, remove and filebuf's
\* underflow report an error by throwing, and nothing catches it.
FilesystemThrows(t) ==
    /\ DiskFaults
    /\ pc[t] \in {"list", "lookup", "read", "ensure", "pick", "remove"}
    /\ Goto(t, "threw")
    /\ UNCHANGED <<threadVars, disk, disturbed>>

\* The process ends, by std::terminate or by a signal, and is started again.
Terminate ==
    /\ Crashes \/ \E t \in Threads : pc[t] = "threw"
    /\ pc' = [t \in Threads |-> "idle"]
    /\ req' = [t \in Threads |-> NoRequest]
    /\ id' = [t \in Threads |-> 0]
    /\ ino' = [t \in Threads |-> NoInode]
    /\ got' = [t \in Threads |-> <<>>]
    /\ listed' = [t \in Threads |-> {}]
    /\ status' = [t \in Threads |-> 0]
    /\ disturbed' = [t \in Threads |-> FALSE]
    /\ UNCHANGED <<dirs, link>>
    /\ Reclaim(content, [i \in Inodes |-> IF Writers(i) = {} THEN owed[i]
                                                             ELSE Nothing])

Handle(t) ==
    \E r \in Requests : Refuse(t, r) \/ StoiThrows(t, r) \/ Begin(t, r)

Step(t) ==
    \/ List(t) \/ Lookup(t) \/ LookupFails(t) \/ ReadMore(t) \/ ReadEnd(t)
    \/ EnsureDir(t) \/ PickId(t) \/ Open(t) \/ OpenFails(t)
    \/ Write(t) \/ WriteFails(t) \/ Remove(t) \/ FilesystemThrows(t)
    \/ Respond(t)

Next == Terminate \/ \E t \in Threads : Handle(t) \/ Step(t)

Spec == Init /\ [][Next]_vars

-----------------------------------------------------------------------------
(* Properties.                                                             *)

TypeOK ==
    /\ pc \in [Threads -> Steps]
    /\ req \in [Threads -> Requests]
    /\ id \in [Threads -> Ids]
    /\ ino \in [Threads -> Inodes \cup {NoInode}]
    /\ got \in [Threads -> Seq(Blocks)]
    /\ listed \in [Threads -> SUBSET Ids]
    /\ status \in [Threads -> Statuses]
    /\ dirs \subseteq Entities
    /\ link \in [Entities -> [Ids -> Inodes \cup {NoInode}]]
    /\ content \in [Inodes -> Seq(Blocks)]
    /\ owed \in [Inodes -> Bodies \cup {Nothing}]
    /\ disturbed \in [Threads -> BOOLEAN]

\* An inode has one directory entry: no two entities or ids share a file.
LinkInjective ==
    \A e, f \in Entities, j, k \in Ids :
        link[e][j] = link[f][k] /\ link[e][j] # NoInode => e = f /\ j = k

\* A stored file that nobody is writing holds, to the last block, the document
\* of the request that opened it last (crud_store.cc:32-34, 64-71), unless two
\* requests wrote it at once, the disk failed or the process died meanwhile:
\* a shorter document never keeps the tail of a longer one it replaced.
WholeDocument ==
    \A e \in Entities, k \in Ids :
        LET i == link[e][k]
        IN  i # NoInode /\ Writers(i) = {} /\ owed[i] # Nothing
                => content[i] = owed[i]

\* create takes an id that no file of the entity has (crud_store.cc:20-27),
\* and the id is still free when the file is opened, unless another request
\* opened that very file since the listing, or the largest id was INT_MAX.
CreateStompsOnlyInARace ==
    \A t \in Threads :
        pc[t] = "open" /\ IsPost(req[t]) /\ Target(t) # NoInode
            => disturbed[t] \/ id[t] = MinInt

\* A GET answered 200 carries a complete document that some client sent
\* (crud_store.cc:37-51), unless the file was opened for writing while it was
\* read or was damaged before.
WholeAnswer ==
    \A t \in Threads :
        pc[t] = "done" /\ IsGet(req[t]) /\ req[t].id # 0 /\ status[t] = 200
            => disturbed[t] \/ got[t] \in Bodies

-----------------------------------------------------------------------------
(* What crud_store.h promises and the code does not keep.                  *)

\* "this will never stomp on an old id": a create that is about to open its
\* file opens one that does not exist yet.
NeverStomps ==
    \A t \in Threads :
        pc[t] = "open" /\ IsPost(req[t]) => Target(t) = NoInode
=============================================================================
