# raddish: TLA+ models, checks and proofs

raddish is an HTTP server in C++ (Boost.Asio and Beast) with a JSON CRUD API over
files, a clicker game over an SQLite database, and some small handlers. This
directory holds TLA+ specifications of its core, TLC configurations that check them
on small instances, and TLAPS proofs of what matters most for every value of the
constants. Line numbers refer to the sources as they are in this repository.

## 1. Inventory

| Component | State | Operations | Talks to |
|---|---|---|---|
| Server, sessions, io threads (`server.cc`, `session.cc`, `server_main.cc`) | the pending accept; per session a socket, `buffer_`, `req_`, `res_`; Asio's queue | `start_accept`, `handle_accept`, `start`, `handle_read`, `handle_write`, `create_response` | callbacks from Asio on two threads; calls the dispatcher |
| Request dispatcher and factory (`request_dispatcher.cc`, `request_handler_factory.cc`) | the map of registered handlers, filled before `main`; per request the longest match so far | `dispatch_request`, `is_valid_request`, `register_handler`, `get_factory` | reads the configuration, creates one handler per request |
| CRUD API (`crud_request_handler.cc`, `crud_store.cc`) | the directory tree below `data_path_`, shared by all threads, locked by nobody | create, retrieve, update, del, list | system calls |
| Clicker game (`game_request_handler.cc`) | the database: users, upgrades, sessions; per request `game_data_` | `add_user`, `get_values` (login), `update_values` (save and log out) | SQLite, one connection per query, locks between connections |
| Configuration parser (`config_parser.cc`) | the stack of open blocks, the tree of statements, the resulting maps | `parse_token`, `parse`, `get_server_settings_inner` | at start only |
| Game client (`index.js`, `login.js`) | per page the counts, name and session id, the button shown | create, login, save, `beforeunload`, and the player's game | the game API |
| File, echo, health, not-found, blocking handlers | none | `handle_request` | file system (read only) |
| Logger | log files | – | called by everybody, read by nobody |

What is hard here, and hard to test: two threads run any two handlers at once and
nothing in the handlers is synchronised (`server_main.cc:84`); the CRUD store makes
several system calls per operation; the game checks in one connection what it then
does in another; a handler that throws takes the process with it; a session deletes
itself while Asio may still refer to it. `PROJECT.json` lists these hazards at their
lines with the properties aimed at them.

What makes each component correct:

* sessions: one handler at a time per session without a strand, answers in the order
  of the requests, no open connection without a session, no connection closed under its
  client except for a message that Beast refuses, every request answered, every client
  accepted;
* dispatcher and file handler: the handler of the longest location that the target
  lies below, the file from the root of that location, with the type of its name, or a
  404, and no other end of the process than by a path that cannot be looked up;
* CRUD: documents are stored and returned whole, a create takes a new id, requests
  that do not overlap see an atomic map;
* configuration: the tree is what was read, the settings are what the tree says, no two
  locations differ only in slashes, and the start ends;
* game: progress changes only as a whole and only by the holder of the open session,
  a login answers with what is stored, a session id belongs to one user, every
  request ends, and to its clients a request is a check and an effect;
* game client: no page replaces progress that its last login was not answered (whether
  it loads what it was answered is another matter, section 6), and a session that is
  open can be ended by somebody.

## 2. Modules

| Module | Models | Checked by | Proofs |
|---|---|---|---|
| `CrudStore` | CRUD handler and store, one action per system call | `MCCrud` | `CrudStoreProofs` |
| `KeyValueStore` | the atomic map that `crud_store.h` describes | through `CrudRefinement` | |
| `CrudRefinement` | the mapping from `CrudStore` to `KeyValueStore` | `MCCrud` | `CrudStoreProofs` |
| `GameStore` | game handler and database, one action per query, lock or statement | `MCGame` | `GameStoreProofs`, `GameSessionsProofs` |
| `Game` | the game as its clients are promised it: a check and an effect per request | through `GameRefinement` | |
| `GameRefinement` | the mapping from `GameStore` to `Game` | `MCGame` | `GameRefinementProofs` |
| `GamePages` | the pages of the game, composed with `Game` | `MCPages` | `GamePagesProofs` |
| `HttpServer` | accept loop, sessions, io threads, clients | `MCHttp` | `HttpServerProofs` |
| `Dispatcher` | the loop over the locations, the factory | `MCDispatcher` | `DispatcherProofs` |
| `Handlers` | file, echo, health, not-found and blocking handlers, composed with `Dispatcher` | `MCDispatcher` | `DispatcherProofs` |
| `ConfigParser` | the tokens, the tree and the settings of the configuration | `MCConfig` | `ConfigParserProofs` |

The definitions follow the sources' names where there are any; the map from each
definition to its lines is in `PROJECT.json`. Operators whose comment begins with
"Mutant:" are plausible mistakes. They are not part of any specification: each stands
before the definition it would replace, and for every property of every passing run
`PROJECT.json` names one that makes TLC report the property violated.

### CrudStore

`pc[t]` is the next system call of io thread `t`. The tree is what POSIX shows:
`link[e][k]` is the inode of the file `e/k`, `ino[t]` the file a thread has open,
`content[i]` the text of an inode, which outlives its entry while it is open.

| Action | Code |
|---|---|
| `Refuse`, `StoiThrows`, `Begin` | `handle_request` up to the store; `std::stoi` at `crud_request_handler.cc:136` |
| `List`, `Lookup`, `LookupFails`, `ReadMore`, `ReadEnd`, `Remove` | `list`, `retrieve`, `del` |
| `EnsureDir`, `PickId`, `Open`, `OpenFails`, `Write`, `WriteFails` | `create` and `update` |
| `FilesystemThrows`, `Terminate` | a throwing filesystem call, the end of the process and its restart |
| `Respond` | the answer is handed to the session |

`owed` and `disturbed` are history variables: the document an inode must hold, and
whether another thread got in the way of a reader or a creator. They occur in
properties only and in no guard.

Abstractions: a document is a short sequence of blocks, written by one `write(2)` at
offset 0 and read by one or more `read(2)`, so a reader may see a mixture; a directory
listing is one snapshot; exists and open are one step, since only the open decides;
signed overflow wraps, which is what the build does; a text that JSON's parser takes
and `dump` writes again is one body. Ids below 0 are reachable only through the
overflow. The process end keeps what was written; loss of power is not modelled.

### KeyValueStore, CrudRefinement

`KeyValueStore` is a map with create, retrieve, update, delete, list and failure, each
in one step, with a reply the client takes later. `CrudRefinement` maps a document
being written to the document its writer brings, so the operation takes effect at the
`Open`. The refinement holds for requests one at a time; that it does not hold for two
threads is what `CrudRaceStomps` shows.

### GameStore

`db` is the committed database, `work` what the open transaction sees, `lock[t]` the
lock of the thread's connection: SHARED during a query, RESERVED and EXCLUSIVE around
the INSERT of `add_user`, EXCLUSIVE from `BEGIN` to `COMMIT`. A request is a chain of
queries (`Query`, `Finalize`) with the answers of `GivesUp`, then `InsertUser` or the
statements `GetRadish`, `GetUpgrades`, `AddSession`, `GetSession` or `SetRadish`,
`SetUpgrade`, `DropSession` and `Commit`. There is no busy timeout, so a taken lock is an error
at once (`Busy`). `StatementFails` models an exception past `sqlite3_close`: the
transaction was rolled back by SQLite, or it stays open with its lock (`leaked`).

Abstractions: the salted hash stands for the password; session ids are numbered, each
with 32 characters of which `has_session_id` binds 16; `radish_num` of a handler that
read no row is the value `Garbage`; a row of `upgrades` for `user_id` NULL only sets a
flag; a lock upgrade has no PENDING stage, which two threads cannot tell apart from a
taken lock. Clients name session ids that some client was sent: `known` has them, each
with the login it answered. A save may leave upgrades out (`NotMentioned`), which then
keep what is stored.

### Game, GameRefinement

`Game` has accounts, open sessions and, per request, one step that looks (`Check`) and
one that does (`Create`, `Login`, `LoginWithWrongPassword`, `Update`, or `Refuse`). It
does not hide what clients can see of the code: between the two steps another request
may take effect, so the second of two creates is told that it succeeded, two logins
that overlap get one session id, and a save whose session is gone is answered like one
that counted. `GameRefinement` lets the check take place with the `Finalize` of the
first query and the effect with the INSERT of a user or with `Commit`; every other step
of `GameStore` is a stutter. That this holds with errors and crashes is what
transactions are for.

### GamePages

The pages call `Game`, which `GameStore` implements, instead of `GameStore` itself: with
every lock and statement the states of two pages do not fit into a run. `page[p]` is
what the script of a window remembers, `call[t]` the handler that awaits the answer to
`request[t]`. A request not yet checked is on its way, an answer not yet returned too.

| Action | Code |
|---|---|
| `Play` | clicks, ticks, sales, purchases: any change of the counts |
| `Submit`, `LoginAfterCreate` | `handleForm` up to each `await` |
| `Logout` | `doLogout` up to its `await` |
| `Unload` | the window is closed or loaded anew, with or without the PUT of `beforeunload` |
| `Deliver` | what the handler does after its `await` (`Succeeds`), or the error, the lost answer, the closed window (`Fails`) |
| `Work`, `Restart` | the server, and its end |

`base` (what the last login of the page was answered) and `strayed` (session ids that no
page has any more) are history variables. A request that is lost on its way is one that
is refused before its check. Passwords are right here; wrong ones are in `GameStore`.

### HttpServer

`op[s]` says who has the session: the kernel (`accept`, `read`, `write`), a queued or
running handler (`ready`), nobody (`none`), or that the object is deleted (`free`).
`queue` is Asio's FIFO queue, `running[t]` and `step[t]` where a thread is.
`handle_accept` and `handle_read` take two steps each, so that another thread may run
between the start of an operation and the return. The body of a request is its number;
a response is the body its handler was given. `HandlerThrows` ends the process, which
starts again without connections.

A client sends requests and, on the connections in `Careless`, messages that Beast
refuses while the connection is open: a bad method, target or version, a header over
8 KB, a body over 1 MB. They are one kind of input (`malformed`), since all take the
last branch of `handle_read` (`session.cc:94-98`). There `Disconnect` deletes the
session, and `CloseSocket` closes the connection of a client that still has it open
(`dropped`); what that client has sent behind the message is lost. `sent[c]` keeps the
messages of a connection in their order; the guard of `Send` counts them.

### Dispatcher

One request at a time is enough: a dispatcher is created and deleted per request and
shares only maps that do not change after the start. Paths are sequences of
characters, because what is at stake is the comparison of prefixes and lengths. The
loop takes locations in an order in which prefixes come first, as the order of the
map's keys is. A call through the uninitialised pointer crashes or reaches any
registered handler. A handler that throws what nobody catches ends the process (`Crash`).
A location is not empty (`PathsAssumption`), though the parser would take `""` for one.

### Handlers

The step that calls the handler (`Call`, `CallUninitialised`) also computes its answer:
for `FileRequestHandler` the file at the root of the location and the whole target, with
the type that `get_content_type` finds by walking back to a dot, for the others a
constant. `std::filesystem::exists` at `file_request_handler.cc:33` throws for a path that
cannot be looked up, by a name that is too long, a directory that may not be searched or
too many links: `Faults` are these paths, `Throws` says when a call ends the process by
one of them, and only such a path does (`HandleRequest`). An extension is one character
of a path, and the sets `Files` and `Faults` do not change while a request is answered.
`FilesAreServed` states the type by what the name ends in, without a loop.

### ConfigParser

Three loops, one after the other: `parse_token` takes a symbol per step
(`InitialWhitespace`, `Quote`, `Comment`, `Normal`, `EndOfFile`), `parse` a token per
step (`Word`, `StatementEnd`, `StartBlock`, `EndBlock`, ...), and
`get_server_settings_inner` a token of a statement of the root per step (`Skip`,
`Port`, `Location`, `Check`). A run of ordinary characters is one symbol, since only
special characters make a difference to the parser; what `std::stoi` reads in a word
and how many slashes a path ends with are given by `Numbers` and `Paths`. The tree of
pointers is a sequence of statements, each with the block it belongs to. A vector read
past its end, a null pointer followed, or `top` of an empty stack ends the behaviour as
"undefined", and the loop over slashes that does not end is the state "loops". Two things
are simpler than in the code. The loops that take the slashes off the location `/` read
the character before an empty string (`config_parser.cc:335`, `365`), which is undefined;
the model takes it for no slash, as with libstdc++, where this byte is the highest one of
the length. And a quoted location of several symbols counts as one without slashes at its
end (`Path`), so that what slashes do is seen with locations of one symbol only.
`ParsedIsPrinted` compares the tree, printed by `Printed` as `ToString` prints it, with
the tokens that were read. What the code does by recursion or in nested loops (`Lines`,
`DirectivesOf`, `SetDirectives`) are recursive functions over the numbers of the
statements; `DirectivesAreServed` says what the settings hold without any loop, by
`Mentions`, the places in the file where a block mentions a directive.

## 3. Runs

| Run | Instance | Shows |
|---|---|---|
| `CrudThreads` | 2 threads, failing calls, crashes, ids that overflow | types; files hold whole documents; a create replaces a file only in a race or after the largest id; GET answers are whole unless the file was opened for writing meanwhile |
| `CrudSequential` | 1 thread, 2 entities | `CrudStore` implements the atomic map |
| `CrudRaceStomps` | 2 threads, creates only | violation: two creates pick one id |
| `GameThreads` | 2 threads, 2 accounts, 2 passwords, failing statements, crashes | transactions exclude each other; progress changes only by whole saves of the session's holder; an answered login is current; a session id opens the progress of the user it was given to, also when wrong passwords have stored sessions; `GameStore` implements `Game` |
| `GameAnswers` | 2 threads, 1 account, 2 saves of 2 upgrades, fair | an acknowledged save is kept; every request ends |
| `GameWrongPassword` | 1 thread, 2 passwords | violation: a wrong password is answered 200 |
| `GamePages` | 2 windows, 2 calls at a time, 1 account, 2 logins, lost answers, restarts | a save replaces only progress that the last login of its page was answered; a session stays open with nobody to end it only after a closed window, a lost answer or a restart, or when two handlers of one page overlap |
| `HttpSessions` | 2 threads, 2 connections, 2 messages each, refused ones among them, aborts, failing accepts, exceptions | one handler per session, one accept, answers in order; every open connection has a session that works on it, and only a client that closed in the middle of a message leaves one behind; a connection is closed under its client only for a message that Beast refuses, after all before it is answered |
| `HttpKeepAlive` | 1 thread, 2 connections, one of them with refused messages, a failing accept, fair | every message is answered while the connection is open; every client is accepted |
| `DispatcherMatch` | all configurations over 6 locations, 16 targets, 3 roots, 2 kinds of paths that cannot be looked up | longest match; files come from the root of the longest location with the type of their name; the process ends at the paths that cannot be looked up and at no others |
| `ConfigFiles` | every short text, every file of up to 3 statements, right and wrong | the tree is what was read, locations are distinct and in force with their handlers and directives |
| `ConfigSlashes` | the files with right statements and one with two slashes, fair | violation: the start does not end |

The violation runs each check one statement of a comment, an answer or the README that
the code does not keep; section 6 has them, with those that no run checks.

Bounds. `MaxInt = 2` in the CRUD runs makes the overflow reachable in a few creates,
and `RequestIds` holds 0 (no id), one that is in range and, in `CrudThreads`, one that
`std::stoi` refuses. `Inodes` has room for the file at stake and one more: the file a
second create makes, or the one that takes the place of a file that was deleted while
it was open; with three the run is the same in kind and takes eight times as long.
Documents are one or two blocks long, so that a longer one is replaced by a shorter one
and the reverse. `MaxLogins = 2`
allows two sessions of one account or one of each of two, and the logins in hand are
counted, so that a bound on ids never decides what a request finds. `GameThreads` has two users
and one save, which is enough to see a save of the wrong user, a half or a second one;
`GameAnswers` has one user and two saves of two upgrades, one of which leaves an upgrade
out, so that merging differs from replacing. `GamePages` counts nothing or one of each,
so that what was loaded, what was played and what is stored can all differ; two session
ids are two logins, which let a page log in again while its logout is still awaited, or
two windows each have a session in turn; a third takes five times as long and shows
nothing else. Two messages per connection are what keep-alive, pipelining, a stale
body and a refused message before or behind a request need; sessions outnumber
connections by one, the pending accept. Two threads are what `server_main.cc:84` starts;
`HttpKeepAlive` has one, which makes requests wait for each other most, and there one
connection sends two messages and the other one (`OneIsShort`), only one may send
refused ones (`Careless`), and one accept fails.
`DispatcherMatch` has a name that is too long below every root (`TooLong`) and a
directory below one root that may not be searched (`Locked`), so that the same target is
served, not found or the end of the process as the configuration says.
`ConfigFiles` reads all texts of up to six symbols over words, spaces, `;`, `{` and `}`
(`Structures`), all of up to four over quotes, comments and line ends (`Lexemes`), and
all files of up to three of the statements in `MCConfig`: two locations that collide,
or a port between them, need no more.

Fairness. `GameStore!FairSpec`: a thread with a request in hand goes on, since no call
in it blocks (locks are errors) and the scheduler is fair. `HttpServer!FairSpec`: the
kernel completes an operation that can complete, and a thread in `io_service::run`
takes the next handler; the queue is FIFO, so weak fairness per thread is enough.
`ConfigParser!FairSpec`: the program, which is alone and sequential, goes on.
Nothing is assumed of clients. The other specifications assert safety only.

`CHECK_DEADLOCK FALSE` occurs where the system really stops: when all clients have
left (`HttpServer`), after an exit or crash (`Dispatcher`) and when the start is over
(`ConfigParser`).

## 4. Proofs

TLAPS checks these for any numbers of threads, entities, documents, windows,
connections, locations and so on.

Assumptions. They concern the constants only, and TLC evaluates each of them on the
instances. Most say what shape an input has: documents are not empty
(`BodiesAssumption`), ids come from `std::stoi` (`RequestIdsAssumption`), saves count
in natural numbers (`SavesAssumption`), targets begin with a slash (`TargetsAssumption`:
`is_valid_request` looks for a method with a slash behind it), a configuration is a text
(`TextsAssumption`), a path that cannot be looked up is none of a file
(`FaultsAssumption`). `RoomAssumption` leaves room for one session more than
connections, `NamesAssumption` and `ThreadsAssumption` say that there are finitely
many users and io threads,
`CountsAssumption` that a page may count what it is answered. The others tell
sentinels apart from values (`MissingAssumption`, `NoReplyAssumption`,
`SentinelsAssumption`, `NotMentionedAssumption`, ...).

CRUD:

* `CrudStoreProofs!TypeCorrect`. `TypeInv` adds to `TypeOK` what each step says of the
  request and the open file (`Shape`). The interesting part is `NextIdsType`: an id
  that wraps is still an int.
* `CreateStompsTheorem`. Inductive together with `TypeInv`. `PickId` establishes it by
  `NextIdsAreFresh`; only `Open` can break it, and `Open` marks the creators it
  disturbs.
* `WholeDocumentTheorem`. The invariant is not inductive: it says nothing of files that
  are being written. `DocInv` does: an inode that owes a document has at most one
  writer, is empty as long as it has one, and holds the document when it has none. The
  write then yields the document because it meets an empty file (`OverlayOnEmpty`).
* `WholeAnswerTheorem`. `AnswerInv` adds that an undisturbed reader has read nothing or
  everything of a file that owes a document and has no writer; with `DocInv` what it
  returns is a document, and never the empty text, which no document is.
* `AtomicStoreTheorem`: one thread, a disk and a process that do not fail
  (`OneAtATime`) imply that `CrudStore` implements `KeyValueStore`. The hypothesis is
  what the promise needs: with two threads it is false. `AloneInv` says what a request
  may rely on when it is alone: the file it has open is its target's, that file is empty
  while it is being written, every other one holds a document, and the id of a create is
  still the next one when the file is opened. The step simulation then maps each
  operation to one system call (the open of a create or update, the unlink, the listing,
  the read that meets the end) and all others to stuttering.

Game:

* `GameStoreProofs!TransactionsExcludeTheorem`. `LockInv`: a thread between `BEGIN` and
  the end of its transaction has EXCLUSIVE, and who has it has it alone. The lemmas
  `LockKept` and `LockTaken` say it once for all steps that keep or drop a lock and for
  all that take one.
* `ProgressChangesBySavesTheorem`. `SaveInv` says, on top of `LockInv`, how far a
  transaction has got: after each statement of an update, `work` differs from `db` in
  the user the request names only, by the radishes and the upgrades that are not `left`
  (`MergeBut`), and before `COMMIT` the session is gone; a login changes no progress.
  Without it the step `COMMIT` could store anything. `work` is `db` outside of
  transactions unless an exception left one open (`Clean`), which is why the next
  transaction starts from what is stored. That `leaked` locks everybody out is what
  keeps the remains of such a transaction from being committed.
* `GameSessionsProofs`: `SessionsOpenOwnProgressTheorem`, `LoginIsCurrentTheorem`,
  `AcknowledgedSavesTheorem` and `TypeCorrect`, all from `SessionInv`, which stands on
  `SaveInv`. Ids of users and of sessions are never given twice (`AccountInv`,
  `TableInv`), so a session id that a login has read, or that a client was sent, belongs
  to the user and the password it was read with for as long as any row has it
  (`Belongs`), committed or not. What a login has read inside its transaction is what
  the transaction sees (`ReadInv`), and stays what is stored until its session ends
  (`CurrentInv`), since only a save changes progress and a save ends the session. That
  the bound on logins never decides what a request finds is counted in `TypeInv`
  (cardinality of the logins that may yet draw an id).
* `GameRefinementProofs!AtomicGameTheorem`: `GameStore` implements `Game`, faults,
  crashes and wrong passwords included. `RefineInv`, on top of `SessionInv`, says which
  findings of a request's queries are still so when it acts on them (a user who exists
  goes on existing, `QueryInv`; that a user is offline may be so no longer, and `Game`
  allows for it), that a request has read nothing before its transaction (`FreshInv`,
  `OpenInv`), and which one row of `sessions` a transaction has changed when it commits
  (`RowInv`). The step simulation: the first query is the check, a missing user is the
  miss, the `INSERT` and the `COMMIT` are the effects, the rest stutters. That a login
  always finds a session number nobody has seen is a cardinality argument (`NextOne`).

Game client:

* `GamePagesProofs!NoStaleSavesTheorem`, for any number of windows, users, calls and
  restarts. `PagesInv` says of everybody who has the id of a session, a page, a save on
  its way or the answer to a login, that as long as this session is open its user's
  progress is what the page was, or is about to be, answered (`Current`), and that ids
  in use are not fresh. It holds because the only step that changes progress ends the
  session: `Carries` says that a session that is open after a step was open before
  with the same progress, or has an id nobody knows, and each step is shown to be one
  of these. An update that stores something found its own session open, so its page
  had been answered what it replaces. It need not have loaded it: `base` is the answer of
  the last login, which the first login after a create ignores. That no session is open
  for a user who does not exist yet is an assumption of `GamePages`, whose players know
  their passwords.
* `NoOrphanSessionsTheorem`. `OwnerInv` adds that the id of an open session is known
  only as its own user's (`BelongsTo`), and that a save answered 200 has ended the
  session it named (`HasEnded`). A page that logs out therefore gives up nothing, and
  an answered login that replaces an id is what the history `strayed` records.
* `PagesTypeCorrect`. `PagesTypeOK` is not inductive: a page could log out without the
  id of a session, and a save could store what no page counts. `TypesInv` adds that what
  is stored was counted by a page (`SavedCounts`: a page mentions every upgrade, so
  merging is replacing), that a page with a name has the id of a session, and that it
  still has it when a logout is answered (`Leaving`).

Server:

* `HttpServerProofs`: `OneHandlerPerSessionTheorem` and `OneAcceptTheorem` from
  `ControlInv`: an operation of a session is with the kernel, in the queue or with one
  thread, never in two of these places; a thread that only returns (`rearm`) does not
  touch the session any more, which is what makes the missing strand harmless. The one
  accept is in one of three places likewise.
* `AnswersInOrderTheorem` and `TypeCorrect` from `ServerInv`, which adds how many
  requests of its connection a session has answered, read off from what it is doing
  (waiting, handling, writing), that the requests not yet read are numbered from there
  on, and that no two sessions share a connection.
* `OpenConnectionsAreServedTheorem`. That every open connection has a session is not
  inductive: a session is deleted or left behind by what a completion says, and it says
  so long after the operation failed. `EndInv` follows the reason from its origin: only
  the client ends its stream (`in`), a failure in the queue or with a thread is about a
  session whose client has gone by then (`Gone`, `Closed`), which is final (`Stable`), or
  about one whose client has sent a message that Beast refuses (`Refused`), and then the
  handler closes the connection together with the session (`LetsGo`, `SocketCloses`). It
  needs `ServerInv` for the session of a completion to have no other handler.
* `OnlyMalformedAreDroppedTheorem`, from the same `EndInv`. A refused completion is about
  the first message without an answer (`MalformedNext`): by `ServerInv` the messages not
  yet read are numbered from there on, and each is in `in` as it is in `sent`. A
  connection that is dropped has no session, so nothing is written to it any more.

Dispatcher and file handler:

* `DispatcherProofs!LongestMatchTheorem`. `LoopInv`: `best` and `factory` belong
  together and no location the loop is done with is longer than `best`. Comparing one
  length with a slash and the other without is harmless because they differ by at most
  one. `MatchesIsBelow` shows that the comparison of the loop finds the locations the
  target lies below. `TypeCorrect` comes with it.
* `FilesAreServedTheorem`. `AnswerInv`: the answer is the one of the handler that was
  called, at the location the loop found, and a crash is one of that handler there
  (`Throws`). Two locations of one length above a target are one (`OneLongest`,
  `LongestIsOne`), so what ends the process is the path the property speaks of, and the
  loop in `get_content_type` ends at the last dot, which exists because `<` is
  well-founded (`LastDotFound`, `TypeOfName`).

Configuration:

* `ConfigParserProofs!TypeCorrect`. `TypeInv` adds that after a word the innermost block
  exists and has a statement: without it `Back`, the model of `statements_.back()`,
  could be any value, and a statement could be put anywhere. One lemma per loop of the
  parser. That a server that serves has a valid port follows from the one step that
  starts it.
* `LocationsAreDistinctTheorem`. `SeenInv`: `seen_locations` has the name of every
  location, without its slashes, that a handler is stored for. `Location` adds a
  location only if its name is new.
* `LocationsAreServedTheorem`. `ServedInv` says of every token the loop is past
  (`Behind`) that the location it names, if it names one, is in force: with `SeenInv`, a
  later location is another one and does not replace its handler. While the file is
  parsed the loop is at its start and the statement vacuous, and the server starts only
  when the loop is past the last statement.
* `ParsedIsPrintedTheorem`. Printing is a recursion over the finished tree, and no step
  of `parse` is a step of it; the invariant therefore says where everything is.
  `Layout(c)`: the number `c[b][k]` is the place in what was read where the statements
  of block `b` from `k` on begin. The words of statement `k` lie at its place, the
  semicolon or the brace behind them, the block's statements behind the brace up to
  where the closing brace is, and where the last statement of the innermost block ends,
  the reading has got to. `NestInv` says that the open blocks lie in each other and that
  nothing comes behind one of them in the block around it, which is what makes it
  possible to append. Each token of `parse` extends such a `c` (`WordGoesOn`,
  `WordBegins`, `StatementEnds`, `BlockBegins`, `BlockEnds`), and `LayoutIsPrinted`
  shows, by induction on the number of lines, that a tree that lies so is printed as it
  was read. `LaidOut`, with the parts of `PrintInv`, is inductive.
* `DirectivesAreServedTheorem`. `DirectivesCollected`: what the two loops of
  `DirectivesOf` leave has the directives of `Mentions` and no others, each with a
  parameter that was given. `DirectedInv` carries this from the step that stores a
  location's directives to the end, as `ServedInv` does for the handlers.

Induction over numbers is done by the least counterexample (`Least`, from
`WFMin`), since the induction theorems take an operator; `Recursion` says that a function
over `0 .. n` defined by its value at the number before exists.

Only model-checked: the liveness properties (`EveryRequestIsAnswered`,
`RequestsAreAnswered`, `ConnectionsAreAccepted`), which need fairness and ENABLED. The
violations of section 6 are counterexamples and need no proof.

## 5. Not modelled

The market of the game in `index.js`: prices, timers and what an upgrade costs are local
to a page and any change of its counts in `GamePages`; their conversion to integers on
the server; the logger, whose output nothing
reads; the regular expressions over requests, which are a choice between valid and
invalid; headers and HTTP versions, apart from the messages that Beast refuses for them,
which are one kind of input; files that appear, disappear or become unreadable while a
request is answered; connections that time out, since the server sets no
timeouts; build and deployment files.

## 6. Where code and documentation disagree

| Run | Statement | What happens |
|---|---|---|
| `CrudRaceStomps` | `crud_store.h:19` "this will never stomp on an old id" | two creates take the same id |
| `GameWrongPassword` | `game_request_handler.cc:105` "username/password mismatch" | a login with a wrong password is answered 200 |
| `ConfigSlashes` | `config_parser.cc:333` "remove extra slashes for consistency" | a location that ends with two slashes keeps the start in a loop |

The models have these too, as what the code does, without a run of their own:

| Action | Statement | What happens |
|---|---|---|
| `CrudStore!PickId` | `crud_store.h:19`, as above | after INT_MAX the new id wraps and is taken again and again |
| `CrudStore!FilesystemThrows` | `crud_store.h:8` "these methods do not throw exceptions" | filesystem calls throw |
| `CrudStore!WriteFails` | `crud_store.h:24` "gives indicator of success" | a failed write is a success |
| `GameStore!InsertUser` | `game_request_handler.cc:165` "true if successfully added" | an ignored INSERT is a success |
| `GameStore!AddSession` | `game_request_handler.cc:359` "true if user is online" | a wrong password opens a session for another user id |
| `GameStore!Commit` | `game_request_handler.cc:441` "shows whether it was successful" | a save that stores nothing is a success |
| `GameStore!AddSession` | `README.md:27` "unique per login or session" | of two logins that overlap the second finds the session of the first and answers its id (`LoginsGetDistinctSessions` is false) |
| `GamePages!AfterLogout` | `index.js:515` "Logout Successful!" | a second click, or a second window with the same session id, is told so and nothing is saved (`LogoutsAreSaved` is false) |
| `GamePages!AfterLogin` | `index.js:435` "we JUST made the account" | another handler may have created the account and saved in the meantime; its progress is not loaded and the next save replaces it (`NewAccountsAreEmpty` is false) |
| `Handlers!HandleRequest` | `file_request_handler.cc:60` "we have a 404 by default so res_ will be a 404" | for a path that cannot be looked up `exists` throws and the process ends (`FileHandlerAnswers` is false) |
| `GamePages!Loaded` | `index.js:456` "load data" | zeros are not loaded: what was counted before the login stays |
| `HttpServer!PartialRead` | `session.cc:80` "should never happen" | the session object is never deleted |
| `Dispatcher!Exit` | `request_handler_factory.cc:22` "to prevent crashes" | an unknown handler name exits |
| `ConfigParser!EndOfFile` | `config_parser.h:39` "Returns true iff the input config file is valid" | a word that the file ends in is dropped and the file accepted |

## 7. Plan

Done: every module with its runs; the proofs of every invariant and action property the
runs check, and of the two refinements. What is left, in this order:

1. A composition of `HttpServer` with an abstract handler that fails as `CrudStore`
   does: which answers clients get when another request ends the process.
2. `GameStore` without the bound on logins.
3. The market of `index.js`, once more than the change of the counts is at stake.
