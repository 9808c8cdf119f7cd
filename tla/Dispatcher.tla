----------------------------- MODULE Dispatcher -----------------------------
(***************************************************************************)
(* RequestDispatcher and RequestHandlerFactory: from a request and the     *)
(* locations of the configuration to the handler that answers it.          *)
(*                                                                         *)
(* A dispatcher lives for one request and shares nothing that changes, so  *)
(* one of them is all there is to look at.  Paths are compared character   *)
(* by character in the code, so they are sequences of characters here.     *)
(***************************************************************************)
EXTENDS Integers, Sequences, FiniteSets

CONSTANTS
    Chars,         \* the characters of paths, "/" among them
    Locations,     \* locations that a configuration may have
    Targets,       \* request targets
    Handlers,      \* handler names that a configuration may have
    Registered,    \* names that handlers registered before main
    Uninitialised  \* the value of handler_factory before the first match

ASSUME PathsAssumption ==
    /\ Locations \subseteq Seq(Chars) \ {<<>>}
    /\ Targets \subseteq Seq(Chars) \ {<<>>}

ASSUME HandlersAssumption == Uninitialised \notin Handlers \cup Registered

VARIABLES
    config,     \* config[l]: the handler of location l
    pc,         \* "idle", "match", "done", "exited" or "crashed"
    target,     \* the target of the request
    todo,       \* locations the loop has not come to
    best,       \* curr_longest_match, << >> before there is one
    factory,    \* handler_factory
    response    \* [status, handler, location]

vars == <<config, pc, target, todo, best, factory, response>>

\* Each path gets a "/" at the end if it has none.
Slashed(p) == IF p[Len(p)] = "/" THEN p ELSE Append(p, "/")

\* path.find(start) == 0
Begins(path, start) ==
    Len(start) <= Len(path) /\ SubSeq(path, 1, Len(start)) = start

\* Mutant: the comparison without the slashes.
MatchesName(l, p) == Begins(p, l)

Matches(l, p) == Begins(Slashed(p), Slashed(l))

\* The configuration parser refuses two locations that differ in slashes only.
Configs ==
    {c \in UNION {[ls -> Handlers] : ls \in SUBSET Locations} :
        \A l, m \in DOMAIN c : Slashed(l) = Slashed(m) => l = m}

NoResponse == [status |-> 0, handler |-> Uninitialised, location |-> <<>>]

BadRequest == [status |-> 400, handler |-> Uninitialised, location |-> <<>>]

Init ==
    /\ config \in Configs
    /\ pc = "idle"
    /\ target = <<>>
    /\ todo = {}
    /\ best = <<>>
    /\ factory = Uninitialised
    /\ response = NoResponse

\* is_valid_request: the regular expression does not find its pattern.
Reject ==
    /\ pc = "idle"
    /\ target' \in Targets
    /\ pc' = "done"
    /\ response' = BadRequest
    /\ UNCHANGED <<config, todo, best, factory>>

Accept ==
    /\ pc = "idle"
    /\ target' \in Targets
    /\ pc' = "match"
    /\ todo' = DOMAIN config
    /\ best' = <<>>
    /\ factory' = Uninitialised
    /\ UNCHANGED <<config, response>>

\* The map is walked in the order of its keys: a prefix comes first.
NextLocation(l) == l \in todo /\ \A m \in todo \ {l} : ~ Begins(l, m)

Longer(l) == Matches(l, target) /\ Len(Slashed(l)) > Len(best)

Skip(l) ==
    /\ pc = "match"
    /\ NextLocation(l)
    /\ ~ Longer(l)
    /\ todo' = todo \ {l}
    /\ UNCHANGED <<config, pc, target, best, factory, response>>

\* Mutant: the path with its slash is remembered instead of the key.
TakePath(l) ==
    /\ pc = "match"
    /\ NextLocation(l)
    /\ Longer(l)
    /\ config[l] \in Registered
    /\ todo' = todo \ {l}
    /\ best' = Slashed(l)
    /\ factory' = config[l]
    /\ UNCHANGED <<config, pc, target, response>>

Take(l) ==
    /\ pc = "match"
    /\ NextLocation(l)
    /\ Longer(l)
    /\ config[l] \in Registered
    /\ todo' = todo \ {l}
    /\ best' = l
    /\ factory' = config[l]
    /\ UNCHANGED <<config, pc, target, response>>

\* get_factory does not know the name: exit(-1).
Exit(l) ==
    /\ pc = "match"
    /\ NextLocation(l)
    /\ Longer(l)
    /\ config[l] \notin Registered
    /\ pc' = "exited"
    /\ UNCHANGED <<config, target, todo, best, factory, response>>

Answer(h) ==
    /\ pc' = "done"
    /\ response' = [status |-> 200, handler |-> h, location |-> best]
    /\ UNCHANGED <<config, target, todo, best, factory>>

Crash ==
    /\ pc' = "crashed"
    /\ UNCHANGED <<config, target, todo, best, factory, response>>

\* The handler answers, or throws what nobody catches.
Call ==
    /\ pc = "match" /\ todo = {}
    /\ factory # Uninitialised
    /\ Answer(factory) \/ Crash

\* No location matches and an uninitialised pointer is called: a crash, or
\* whatever handler an earlier call has left on the stack.
CallUninitialised ==
    /\ pc = "match" /\ todo = {}
    /\ factory = Uninitialised
    /\ Crash \/ \E h \in Registered : Answer(h)

\* delete dispatcher; the next request gets a new one.
Finish ==
    /\ pc = "done"
    /\ pc' = "idle"
    /\ target' = <<>>
    /\ best' = <<>>
    /\ factory' = Uninitialised
    /\ response' = NoResponse
    /\ UNCHANGED <<config, todo>>

Next ==
    \/ Reject \/ Accept
    \/ \E l \in todo : Skip(l) \/ Take(l) \/ Exit(l)
    \/ Call \/ CallUninitialised
    \/ Finish

Spec == Init /\ [][Next]_vars

-----------------------------------------------------------------------------
(* Properties.                                                             *)

TypeOK ==
    /\ config \in Configs
    /\ pc \in {"idle", "match", "done", "exited", "crashed"}
    /\ target \in Targets \cup {<<>>}
    /\ todo \subseteq DOMAIN config
    /\ best \in DOMAIN config \cup {<<>>}
    /\ factory \in Registered \cup {Uninitialised}
    /\ response \in [status : {0, 200, 400},
                     handler : Registered \cup {Uninitialised},
                     location : DOMAIN config \cup {<<>>}]

\* The target is the location or lies below it: never is a part of a name
\* taken for a directory ("prevents matching of half a directory name").
Below(l, p) == Slashed(p) = Slashed(l) \/ Begins(p, Slashed(l))

\* A valid request that lies below some location is answered by the handler of
\* the longest such location (request_dispatcher.cc:59-70), whatever handlers
\* the loop has met on its way, and the handler is told that location.
LongestMatch ==
    response.status = 200 /\ (\E l \in DOMAIN config : Below(l, target))
        => /\ response.location \in DOMAIN config
           /\ Below(response.location, target)
           /\ response.handler = config[response.location]
           /\ \A l \in DOMAIN config :
                  Below(l, target) =>
                      Len(Slashed(l)) <= Len(Slashed(response.location))
=============================================================================
