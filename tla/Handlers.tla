------------------------------ MODULE Handlers ------------------------------
(***************************************************************************)
(* The handlers that keep no state, and what the dispatcher tells them:    *)
(* FileRequestHandler with the root of its location, echo, health, not     *)
(* found and blocking.  An extension is one character of a path here, and  *)
(* a body is what it is made of.                                           *)
(***************************************************************************)
EXTENDS Dispatcher

CONSTANTS
    Roots,    \* Roots[l]: the root of location l, << >> if it has none
    Files,    \* paths of regular files that can be read
    Faults    \* paths the file system cannot look up: a name that is too long, a
              \* directory that may not be searched, links in a circle

ASSUME RootsAssumption == Roots \in [Locations -> Seq(Chars)]

ASSUME FaultsAssumption == Files \cap Faults = {}

\* The target of a valid request is in origin form (request_dispatcher.cc:100).
ASSUME TargetsAssumption == \A p \in Targets : p[1] = "/"

VARIABLE answer    \* the response a client gets, when there is one

NoAnswer == [status |-> 0, type |-> "", body |-> <<>>]

Text(status, body) == [status |-> status, type |-> "text/plain", body |-> body]

\* init_response: what a handler starts from.
NotFound == Text(404, <<"404 Not Found">>)

ContentTypes ==
    [html |-> "text/html", txt |-> "text/plain", jpg |-> "image/jpeg",
     jpeg |-> "image/jpeg", png |-> "image/png", pdf |-> "application/pdf",
     zip |-> "application/zip", css |-> "text/css", js |-> "text/javascript"]

Binary == "application/octet-stream"

file_extension_to_content_type(ext) ==
    IF \E e \in DOMAIN ContentTypes : ext = <<e>> THEN ContentTypes[ext[1]] ELSE Binary

\* Mutant: the first dot of the path, as in a root that is "." or "..".
FirstDot(path) ==
    LET dots == {i \in 1 .. Len(path) - 1 : path[i] = "."}
    IN  IF dots = {} THEN 0 ELSE CHOOSE i \in dots : \A j \in dots : i <= j

\* The loop begins before the last character: i-- comes before the body.
LastDot(path) ==
    LET dots == {i \in 1 .. Len(path) - 1 : path[i] = "."}
    IN  IF dots = {} THEN 0 ELSE CHOOSE i \in dots : \A j \in dots : i >= j

\* Without a dot the whole path is taken for the extension.
get_content_type(path) ==
    file_extension_to_content_type(SubSeq(path, LastDot(path) + 1, Len(path)))

\* The target is appended as it is, with the location it begins with.
FileAnswer(root) ==
    LET path == root \o target
    IN  IF path \in Files
        THEN [status |-> 200, type |-> get_content_type(path), body |-> path]
        ELSE NotFound

Echo == Text(200, <<"request">>)

Health == Text(200, <<"OK">>)

\* After a second of sleep.
Blocking == Text(200, <<"Returned response after 1 seconds">>)

SimpleAnswers ==
    [EchoRequestHandler |-> Echo, HealthRequestHandler |-> Health,
     BlockingRequestHandler |-> Blocking, NotFoundHandler |-> NotFound]

ASSUME RegisteredAssumption ==
    Registered \subseteq DOMAIN SimpleAnswers \cup {"FileRequestHandler"}

\* location_to_directives[curr_longest_match]["root"]: empty if there is none.
Root(l) == IF l = <<>> THEN <<>> ELSE Roots[l]

HandlerAnswer(handler, location) ==
    IF handler = "FileRequestHandler" THEN FileAnswer(Root(location))
    ELSE SimpleAnswers[handler]

\* exists(file_path) throws on any error but that nothing is there.
Throws(handler, location) ==
    handler = "FileRequestHandler" /\ Root(location) \o target \in Faults

InitHandlers == Init /\ answer = NoAnswer

HandleRequest ==
    /\ Call \/ CallUninitialised
    /\ \/ /\ pc' = "done"
          /\ ~ Throws(response'.handler, best)
          /\ answer' = HandlerAnswer(response'.handler, best)
       \/ /\ pc' = "crashed"
          /\ factory # Uninitialised => Throws(factory, best)
          /\ answer' = NoAnswer

NextHandlers ==
    \/ HandleRequest
    \/ Reject /\ answer' = Text(400, <<"400 Bad Request">>)
    \/ Finish /\ answer' = NoAnswer
    \/ /\ Accept \/ \E l \in todo : Skip(l) \/ Take(l) \/ Exit(l)
       /\ UNCHANGED answer

SpecHandlers == InitHandlers /\ [][NextHandlers]_<<vars, answer>>

-----------------------------------------------------------------------------
(* Properties.                                                             *)

LongestBelow(l) ==
    /\ Below(l, target)
    /\ \A m \in DOMAIN config : Below(m, target) => Len(Slashed(m)) <= Len(Slashed(l))

\* The types of the extensions that the path ends in: at most one.
TypesOf(path) ==
    {ContentTypes[e] : e \in {x \in DOMAIN ContentTypes :
        Len(path) > 1 /\ path[Len(path) - 1] = "." /\ path[Len(path)] = x}}

\* A request for a file below a location of FileRequestHandler gets that file
\* from the root of the longest such location, with the type its name ends in
\* (request_dispatcher.cc:73-88, file_request_handler.cc:20-72), however many
\* dots the root, the directories and the name have; where there is no such file
\* it gets a 404 in plain text, never the type of a file that is not there.  Only
\* a path that the file system cannot look up gets no answer, and ends the
\* process (line 33): no such request is answered.
FilesAreServed ==
    \A l \in DOMAIN config :
        /\ pc = "crashed" \/ answer.status \notin {0, 400}
        /\ config[l] = "FileRequestHandler"
        /\ LongestBelow(l)
        => LET path == Roots[l] \o target
           IN  /\ pc = "crashed" <=> path \in Faults
               /\ path \in Files =>
                      /\ answer.status = 200 /\ answer.body = path
                      /\ {answer.type} = IF TypesOf(path) = {} THEN {Binary}
                                         ELSE TypesOf(path)
               /\ path \notin Files \cup Faults => answer = Text(404, <<"404 Not Found">>)

\* "we have a 404 by default so res_ will be a 404" (file_request_handler.cc:60):
\* a valid request below a location of FileRequestHandler is always answered.
FileHandlerAnswers ==
    \A l \in DOMAIN config :
        ~ (pc = "crashed" /\ config[l] = "FileRequestHandler" /\ LongestBelow(l))
=============================================================================
