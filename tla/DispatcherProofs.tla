-------------------------- MODULE DispatcherProofs --------------------------
(***************************************************************************)
(* Proofs about Dispatcher and Handlers, for any locations, targets,       *)
(* handlers, roots and files.                                              *)
(***************************************************************************)
EXTENDS Handlers, SequenceTheorems, WellFoundedInduction, TLAPS

Path == Seq(Chars) \ {<<>>}

-----------------------------------------------------------------------------
(* Paths.                                                                  *)

LEMMA SlashedProperties ==
    ASSUME NEW p \in Path
    PROVE  /\ Slashed(p) \in Seq(Chars \cup {"/"})
           /\ Len(Slashed(p)) \in {Len(p), Len(p) + 1}
           /\ Len(p) \in Nat \ {0}
           /\ \A i \in 1 .. Len(p) : Slashed(p)[i] = p[i]
           /\ Slashed(p)[Len(Slashed(p))] = "/"
           /\ p[Len(p)] = "/" => Slashed(p) = p
           /\ p[Len(p)] # "/" => Len(Slashed(p)) = Len(p) + 1
  <1>1. p \in Seq(Chars \cup {"/"}) /\ Len(p) \in Nat \ {0}
    BY DEF Path
  <1> QED BY <1>1 DEF Slashed

LEMMA SlashedIsSeq ==
    ASSUME NEW p \in Path
    PROVE  /\ Slashed(p) \in Seq(Chars \cup {"/"})
           /\ Len(Slashed(p)) \in Nat \ {0}
           /\ Len(p) \in Nat \ {0}
           /\ Len(p) <= Len(Slashed(p)) /\ Len(Slashed(p)) <= Len(p) + 1
  BY SlashedProperties

\* The comparison of the loop finds a location exactly when the target is the
\* location or lies below it.
LEMMA MatchesIsBelow ==
    ASSUME NEW l \in Path, NEW p \in Path
    PROVE  Matches(l, p) <=> Below(l, p)
  <1> DEFINE A == Chars \cup {"/"}
             s == Slashed(l)
             q == Slashed(p)
  <1>1. /\ s \in Seq(A) /\ q \in Seq(A) /\ p \in Seq(A)
        /\ Len(s) \in Nat \ {0} /\ Len(q) \in Nat \ {0} /\ Len(p) \in Nat \ {0}
        /\ Len(q) \in {Len(p), Len(p) + 1}
        /\ \A i \in 1 .. Len(p) : q[i] = p[i]
        /\ s[Len(s)] = "/" /\ q[Len(q)] = "/"
    BY SlashedProperties, SlashedIsSeq DEF Path
  <1> HIDE DEF s, q
  <1>2. ASSUME NEW t \in Seq(A)
        PROVE  Begins(t, s) <=> /\ Len(s) <= Len(t)
                                /\ \A i \in 1 .. Len(s) : t[i] = s[i]
    BY <1>1, <1>2 DEF Begins
  <1>3. CASE Len(s) <= Len(p)
    <2>1. Begins(q, s) <=> Begins(p, s)
      BY <1>1, <1>2, <1>3
    <2>2. q = s => Begins(q, s)
      BY <1>1, <1>2
    <2> QED BY <2>1, <2>2 DEF Matches, Below, s, q
  <1>4. CASE Len(s) > Len(p)
    <2>1. ~ Begins(p, s)
      BY <1>1, <1>2, <1>4
    <2>2. Begins(q, s) <=> q = s
      BY <1>1, <1>2, <1>4
    <2> QED BY <2>1, <2>2 DEF Matches, Below, s, q
  <1> QED BY <1>1, <1>3, <1>4

-----------------------------------------------------------------------------
(* The loop.                                                               *)

\* No location that matches and is not among ls is longer than best.
Longest(ls) ==
    \A l \in DOMAIN config \ ls :
        Matches(l, target) => /\ best # <<>>
                              /\ Len(Slashed(l)) <= Len(Slashed(best))

\* best and factory belong together.
Chosen == IF best = <<>> THEN factory = Uninitialised
          ELSE /\ best \in DOMAIN config
               /\ Matches(best, target)
               /\ factory = config[best]

LoopInv ==
    /\ TypeOK
    /\ pc \in {"match", "done", "crashed"} => target \in Targets
    /\ pc = "match" => Chosen /\ Longest(todo)
    /\ pc = "crashed" => Chosen /\ Longest({})
    /\ response.status = 200 =>
          /\ pc = "done"
          /\ Longest({}) /\ response.location = best
          /\ best # <<>> => Chosen /\ response.handler = config[best]

LEMMA ConfigPaths ==
    ASSUME TypeOK, NEW l \in DOMAIN config
    PROVE  l \in Path
  BY PathsAssumption DEF TypeOK, Configs, Path

LEMMA LoopInit == Init => LoopInv
  BY DEF Init, LoopInv, TypeOK, NoResponse

LEMMA LoopStep == LoopInv /\ [Next]_vars => LoopInv'
  <1> SUFFICES ASSUME LoopInv, [Next]_vars PROVE LoopInv'
    OBVIOUS
  <1> USE DEF LoopInv
  <1>0. CASE UNCHANGED vars
    BY <1>0 DEF vars, TypeOK, Chosen, Longest, Matches
  <1>1. CASE Reject
    BY <1>1 DEF Reject, BadRequest, TypeOK
  <1>2. CASE Accept
    BY <1>2 DEF Accept, TypeOK, Chosen, Longest
  <1>3. ASSUME NEW l \in todo, Skip(l) PROVE LoopInv'
    <2>1. TypeOK'
      BY <1>3 DEF Skip, TypeOK
    <2>2. Chosen'
      BY <1>3 DEF Skip, Chosen, Matches
    <2>3. Longest(todo)'
      <3>1. l \in Path
        BY <1>3, ConfigPaths DEF TypeOK
      <3>2. CASE ~ Matches(l, target)
        BY <1>3, <3>2 DEF Skip, Longest, Matches
      <3>3. CASE Matches(l, target)
        <4>1. ~ (Len(Slashed(l)) > Len(best))
          BY <1>3, <3>3 DEF Skip, Longer
        <4>2. Len(Slashed(l)) \in Nat \ {0}
          BY <3>1, SlashedIsSeq
        <4>3. best # <<>> /\ best \in DOMAIN config
          BY <1>3, <4>1, <4>2 DEF TypeOK
        <4>4. /\ Len(best) \in Nat /\ Len(Slashed(best)) \in Nat
              /\ Len(best) <= Len(Slashed(best))
          BY <4>3, ConfigPaths, SlashedIsSeq
        <4>5. Len(Slashed(l)) <= Len(Slashed(best))
          BY <4>1, <4>2, <4>4
        <4> QED BY <1>3, <4>3, <4>5 DEF Skip, Longest, Matches
      <3> QED BY <3>2, <3>3
    <2> QED BY <1>3, <2>1, <2>2, <2>3 DEF Skip
  <1>4. ASSUME NEW l \in todo, Take(l) PROVE LoopInv'
    <2>1. l \in Path /\ l \in DOMAIN config /\ l # <<>>
      BY ConfigPaths DEF TypeOK, Path
    <2>2. TypeOK'
      BY <1>4, <2>1 DEF Take, TypeOK
    <2>3. Chosen'
      BY <1>4, <2>1 DEF Take, Longer, Chosen, Matches
    <2>4. Longest(todo)'
      <3>1. Len(Slashed(l)) \in Nat /\ Len(Slashed(l)) > Len(best)
        BY <1>4, <2>1, SlashedIsSeq DEF Take, Longer
      <3>2. ASSUME NEW m \in DOMAIN config \ todo, Matches(m, target)
            PROVE  Len(Slashed(m)) <= Len(Slashed(l))
        <4>1. best # <<>> /\ Len(Slashed(m)) <= Len(Slashed(best))
          BY <1>4, <3>2 DEF Take, Longest
        <4>2. best \in Path /\ m \in Path
          BY <4>1, ConfigPaths DEF TypeOK
        <4>3. /\ Len(best) \in Nat /\ Len(Slashed(best)) \in Nat
              /\ Len(Slashed(best)) <= Len(best) + 1
              /\ Len(Slashed(m)) \in Nat
          BY <4>2, SlashedIsSeq
        <4> QED BY <3>1, <4>1, <4>3
      <3> QED BY <1>4, <2>1, <3>1, <3>2 DEF Take, Longest, Matches
    <2> QED BY <1>4, <2>2, <2>3, <2>4 DEF Take
  <1>5. ASSUME NEW l \in todo, Exit(l) PROVE LoopInv'
    <2>1. pc = "match" /\ pc' = "exited"
      BY <1>5 DEF Exit
    <2>2. UNCHANGED <<config, target, todo, best, factory, response>>
      BY <1>5 DEF Exit
    <2> QED BY <2>1, <2>2 DEF TypeOK
  <1>6. CASE Call
    <2>1. CASE Answer(factory)
      BY <1>6, <2>1 DEF Call, Answer, TypeOK, Chosen, Longest
    <2>2. CASE Crash
      BY <1>6, <2>2 DEF Call, Crash, TypeOK, Chosen, Longest, Matches
    <2> QED BY <1>6, <2>1, <2>2 DEF Call
  <1>7. CASE CallUninitialised
    <2>1. best = <<>>
      BY <1>7, HandlersAssumption
         DEF CallUninitialised, TypeOK, Configs, Chosen
    <2>2. CASE Crash
      BY <1>7, <2>2 DEF CallUninitialised, Crash, TypeOK, Chosen, Longest, Matches
    <2>3. ASSUME NEW h \in Registered, Answer(h) PROVE LoopInv'
      BY <1>7, <2>1, <2>3 DEF CallUninitialised, Answer, TypeOK, Longest, Matches
    <2> QED BY <1>7, <2>2, <2>3 DEF CallUninitialised
  <1>8. CASE Finish
    BY <1>8 DEF Finish, NoResponse, TypeOK
  <1> QED BY <1>0, <1>1, <1>2, <1>3, <1>4, <1>5, <1>6, <1>7, <1>8 DEF Next

LEMMA LoopInvImpliesLongestMatch == LoopInv => LongestMatch
  <1> SUFFICES ASSUME LoopInv, response.status = 200,
                      NEW k \in DOMAIN config, Below(k, target)
               PROVE  /\ response.location \in DOMAIN config
                      /\ Below(response.location, target)
                      /\ response.handler = config[response.location]
                      /\ \A l \in DOMAIN config :
                            Below(l, target) =>
                              Len(Slashed(l)) <= Len(Slashed(response.location))
    BY DEF LongestMatch
  <1>1. target \in Path
    BY PathsAssumption DEF LoopInv, Path
  <1>2. \A l \in DOMAIN config : Below(l, target) <=> Matches(l, target)
    BY <1>1, ConfigPaths, MatchesIsBelow DEF LoopInv
  <1> QED BY <1>2 DEF LoopInv, Longest, Chosen

\* Whatever the configuration, a valid request that lies below a location is
\* answered by the handler of the longest such location.
THEOREM LongestMatchTheorem == Spec => []LongestMatch
  BY LoopInit, LoopStep, LoopInvImpliesLongestMatch, PTL DEF Spec

THEOREM TypeCorrect == Spec => []TypeOK
  <1>1. LoopInv => TypeOK
    BY DEF LoopInv
  <1> QED BY <1>1, LoopInit, LoopStep, PTL DEF Spec

-----------------------------------------------------------------------------
(* The types of files.                                                     *)

\* A loop that runs down over numbers finds the greatest it looks for.
LEMMA Greatest ==
    ASSUME NEW n \in Nat, NEW S \in SUBSET (1 .. n), S # {}
    PROVE  \E m \in S : \A k \in S : m >= k
  <1> DEFINE T == {n - m : m \in S}
             Less == {p \in Nat \X Nat : p[1] < p[2]}
  <1>1. T \subseteq Nat /\ T # {}
    <2>1. \A m \in S : n - m \in Nat
      OBVIOUS
    <2> QED BY <2>1
  <1>2. \A x, y \in Nat : x < y => <<x, y>> \in Less
    OBVIOUS
  <1>3. PICK x \in T : \A y \in T : ~ (<<y, x>> \in Less)
    <2>1. IsWellFoundedOn(Less, Nat)
      BY NatLessThanWellFounded, Zenon DEF OpToRel
    <2> HIDE DEF T, Less
    <2> QED BY <1>1, <2>1, WFMin
  <1>4. PICK m \in S : x = n - m
    BY <1>3
  <1>5. ASSUME NEW k \in S PROVE m >= k
    <2>1. n - k \in T /\ n - k \in Nat /\ n - m \in Nat
      OBVIOUS
    <2> HIDE DEF Less
    <2>2. ~ (<<n - k, n - m>> \in Less)
      BY <1>3, <1>4, <2>1
    <2>3. ~ (n - k < n - m)
      BY <1>2, <2>1, <2>2
    <2>4. m \in Int /\ k \in Int
      OBVIOUS
    <2> HIDE DEF T
    <2> QED BY <2>3, <2>4
  <1> QED BY <1>5

Dots(path) == {i \in 1 .. Len(path) - 1 : path[i] = "."}

\* The loop stops at the last dot that is not the last character.
LEMMA LastDotFound ==
    ASSUME NEW path \in Seq(Chars), path # <<>>
    PROVE  /\ Dots(path) = {} => LastDot(path) = 0
           /\ Dots(path) # {} => /\ LastDot(path) \in Dots(path)
                                 /\ \A d \in Dots(path) : d <= LastDot(path)
  <1>1. CASE Dots(path) = {}
    BY <1>1 DEF Dots, LastDot
  <1>2. CASE Dots(path) # {}
    <2>1. Len(path) - 1 \in Nat
      OBVIOUS
    <2>2. Dots(path) \in SUBSET (1 .. Len(path) - 1)
      BY DEF Dots
    <2>3. \E m \in Dots(path) : \A k \in Dots(path) : m >= k
      BY <1>2, <2>1, <2>2, Greatest
    <2>4. LastDot(path) = CHOOSE m \in Dots(path) : \A k \in Dots(path) : m >= k
      BY <1>2 DEF Dots, LastDot
    <2> HIDE DEF Dots
    <2>5. /\ LastDot(path) \in Dots(path)
          /\ \A k \in Dots(path) : LastDot(path) >= k
      BY <2>3, <2>4
    <2>6. \A k \in Dots(path) : k \in Nat
      BY DEF Dots
    <2> QED BY <1>2, <2>5, <2>6
  <1> QED BY <1>1, <1>2

\* get_content_type gives a path the type of the extension it ends in, and
\* none other.
LEMMA TypeOfName ==
    ASSUME NEW path \in Seq(Chars), path # <<>>,
           Len(path) = 1 => path[1] \notin DOMAIN ContentTypes
    PROVE  {get_content_type(path)} = IF TypesOf(path) = {} THEN {Binary}
                                      ELSE TypesOf(path)
  <1> DEFINE d == LastDot(path)
             n == Len(path)
             ext == SubSeq(path, d + 1, n)
  <1>1. n \in Nat \ {0} /\ d \in 0 .. n - 1
    BY LastDotFound DEF Dots
  <1>2. ext \in Seq(Chars) /\ Len(ext) = n - d /\ ext[1] = path[d + 1]
    BY <1>1
  <1>3. get_content_type(path) = file_extension_to_content_type(ext)
    BY DEF get_content_type
  <1> HIDE DEF ext
  <1>4. \A e : ext = <<e>> <=> Len(ext) = 1 /\ ext[1] = e
    BY <1>2
  <1>5. CASE n > 1 /\ path[n - 1] = "."
    <2>1. n - 1 \in Dots(path)
      BY <1>1, <1>5 DEF Dots
    <2>2. d = n - 1
      BY <1>1, <2>1, LastDotFound
    <2>3. \A e : ext = <<e>> <=> path[n] = e
      BY <1>1, <1>2, <1>4, <2>2
    <2>4. TypesOf(path) = {ContentTypes[e] : e \in {x \in DOMAIN ContentTypes : path[n] = x}}
      BY <1>5 DEF TypesOf
    <2>5. CASE path[n] \in DOMAIN ContentTypes
      <3>1. TypesOf(path) = {ContentTypes[path[n]]}
        BY <2>4, <2>5
      <3>2. file_extension_to_content_type(ext) = ContentTypes[path[n]]
        BY <1>2, <2>2, <2>3, <2>5, <1>1 DEF file_extension_to_content_type
      <3> QED BY <1>3, <3>1, <3>2
    <2>6. CASE path[n] \notin DOMAIN ContentTypes
      <3>1. TypesOf(path) = {}
        BY <2>4, <2>6
      <3>2. file_extension_to_content_type(ext) = Binary
        BY <2>3, <2>6 DEF file_extension_to_content_type
      <3> QED BY <1>3, <3>1, <3>2
    <2> QED BY <2>5, <2>6
  <1>6. CASE ~ (n > 1 /\ path[n - 1] = ".")
    <2>1. TypesOf(path) = {}
      BY <1>6 DEF TypesOf
    <2>2. n > 1 => d # n - 1
      BY <1>1, <1>6, LastDotFound DEF Dots
    <2>3. \A e \in DOMAIN ContentTypes : ext # <<e>>
      <3>1. CASE n = 1
        BY <1>1, <1>2, <1>4, <3>1
      <3>2. CASE n > 1
        BY <1>1, <1>2, <1>4, <2>2, <3>2
      <3> QED BY <1>1, <3>1, <3>2
    <2>4. file_extension_to_content_type(ext) = Binary
      BY <2>3 DEF file_extension_to_content_type
    <2> QED BY <1>3, <2>1, <2>4
  <1> QED BY <1>5, <1>6

-----------------------------------------------------------------------------
(* The answers.                                                            *)

\* The answer is the one of the handler the dispatcher has called.
AnswerInv ==
    /\ LoopInv
    /\ pc # "done" => response.status = 0
    /\ response.status = 0 => answer = NoAnswer
    /\ response.status = 400 => answer.status = 400
    /\ response.status = 200 =>
           /\ answer = HandlerAnswer(response.handler, response.location)
           /\ ~ Throws(response.handler, response.location)
    /\ pc = "crashed" => factory = Uninitialised \/ Throws(factory, best)

LEMMA AnswerInit == InitHandlers => AnswerInv
  BY LoopInit DEF InitHandlers, Init, AnswerInv, NoResponse

LEMMA AnswerStep == AnswerInv /\ [NextHandlers]_<<vars, answer>> => AnswerInv'
  <1> SUFFICES ASSUME AnswerInv, [NextHandlers]_<<vars, answer>> PROVE AnswerInv'
    OBVIOUS
  <1>1. LoopInv'
    BY LoopStep DEF AnswerInv, NextHandlers, HandleRequest, Next
  <1>2. CASE UNCHANGED <<vars, answer>>
    BY <1>1, <1>2 DEF AnswerInv, vars, HandlerAnswer, FileAnswer, Throws
  <1>3. CASE HandleRequest
    <2>1. CASE pc' = "crashed"
      <3>1. response' = response /\ answer' = NoAnswer
        BY <1>3, <2>1 DEF HandleRequest, Call, CallUninitialised, Answer, Crash
      <3>2. response.status = 0
        <4>1. pc = "match"
          BY <1>3 DEF HandleRequest, Call, CallUninitialised
        <4> QED BY <4>1 DEF AnswerInv
      <3>3. factory = Uninitialised \/ Throws(factory, best)
        BY <1>3, <2>1 DEF HandleRequest
      <3>4. UNCHANGED <<factory, best, target>>
        BY <1>3, <2>1 DEF HandleRequest, Call, CallUninitialised, Answer, Crash
      <3>5. factory' = Uninitialised \/ Throws(factory, best)'
        BY <3>3, <3>4 DEF Throws
      <3> QED BY <1>1, <2>1, <3>1, <3>2, <3>5 DEF AnswerInv
    <2>2. CASE pc' = "done"
      <3>1. /\ response'.status = 200 /\ response'.location = best
            /\ UNCHANGED <<target, best>>
        BY <1>3, <2>2 DEF HandleRequest, Call, CallUninitialised, Answer, Crash
      <3>2. /\ answer' = HandlerAnswer(response'.handler, best)
            /\ ~ Throws(response'.handler, best)
        BY <1>3, <2>2 DEF HandleRequest
      <3>3. /\ answer' = HandlerAnswer(response.handler, response.location)'
            /\ ~ Throws(response.handler, response.location)'
        BY <3>1, <3>2 DEF HandlerAnswer, FileAnswer, Throws
      <3> QED BY <1>1, <2>2, <3>1, <3>3 DEF AnswerInv
    <2> QED BY <1>3, <2>1, <2>2 DEF HandleRequest
  <1>4. CASE Reject /\ answer' = Text(400, <<"400 Bad Request">>)
    <2>1. pc' = "done" /\ response'.status = 400 /\ answer'.status = 400
      BY <1>4 DEF Reject, BadRequest, Text
    <2> QED BY <1>1, <2>1 DEF AnswerInv
  <1>5. CASE Finish /\ answer' = NoAnswer
    BY <1>1, <1>5 DEF Finish, NoResponse, AnswerInv
  <1>6. CASE (Accept \/ \E l \in todo : Skip(l) \/ Take(l) \/ Exit(l)) /\ UNCHANGED answer
    <2>1. /\ pc \in {"idle", "match"} /\ response' = response
          /\ pc' \in {"match", "exited"}
      BY <1>6 DEF Accept, Skip, Take, Exit
    <2>2. response.status # 200
      BY <2>1 DEF AnswerInv, LoopInv
    <2> QED BY <1>1, <1>6, <2>1, <2>2 DEF AnswerInv
  <1> QED BY <1>2, <1>3, <1>4, <1>5, <1>6 DEF NextHandlers

\* Two locations of a configuration that a target lies below are one if they
\* are equally long.
LEMMA OneLongest ==
    ASSUME TypeOK, target \in Targets, NEW l \in DOMAIN config, NEW m \in DOMAIN config,
           Below(l, target), Below(m, target), Len(Slashed(l)) = Len(Slashed(m))
    PROVE  l = m
  <1>1. target \in Path /\ l \in Path /\ m \in Path
    BY ConfigPaths, PathsAssumption DEF Path
  <1>2. Matches(l, target) /\ Matches(m, target)
    BY <1>1, MatchesIsBelow
  <1>3. Slashed(l) = Slashed(m)
    BY <1>2 DEF Matches, Begins
  <1> QED BY <1>3 DEF TypeOK, Configs

\* No location that matches is longer than the longest, and it is that one.
LEMMA LongestIsOne ==
    ASSUME LoopInv, target \in Targets, NEW l \in DOMAIN config, LongestBelow(l),
           NEW m \in DOMAIN config, Matches(m, target), Len(Slashed(l)) <= Len(Slashed(m))
    PROVE  m = l
  <1>1. target \in Path /\ l \in Path /\ m \in Path
    BY ConfigPaths, PathsAssumption DEF LoopInv, Path
  <1>2. Below(m, target)
    BY <1>1, MatchesIsBelow
  <1>3. Len(Slashed(m)) <= Len(Slashed(l))
    BY <1>2 DEF LongestBelow
  <1>4. Len(Slashed(l)) \in Nat /\ Len(Slashed(m)) \in Nat
    BY <1>1, SlashedIsSeq
  <1> QED BY <1>2, <1>3, <1>4, OneLongest DEF LoopInv, LongestBelow

\* A file below a location of the file handler is answered with that file from
\* the root of the longest such location, and with the type of its extension,
\* and a path where no file is with 404; one that the file system cannot look up
\* ends the process, whatever the configuration, the roots and the files
\* (request_dispatcher.cc:59-88, file_request_handler.cc:20-72).
THEOREM FilesAreServedTheorem == SpecHandlers => []FilesAreServed
  <1>1. AnswerInv => FilesAreServed
    <2> SUFFICES ASSUME AnswerInv, NEW l \in DOMAIN config,
                        pc = "crashed" \/ answer.status \notin {0, 400},
                        config[l] = "FileRequestHandler", LongestBelow(l)
                 PROVE  LET path == Roots[l] \o target
                        IN  /\ pc = "crashed" <=> path \in Faults
                            /\ path \in Files =>
                                  /\ answer.status = 200 /\ answer.body = path
                                  /\ {answer.type} = IF TypesOf(path) = {} THEN {Binary}
                                                     ELSE TypesOf(path)
                            /\ path \notin Files \cup Faults =>
                                  answer = Text(404, <<"404 Not Found">>)
      BY DEF FilesAreServed
    <2> DEFINE path == Roots[l] \o target
    <2>1. TypeOK /\ target \in Targets /\ (pc = "crashed" \/ response.status = 200)
      <3>1. response.status \in {0, 200, 400}
        BY DEF AnswerInv, LoopInv, TypeOK
      <3>2. response.status = 0 => answer.status = 0
        <4>1. NoAnswer.status = 0
          BY DEF NoAnswer
        <4> QED BY <4>1 DEF AnswerInv
      <3>3. response.status = 400 => answer.status = 400
        BY DEF AnswerInv
      <3> QED BY <3>1, <3>2, <3>3 DEF AnswerInv, LoopInv
    <2>2. target \in Path /\ l \in Path /\ l # <<>>
      BY <2>1, ConfigPaths, PathsAssumption DEF Path
    <2>3. Matches(l, target)
      BY <2>2, MatchesIsBelow DEF LongestBelow
    <2>4. CASE pc = "crashed"
      <3>1. Chosen /\ best # <<>> /\ Len(Slashed(l)) <= Len(Slashed(best))
        BY <2>3, <2>4 DEF AnswerInv, LoopInv, Longest
      <3>2. best \in DOMAIN config /\ Matches(best, target) /\ factory = config[best]
        BY <3>1 DEF Chosen
      <3>3. best = l
        BY <2>1, <2>2, <3>1, <3>2, LongestIsOne DEF AnswerInv
      <3>4. Throws("FileRequestHandler", l)
        <4>1. factory = Uninitialised \/ Throws(factory, best)
          BY <2>4 DEF AnswerInv
        <4>2. config[l] # Uninitialised
          BY <2>1, HandlersAssumption DEF TypeOK, Configs
        <4> QED BY <3>2, <3>3, <4>1, <4>2
      <3>5. path \in Faults
        BY <2>2, <3>4 DEF Throws, Root
      <3> HIDE DEF path
      <3>6. path \notin Files
        BY <3>5, FaultsAssumption
      <3> QED BY <2>4, <3>5, <3>6 DEF path
    <2>5. CASE response.status = 200
      <3>1. /\ response.location = l /\ response.handler = "FileRequestHandler"
        <4>1. LongestMatch
          BY LoopInvImpliesLongestMatch DEF AnswerInv
        <4>2. /\ response.location \in DOMAIN config
              /\ Below(response.location, target)
              /\ response.handler = config[response.location]
              /\ Len(Slashed(l)) <= Len(Slashed(response.location))
          BY <2>5, <4>1 DEF LongestMatch, LongestBelow
        <4>3. response.location \in Path /\ Matches(response.location, target)
          BY <2>1, <2>2, <4>2, ConfigPaths, MatchesIsBelow
        <4>4. response.location = l
          BY <2>1, <4>2, <4>3, LongestIsOne DEF AnswerInv
        <4> QED BY <4>2, <4>4
      <3>2. answer = IF path \in Files
                     THEN [status |-> 200, type |-> get_content_type(path), body |-> path]
                     ELSE NotFound
        BY <2>2, <2>5, <3>1 DEF AnswerInv, HandlerAnswer, FileAnswer, Root
      <3>3. path \notin Faults /\ pc # "crashed"
        BY <2>2, <2>5, <3>1 DEF AnswerInv, LoopInv, Throws, Root
      <3>4. path \in Seq(Chars) /\ path # <<>>
            /\ (Len(path) = 1 => path[1] \notin DOMAIN ContentTypes)
        <4>1. Roots[l] \in Seq(Chars)
          BY <2>1, RootsAssumption DEF TypeOK, Configs
        <4>2. /\ path \in Seq(Chars) /\ Len(path) = Len(Roots[l]) + Len(target)
              /\ Len(target) \in Nat \ {0} /\ Len(Roots[l]) \in Nat
          BY <2>2, <4>1 DEF Path
        <4>3. Len(path) = 1 => path[1] = target[1]
          BY <2>2, <4>1, <4>2 DEF Path
        <4>4. target[1] = "/" /\ "/" \notin DOMAIN ContentTypes
          BY <2>1, TargetsAssumption DEF ContentTypes
        <4> HIDE DEF path
        <4> QED BY <4>2, <4>3, <4>4, EmptySeq
      <3>5. {get_content_type(path)} = IF TypesOf(path) = {} THEN {Binary}
                                       ELSE TypesOf(path)
        BY <3>4, TypeOfName
      <3> HIDE DEF path
      <3>6. path \in Files => /\ answer.status = 200 /\ answer.body = path
                              /\ answer.type = get_content_type(path)
        BY <3>2
      <3>7. path \notin Files => answer = Text(404, <<"404 Not Found">>)
        BY <3>2 DEF NotFound
      <3>8. /\ pc = "crashed" <=> path \in Faults
            /\ path \in Files =>
                  /\ answer.status = 200 /\ answer.body = path
                  /\ {answer.type} = IF TypesOf(path) = {} THEN {Binary} ELSE TypesOf(path)
            /\ path \notin Files \cup Faults => answer = Text(404, <<"404 Not Found">>)
        <4>1. path \in Files =>
                 {answer.type} = IF TypesOf(path) = {} THEN {Binary} ELSE TypesOf(path)
          BY <3>5, <3>6
        <4> QED BY <3>3, <3>6, <3>7, <4>1
      <3> QED BY <3>8 DEF path
    <2> QED BY <2>1, <2>4, <2>5
  <1> QED BY <1>1, AnswerInit, AnswerStep, PTL DEF SpecHandlers
=============================================================================
