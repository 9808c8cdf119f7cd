---------------------------- MODULE ConfigParser ----------------------------
(***************************************************************************)
(* NginxConfigParser: how the server reads its configuration at the start. *)
(*                                                                         *)
(* parse_token reads symbols and yields tokens, parse puts the tokens into *)
(* a tree of statements and blocks, get_server_settings_inner walks over   *)
(* the statements of the tree's root and fills in the port, the handlers   *)
(* and the directives of the locations.                                    *)
(*                                                                         *)
(* A text is a sequence of symbols: a special character, or a run of       *)
(* ordinary ones, which is one symbol.  The value of a token is a sequence *)
(* of symbols.  Either quotation mark is "quote".  The tree is a sequence  *)
(* of statements in the order they begin; block k is the child block of    *)
(* statement k, block 0 the root.                                          *)
(***************************************************************************)
EXTENDS Integers, FiniteSets, SequencesExt

CONSTANTS
    Texts,      \* the configuration files
    Numbers,    \* Numbers[w]: the number that std::stoi reads at the start of w
    Paths       \* Paths[w]: the name and the number of slashes behind it

ASSUME TextsAssumption == Texts \subseteq Seq(STRING)

ASSUME NumbersAssumption == \A w \in DOMAIN Numbers : Numbers[w] \in Int

ASSUME PathsAssumption == \A w \in DOMAIN Paths : Paths[w].slashes \in Nat

Blanks == {"space", "newline", "return"}
Delimiters == {";", "{", "}"}

\* What an ordinary character is followed by when the word is over.  A carriage
\* return is not among them.
EndsWord(c) == c \in {"space", "newline"} \cup Delimiters

TokenTypes == {"none", "start", "normal", "start_block", "end_block", "comment",
               "statement_end", "eof", "error"}

DelimiterType(c) ==
    IF c = "{" THEN "start_block" ELSE IF c = "}" THEN "end_block" ELSE "statement_end"

Values == Seq(STRING)

NoToken == [type |-> "none", value |-> <<>>]

Ends == {"serving", "failed", "undefined"}

VARIABLES
    text,        \* the file
    pos,         \* the next symbol to read
    lex,         \* state of parse_token
    value,       \* what parse_token has of the token
    token,       \* the token parse is to look at
    last,        \* last_token_type
    stack,       \* config_stack, blocks
    indent,      \* indent_count
    statements,  \* the tree: [tokens, block, child]
    pc,          \* "parse", "settings", "loops" or one of Ends
    i, j,        \* the statement and the token get_server_settings_inner is at
    port,        \* port_num
    seen,        \* seen_locations
    handlers,    \* location_to_handler
    directives,  \* location_to_directives
    read         \* history: the values of the tokens that parse has taken

lexer == <<pos, lex, value, token>>
tree == <<last, stack, indent, statements, read>>
settings == <<i, j, port, seen, handlers, directives>>
vars == <<text, lexer, tree, pc, settings>>

EmptyMap == [x \in {} |-> x]

\* Mutant: each location gets a map of its own.
AssignAlone(f, key, v) == [x \in {key} |-> v]

\* The map f after f[key] = v.
Assign(f, key, v) == [x \in DOMAIN f \cup {key} |-> IF x = key THEN v ELSE f[x]]

Init ==
    /\ text \in Texts
    /\ pos = 1 /\ lex = "whitespace" /\ value = <<>> /\ token = NoToken
    /\ last = "start" /\ stack = <<0>> /\ indent = 0
    /\ statements = <<>> /\ read = <<>>
    /\ pc = "parse"
    /\ i = 1 /\ j = 1 /\ port = -1 /\ seen = {}
    /\ handlers = EmptyMap /\ directives = EmptyMap

-----------------------------------------------------------------------------
(* parse_token.                                                            *)

Reads(state) == pc = "parse" /\ token = NoToken /\ pos <= Len(text) /\ lex = state

Symbol == text[pos]

\* The token is complete; the next one begins in the initial state.
Yield(type, v) ==
    /\ token' = [type |-> type, value |-> v]
    /\ lex' = "whitespace" /\ value' = <<>>

GoOn(state, v) == lex' = state /\ value' = v /\ UNCHANGED token

Advance == pos' = pos + 1

InitialWhitespace ==
    /\ Reads("whitespace")
    /\ Advance
    /\ \/ Symbol \in Delimiters /\ Yield(DelimiterType(Symbol), <<Symbol>>)
       \/ Symbol \in Blanks /\ GoOn("whitespace", value)
       \/ Symbol = "#" /\ GoOn("comment", <<Symbol>>)
       \/ Symbol = "quote" /\ GoOn("quote", <<Symbol>>)
       \/ /\ Symbol \notin Delimiters \cup Blanks \cup {"#", "quote"}
          /\ GoOn("normal", Append(value, Symbol))
    /\ UNCHANGED <<text, tree, pc, settings>>

Quote ==
    /\ Reads("quote")
    /\ Advance
    /\ LET v == Append(value, Symbol)
       IN  IF Symbol = "quote" THEN Yield("normal", v) ELSE GoOn("quote", v)
    /\ UNCHANGED <<text, tree, pc, settings>>

Comment ==
    /\ Reads("comment")
    /\ Advance
    /\ IF Symbol \in {"newline", "return"}
       THEN Yield("comment", value)
       ELSE GoOn("comment", Append(value, Symbol))
    /\ UNCHANGED <<text, tree, pc, settings>>

\* The symbol behind a word is put back.
Normal ==
    /\ Reads("normal")
    /\ IF EndsWord(Symbol)
       THEN Yield("normal", value) /\ UNCHANGED pos
       ELSE GoOn("normal", Append(value, Symbol)) /\ Advance
    /\ UNCHANGED <<text, tree, pc, settings>>

\* A comment or a word that the file ends in is not a token: it is dropped.
EndOfFile ==
    /\ pc = "parse" /\ token = NoToken /\ pos > Len(text)
    /\ Yield(IF lex = "quote" THEN "error" ELSE "eof", <<>>)
    /\ UNCHANGED <<text, pos, tree, pc, settings>>

-----------------------------------------------------------------------------
(* parse.                                                                  *)

Takes(type) == pc = "parse" /\ token.type = type

Shift ==
    /\ last' = token.type
    /\ read' = Append(read, token.value)
    /\ token' = NoToken
    /\ UNCHANGED <<text, pos, lex, value, pc, settings>>

Stop(end) ==
    /\ pc' = end
    /\ token' = NoToken
    /\ UNCHANGED <<text, pos, lex, value, tree, settings>>

SkipComment ==
    /\ Takes("comment")
    /\ token' = NoToken
    /\ UNCHANGED <<text, pos, lex, value, tree, pc, settings>>

InBlock(b) == {k \in DOMAIN statements : statements[k].block = b}

\* statements_.back() of a block.
Back(b) == CHOOSE k \in InBlock(b) : \A l \in InBlock(b) : l <= k

Statement(tokens, block, child) == [tokens |-> tokens, block |-> block, child |-> child]

\* A word begins a statement of the innermost block or goes on with it.
Word ==
    /\ Takes("normal") /\ stack # <<>>
    /\ LET top == Last(stack)
       IN  statements' =
             IF last = "normal"
             THEN [statements EXCEPT ![Back(top)] =
                      Statement(Append(@.tokens, token.value), @.block, @.child)]
             ELSE Append(statements, Statement(<<token.value>>, top, FALSE))
    /\ Shift
    /\ UNCHANGED <<stack, indent>>

StatementEnd ==
    /\ Takes("statement_end") /\ last = "normal"
    /\ Shift
    /\ UNCHANGED <<stack, indent, statements>>

StartBlock ==
    /\ Takes("start_block") /\ last = "normal"
    /\ LET k == Back(Last(stack))
       IN  /\ statements' = [statements EXCEPT ![k] = Statement(@.tokens, @.block, TRUE)]
           /\ stack' = Append(stack, k)
    /\ indent' = indent + 1
    /\ Shift

EndsBlock == last \in {"statement_end", "start_block", "end_block"}

\* Mutant: the block is left, but config_stack is not popped.
KeepStack(s) == s

\* config_stack.pop().
Pop(s) == Front(s)

\* Nothing keeps the root from being popped.
EndBlock ==
    /\ Takes("end_block") /\ EndsBlock /\ stack # <<>>
    /\ stack' = Pop(stack)
    /\ indent' = indent - 1
    /\ Shift
    /\ UNCHANGED statements

\* top or pop of an empty stack.
BelowRoot ==
    /\ stack = <<>>
    /\ \/ Takes("normal")
       \/ Takes("end_block") /\ EndsBlock
    /\ Stop("undefined")

BadTransition ==
    /\ \/ Takes("error")
       \/ Takes("statement_end") /\ last # "normal"
       \/ Takes("start_block") /\ last # "normal"
       \/ Takes("end_block") /\ ~ EndsBlock
       \/ Takes("eof") /\ \/ last \notin {"statement_end", "end_block", "start"}
                          \/ indent # 0
    /\ Stop("failed")

Parsed ==
    /\ Takes("eof") /\ last \in {"statement_end", "end_block", "start"}
    /\ indent = 0
    /\ Stop("settings")

-----------------------------------------------------------------------------
(* get_server_settings_inner.                                              *)

Tokens == statements[i].tokens

\* The root's statements, each token but its last.
AtKeyword(word) ==
    /\ pc = "settings" /\ i <= Len(statements)
    /\ statements[i].block = 0
    /\ j < Len(Tokens) /\ Tokens[j] = <<word>>

NextToken ==
    IF statements[i].block = 0 /\ j < Len(Tokens)
    THEN j' = j + 1 /\ UNCHANGED i
    ELSE i' = i + 1 /\ j' = 1

\* Without the quotation marks.
Unquote(v) == IF v[1] = "quote" THEN SubSeq(v, 2, Len(v) - 1) ELSE v

Path(v) ==
    IF Len(v) = 1 /\ v[1] \in DOMAIN Paths THEN Paths[v[1]]
    ELSE [name |-> v, slashes |-> 0]

Skip ==
    /\ pc = "settings" /\ i <= Len(statements)
    /\ ~ AtKeyword("port") /\ ~ AtKeyword("location")
    /\ NextToken
    /\ UNCHANGED <<text, lexer, tree, pc, port, seen, handlers, directives>>

Port ==
    /\ AtKeyword("port")
    /\ Tokens[j + 1][1] \in DOMAIN Numbers
    /\ port' = Numbers[Tokens[j + 1][1]]
    /\ NextToken
    /\ UNCHANGED <<text, lexer, tree, pc, seen, handlers, directives>>

\* std::stoi throws invalid_argument and main ends.
PortThrows ==
    /\ AtKeyword("port")
    /\ Tokens[j + 1][1] \notin DOMAIN Numbers
    /\ Stop("failed")

\* Mutant: a directive may have any number of parameters, the last one counts.
LastParameter(map, ts) == Assign(map, ts[1], Unquote(Last(ts)))

\* A statement of a block: one parameter for every directive, any number of
\* directives.
SetDirectives(map, ts) ==
    LET After[m \in 0 .. Len(ts) \div 2] ==
            IF m = 0 THEN map
            ELSE Assign(After[m - 1], ts[2 * m - 1], Unquote(ts[2 * m]))
    IN  After[Len(ts) \div 2]

\* The statements of a block, one after the other.
DirectivesOf(b) ==
    LET After[k \in 0 .. Len(statements)] ==
            IF k = 0 THEN EmptyMap
            ELSE IF statements[k].block = b
                 THEN SetDirectives(After[k - 1], statements[k].tokens)
                 ELSE After[k - 1]
    IN  After[Len(statements)]

\* hasKey takes all slashes off.
IsDuplicate(location) == Path(location).name \in seen

\* tokens[j + 2], *child_block_ and loc_tokens[m + 1] are there.
WellFormedLocation ==
    /\ j + 2 <= Len(Tokens)
    /\ statements[i].child
    /\ \A k \in InBlock(i) : Len(statements[k].tokens) % 2 = 0

\* Mutant: the location is remembered with the slashes it has.
RememberAsIs(location) == IF Path(location).slashes = 0 THEN {Path(location).name}
                                                        ELSE {}

Remember(location) == {Path(location).name}

Location ==
    LET location == Unquote(Tokens[j + 1])
        set == DirectivesOf(i)
    IN  /\ AtKeyword("location") /\ WellFormedLocation
        /\ ~ IsDuplicate(location)
        /\ Path(location).slashes <= 1
        /\ handlers' = Assign(handlers, location, Tokens[j + 2])
        /\ directives' = IF DOMAIN set = {} THEN directives
                         ELSE Assign(directives, location, set)
        /\ seen' = seen \cup Remember(location)
        /\ NextToken
        /\ UNCHANGED <<text, lexer, tree, pc, port>>

DuplicatePath ==
    /\ AtKeyword("location") /\ j + 2 <= Len(Tokens)
    /\ IsDuplicate(Unquote(Tokens[j + 1]))
    /\ Stop("failed")

\* A vector is read past its end, or a null pointer is followed.
LocationUndefined ==
    /\ AtKeyword("location") /\ ~ WellFormedLocation
    /\ j + 2 <= Len(Tokens) => ~ IsDuplicate(Unquote(Tokens[j + 1]))
    /\ Stop("undefined")

\* remove_slash.substr(0, location.length() - 1) takes off the first slash
\* only: with a second one the loop does not end.
SlashesLoop ==
    LET location == Unquote(Tokens[j + 1])
    IN  /\ AtKeyword("location") /\ WellFormedLocation
        /\ ~ IsDuplicate(location)
        /\ Path(location).slashes > 1
        /\ Stop("loops")

MaxPort == 65353

\* Mutant: any number that fits into the port.
NotTooLarge(n) == n <= MaxPort

ValidPort(n) == n >= 0 /\ n <= MaxPort

Check ==
    /\ pc = "settings" /\ i > Len(statements)
    /\ Stop(IF ValidPort(port) THEN "serving" ELSE "failed")

ParseToken == InitialWhitespace \/ Quote \/ Comment \/ Normal \/ EndOfFile

Parse ==
    \/ SkipComment \/ Word \/ StatementEnd \/ StartBlock \/ EndBlock
    \/ BelowRoot \/ BadTransition \/ Parsed

GetServerSettings ==
    \/ Skip \/ Port \/ PortThrows
    \/ Location \/ DuplicatePath \/ LocationUndefined \/ SlashesLoop
    \/ Check

Next == ParseToken \/ Parse \/ GetServerSettings

Spec == Init /\ [][Next]_vars

\* The program goes on as long as it has something to do.
FairSpec == Spec /\ WF_vars(Next)
-----------------------------------------------------------------------------
(* Properties.                                                             *)

TypeOK ==
    /\ text \in Values /\ pos \in 1 .. Len(text) + 1
    /\ lex \in {"whitespace", "quote", "comment", "normal"}
    /\ value \in Values
    /\ token \in [type : TokenTypes, value : Values]
    /\ last \in TokenTypes
    /\ stack \in Seq(0 .. Len(statements))
    /\ indent = Len(stack) - 1
    /\ statements \in Seq([tokens : Seq(Values), block : 0 .. Len(statements),
                           child : BOOLEAN])
    /\ pc \in {"parse", "settings", "loops"} \cup Ends
    /\ i \in 1 .. Len(statements) + 1 /\ j \in Nat
    /\ pc = "serving" => port \in 0 .. MaxPort
    /\ DOMAIN directives \subseteq DOMAIN handlers

\* NginxConfig::ToString: for every block, what its statements print that are
\* among the last m of the tree.  The statements below another one come behind it.
Lines[m \in 0 .. Len(statements)] ==
    IF m = 0 THEN [b \in 0 .. Len(statements) |-> <<>>]
    ELSE LET k == Len(statements) - m + 1
             s == statements[k]
             rest == Lines[m - 1]
             end == IF s.child THEN << <<"{">> >> \o rest[k] \o << <<"}">> >>
                    ELSE << <<";">> >>
         IN  [rest EXCEPT ![s.block] = s.tokens \o end \o @]

Printed == Lines[Len(statements)][0]

\* When parse returns true the tree, printed, is what was read: every token is
\* in the statement and the block it belongs to, in its order, and what was
\* read is of the form that ToString prints (config_parser.cc:175-256).
ParsedIsPrinted == pc \notin {"parse", "failed", "undefined"} => Printed = read

\* No two locations of a running server differ only in the slashes at their end
\* (config_parser.cc:308-312, 332-338, 363-369).
LocationsAreDistinct ==
    pc = "serving" =>
        \A l, m \in DOMAIN handlers : Path(l).name = Path(m).name => l = m

\* Where the keyword stands in statement k.
Locations(k) ==
    {m \in 1 .. Len(statements[k].tokens) - 1 : statements[k].tokens[m] = <<"location">>}

LocationAt(k, m) == Unquote(statements[k].tokens[m + 1])

\* Every location of the file is in force when the server runs, with the handler
\* that is named behind it (config_parser.cc:301-331).
LocationsAreServed ==
    pc = "serving" =>
        \A k \in InBlock(0) : \A m \in Locations(k) :
            /\ m + 2 <= Len(statements[k].tokens)
            /\ LocationAt(k, m) \in DOMAIN handlers
            /\ handlers[LocationAt(k, m)] = statements[k].tokens[m + 2]

\* Where the directives of block k are: statements and the pairs in them.
Mentions(k) ==
    UNION {{l} \X (1 .. Len(statements[l].tokens) \div 2) : l \in InBlock(k)}

Directive(d) == statements[d[1]].tokens[2 * d[2] - 1]

Parameter(d) == Unquote(statements[d[1]].tokens[2 * d[2]])

HasDirectivesOf(location, k) ==
    LET names == {Directive(d) : d \in Mentions(k)}
    IN  /\ location \in DOMAIN directives <=> names # {}
        /\ names # {} => DOMAIN directives[location] = names
        /\ \A name \in names : \E d \in Mentions(k) :
             Directive(d) = name /\ directives[location][name] = Parameter(d)

\* A location has the directives of its block and no others; one that is given
\* twice has one of its parameters (config_parser.cc:313-331).
DirectivesAreServed ==
    pc = "serving" =>
        \A k \in InBlock(0) : \A m \in Locations(k) :
            HasDirectivesOf(LocationAt(k, m), k)

\* "remove extra slashes for consistency": the server comes up or says that the
\* configuration is wrong, however many slashes a location ends with.
StartupEnds == <>(pc \in Ends)
=============================================================================
