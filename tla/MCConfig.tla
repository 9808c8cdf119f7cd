------------------------------ MODULE MCConfig ------------------------------
(***************************************************************************)
(* Configuration files: all short texts, and files of a few statements.    *)
(***************************************************************************)
EXTENDS ConfigParser, TLC

UpTo(n, symbols) == UNION {[1 .. k -> symbols] : k \in 0 .. n}

\* Statements and blocks of every shape, balanced and not.
Structures == UpTo(6, {"a", "space", ";", "{", "}"})

\* What quotation marks, comments and the ends of lines do to each other.
Lexemes == UpTo(4, {"a", "space", ";", "#", "quote", "newline", "return"})

\* A statement: words with a space behind each, then its end.
Line(words, end) ==
    FlattenSeq([k \in DOMAIN words |-> <<words[k], "space">>]) \o end

Braces(content) == <<"{">> \o content \o <<"}">>

Good == {Line(<<"port", "8080">>, <<";">>),
         Line(<<"location", "/", "Echo">>, Braces(<<>>)),
         Line(<<"location", "/a", "Echo">>, Braces(<<>>)),
         Line(<<"location", "/a/", "File">>, Braces(Line(<<"root", "p">>, <<";">>))),
         Line(<<"location">>, <<"quote", "/b", "quote", "space", "File", "space">>)
             \o Braces(Line(<<"root", "p", "data_path", "q">>, <<";">>)
                       \o Line(<<"root">>, <<"quote", "q", "quote", ";">>)),
         <<"#", "a", "newline">>}

Slashes == {Line(<<"location", "/c//", "Echo">>, Braces(<<>>))}

Bad == {Line(<<"port", "70000">>, <<";">>),
        Line(<<"port", "Echo">>, <<";">>),
        Line(<<"location", "/b">>, <<";">>),
        Line(<<"location", "/b", "Echo">>, <<";">>),
        Line(<<"location", "/b", "Echo">>, Braces(Line(<<"root">>, <<";">>))),
        Line(<<"server">>, Braces(Line(<<"port", "8080">>, <<";">>)))}

FilesOf(lines) == {FlattenSeq(ls) : ls \in UpTo(3, lines)}

AllTexts == Structures \cup Lexemes \cup FilesOf(Good \cup Bad \cup Slashes)

SlashTexts == FilesOf(Good \cup Slashes)

PortNumbers == "8080" :> 8080 @@ "70000" :> 70000

NamedPaths == "/" :> [name |-> <<>>, slashes |-> 1]
              @@ "/a/" :> [name |-> <<"/a">>, slashes |-> 1]
              @@ "/c//" :> [name |-> <<"/c">>, slashes |-> 2]
=============================================================================
