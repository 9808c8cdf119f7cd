---------------------------- MODULE MCDispatcher ----------------------------
(***************************************************************************)
(* Paths: directories in directories, names that begin with other names,   *)
(* with and without a slash at the end; roots and names with dots; a name  *)
(* that no directory can have and a directory that may not be searched.    *)
(***************************************************************************)
EXTENDS Handlers

Keys == {<<"/">>, <<"/", "a">>, <<"/", "a", "/">>, <<"/", "a", "b">>,
         <<"/", "a", "/", "b">>, <<"/", "b", "/">>}

Page == <<"/", "a", "/", "b", ".", "html">>
Style == <<"/", "a", ".", "b", ".", "css">>
Source == <<"/", "b", "/", "a", ".", "css", ".", "b">>
Plain == <<"/", "a", "b", "/", "css">>
Hidden == <<"/", "a", "/", ".", "html">>
Unfinished == <<"/", "b", "/", "a", ".", "html", ".">>

Named == {Page, Style, Source, Plain, Hidden, Unfinished}

Paths == {<<"/">>, <<"/", "a">>, <<"/", "a", "/">>, <<"/", "a", "b">>,
          <<"/", "a", "/", "b">>, <<"/", "a", "/", "b", "/">>,
          <<"/", "a", "/", "b", "b">>, <<"/", "a", "b", "/", "b">>,
          <<"/", "/", "a">>, <<"/", "b">>}
         \cup Named

\* A relative root, a parent directory, none.
KeyRoots == [l \in Keys |-> CASE Len(l) = 1 -> <<>>
                              [] Len(l) = 2 -> <<".", "/", "b">>
                              [] OTHER -> <<".", ".">>]

\* Every named file is there below every root but the longest.
StoredFiles == {root \o path : root \in {<<>>, <<".", "/", "b">>}, path \in Named}
               \cup {<<".", ".">> \o Page, <<".", ".">> \o Source}

TooLong == <<"/", "a", "b", "/", "b">>
Locked == <<".", "/", "b", "/", "a", "/", "b", "/">>

FaultyPaths == {KeyRoots[l] \o TooLong : l \in Keys} \cup {Locked}
=============================================================================
