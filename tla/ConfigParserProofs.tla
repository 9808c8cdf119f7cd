------------------------- MODULE ConfigParserProofs -------------------------
(***************************************************************************)
(* Proofs about ConfigParser, for any configuration file.                  *)
(*                                                                         *)
(* TypeInv: the tree has no gaps.  SeenInv, ServedInv, DirectedInv: what   *)
(* the settings hold of the statements that the loop is past.  PrintInv:   *)
(* where the parts of the tree lie in what was read, so that printing the  *)
(* tree gives it back.                                                     *)
(***************************************************************************)
EXTENDS ConfigParser, SequenceTheorems, WellFoundedInduction, TLAPS

-----------------------------------------------------------------------------
(* Sequences and numbers.                                                  *)

LEMMA Tops ==
    ASSUME NEW S, NEW s \in Seq(S), s # <<>>
    PROVE  /\ Pop(s) \in Seq(S) /\ Len(Pop(s)) = Len(s) - 1
           /\ Last(s) \in S
  <1>1. Len(s) \in Nat \ {0} /\ \A n \in 1 .. Len(s) : s[n] \in S
    BY EmptySeq, ElementOfSeq
  <1>2. \A n \in 1 .. Len(s) - 1 : s[n] \in S
    BY <1>1
  <1> DEFINE m == Len(s) - 1
  <1>3. m \in Nat /\ m - 1 + 1 = m /\ \A n \in 1 .. m : s[n] \in S
    BY <1>1, <1>2
  <1> HIDE DEF m
  <1>4. SubSeq(s, 1, m) \in Seq(S) /\ Len(SubSeq(s, 1, m)) = m
    BY <1>3, SubSeqProperties
  <1> QED BY <1>1, <1>4 DEF Pop, Front, Last, m

LEMMA Least ==
    ASSUME NEW T \in SUBSET Nat, T # {}
    PROVE  \E x \in T : \A y \in T : x <= y
  <1> DEFINE Less == {p \in Nat \X Nat : p[1] < p[2]}
  <1>1. IsWellFoundedOn(Less, Nat)
    BY NatLessThanWellFounded, Zenon DEF OpToRel
  <1>2. \A x, y \in Nat : x < y => <<x, y>> \in Less
    OBVIOUS
  <1> HIDE DEF Less
  <1>3. PICK x \in T : \A y \in T : ~ (<<y, x>> \in Less)
    BY <1>1, WFMin
  <1>4. \A y \in T : ~ (y < x)
    BY <1>2, <1>3
  <1> QED BY <1>3, <1>4

\* Some statement of a block is the last.
LEMMA Greatest ==
    ASSUME NEW n \in Nat, NEW S \in SUBSET (1 .. n), S # {}
    PROVE  \E m \in S : \A k \in S : k <= m
  <1> DEFINE T == {n - m : m \in S}
  <1>1. T \in SUBSET Nat /\ T # {}
    <2>1. \A m \in S : n - m \in Nat
      OBVIOUS
    <2> QED BY <2>1
  <1>2. PICK x \in T : \A y \in T : x <= y
    <2> HIDE DEF T
    <2> QED BY <1>1, Least
  <1>3. PICK m \in S : x = n - m
    BY <1>2
  <1>4. \A k \in S : n - m <= n - k
    BY <1>2, <1>3
  <1> QED BY <1>4

\* A set that holds the numbers up to n one after the other.
LEMMA Induction ==
    ASSUME NEW n \in Nat, NEW S, 0 \in S, \A m \in 1 .. n : m - 1 \in S => m \in S
    PROVE  0 .. n \subseteq S
  <1> SUFFICES ASSUME (0 .. n) \ S # {} PROVE FALSE
    OBVIOUS
  <1> DEFINE T == (0 .. n) \ S
  <1>1. T \in SUBSET Nat /\ T # {}
    OBVIOUS
  <1> HIDE DEF T
  <1>2. PICK x \in T : \A y \in T : x <= y
    BY <1>1, Least
  <1>3. x \in 1 .. n /\ x \notin S
    BY <1>2 DEF T
  <1>4. x - 1 \in 0 .. n /\ x - 1 \notin T
    BY <1>2, <1>3
  <1> QED BY <1>3, <1>4 DEF T

\* A function may be defined by what it is at 0 and by a step from each number to
\* the next.
Recurs(f, n, a, g) == f[0] = a /\ \A l \in 1 .. n : f[l] = g[l][f[l - 1]]

LEMMA Recursion ==
    ASSUME NEW n \in Nat, NEW V, NEW a \in V, NEW g \in [1 .. n -> [V -> V]]
    PROVE  \E f \in [0 .. n -> V] : Recurs(f, n, a, g)
  <1> DEFINE UpTo(f, m) == /\ f \in [0 .. m -> V] /\ f[0] = a
                           /\ \A l \in 1 .. m : f[l] = g[l][f[l - 1]]
             S == {m \in 0 .. n : \E f : UpTo(f, m)}
  <1>1. 0 \in S
    <2>1. UpTo([l \in 0 .. 0 |-> a], 0)
      OBVIOUS
    <2> HIDE DEF UpTo
    <2> QED BY <2>1
  <1>2. ASSUME NEW m \in 1 .. n, m - 1 \in S PROVE m \in S
    <2>1. PICK f : UpTo(f, m - 1)
      BY <1>2
    <2> DEFINE h == [l \in 0 .. m |-> IF l = m THEN g[m][f[m - 1]] ELSE f[l]]
    <2>2. f[m - 1] \in V /\ g[m] \in [V -> V]
      BY <2>1
    <2>3. h \in [0 .. m -> V]
      BY <2>1, <2>2
    <2>4. ASSUME NEW l \in 1 .. m PROVE h[l] = g[l][h[l - 1]]
      BY <2>1
    <2>5. UpTo(h, m)
      BY <2>1, <2>3, <2>4
    <2> HIDE DEF UpTo, h
    <2> QED BY <2>5
  <1> HIDE DEF S
  <1>3. 0 .. n \subseteq S
    BY <1>1, <1>2, Induction
  <1>4. n \in S
    BY <1>3
  <1> QED BY <1>4 DEF S, Recurs

LEMMA Singles ==
    ASSUME NEW S, NEW c \in S
    PROVE  <<c>> \in Seq(S) /\ Len(<<c>>) = 1
  <1>1. <<>> \in Seq(S) /\ Len(<<>>) = 0
    BY EmptySeq
  <1>2. Append(<<>>, c) \in Seq(S) /\ Append(<<>>, c) = <<c>>
    BY <1>1
  <1> QED BY <1>2

LEMMA AssignDomain ==
    ASSUME NEW f, NEW key, NEW v
    PROVE  /\ DOMAIN Assign(f, key, v) = DOMAIN f \cup {key}
           /\ Assign(f, key, v)[key] = v
           /\ \A x \in DOMAIN f : x # key => Assign(f, key, v)[x] = f[x]
  BY DEF Assign

-----------------------------------------------------------------------------
(* Type correctness.                                                       *)

Statements(n) == [tokens : Seq(Values), block : 0 .. n, child : BOOLEAN]

LexerInv ==
    /\ text \in Values /\ pos \in 1 .. Len(text) + 1
    /\ lex \in {"whitespace", "quote", "comment", "normal"}
    /\ value \in Values
    /\ token \in [type : TokenTypes, value : Values]

\* While a statement goes on it is the last of the innermost block.
TreeInv ==
    /\ last \in TokenTypes
    /\ stack \in Seq(0 .. Len(statements))
    /\ indent = Len(stack) - 1
    /\ statements \in Seq(Statements(Len(statements)))
    /\ last = "normal" => stack # <<>> /\ InBlock(Last(stack)) # {}

\* There is a port before it is checked.
SettingsInv ==
    /\ pc \in {"parse", "settings", "loops"} \cup Ends
    /\ i \in 1 .. Len(statements) + 1 /\ j \in Nat
    /\ port \in Int
    /\ pc = "serving" => ValidPort(port)
    /\ DOMAIN directives \subseteq DOMAIN handlers

TypeInv == LexerInv /\ TreeInv /\ SettingsInv

USE DEF vars, lexer, tree, settings

LEMMA TypeInit == Init => TypeInv
  <1> SUFFICES ASSUME Init PROVE TypeInv
    OBVIOUS
  <1>1. text \in Values /\ Len(text) \in Nat
    BY TextsAssumption DEF Init, Values
  <1>2. <<>> \in Values /\ Len(<<>>) = 0
    BY EmptySeq DEF Values
  <1>3. /\ stack \in Seq(0 .. 0) /\ Len(stack) = 1
        /\ statements \in Seq(Statements(0)) /\ Len(statements) = 0
    BY EmptySeq DEF Init
  <1>4. LexerInv
    BY <1>1, <1>2 DEF Init, LexerInv, NoToken, TokenTypes
  <1>5. TreeInv
    BY <1>3 DEF Init, TreeInv, TokenTypes
  <1>6. SettingsInv
    BY <1>3 DEF Init, SettingsInv, EmptyMap, Ends
  <1> QED BY <1>4, <1>5, <1>6 DEF TypeInv

-----------------------------------------------------------------------------
(* parse_token.                                                            *)

\* A symbol and a value that goes on with it.
LEMMA Symbols ==
    ASSUME LexerInv, pos <= Len(text)
    PROVE  /\ Symbol \in STRING /\ Append(value, Symbol) \in Values
           /\ <<Symbol>> \in Values /\ <<>> \in Values
           /\ pos \in 1 .. Len(text) + 1 /\ pos + 1 \in 1 .. Len(text) + 1
  <1>1. Len(text) \in Nat /\ pos \in 1 .. Len(text)
    BY DEF LexerInv, Values
  <1>2. Symbol \in STRING
    BY <1>1, ElementOfSeq DEF LexerInv, Values, Symbol
  <1>3. Append(value, Symbol) \in Values
    BY <1>2 DEF LexerInv, Values
  <1>4. <<Symbol>> \in Values /\ <<>> \in Values
    <2>1. <<Symbol>> \in Seq(STRING)
      BY <1>2, Singles
    <2>2. <<>> \in Seq(STRING)
      BY EmptySeq
    <2> QED BY <2>1, <2>2 DEF Values
  <1>5. pos \in 1 .. Len(text) + 1 /\ pos + 1 \in 1 .. Len(text) + 1
    BY <1>1
  <1> QED BY <1>2, <1>3, <1>4, <1>5

LEMMA TokenYielded ==
    ASSUME LexerInv, NEW type \in TokenTypes, NEW v \in Values, Yield(type, v)
    PROVE  /\ lex' \in {"whitespace", "quote", "comment", "normal"} /\ value' \in Values
           /\ token' \in [type : TokenTypes, value : Values]
  <1>1. <<>> \in Values
    BY DEF Values
  <1> QED BY <1>1 DEF Yield

LEMMA TokenGoesOn ==
    ASSUME LexerInv, NEW state \in {"whitespace", "quote", "comment", "normal"},
           NEW v \in Values, GoOn(state, v)
    PROVE  /\ lex' \in {"whitespace", "quote", "comment", "normal"} /\ value' \in Values
           /\ token' \in [type : TokenTypes, value : Values]
  BY DEF GoOn, LexerInv

LEMMA DelimiterTypes ==
    ASSUME NEW c \in Delimiters
    PROVE  DelimiterType(c) \in TokenTypes
  BY DEF Delimiters, DelimiterType, TokenTypes

LEMMA TypeToken ==
    ASSUME TypeInv, ParseToken
    PROVE  TypeInv'
  <1> USE DEF Reads, Advance
  <1>1. /\ UNCHANGED <<text, tree, pc, settings>> /\ LexerInv
    BY DEF ParseToken, InitialWhitespace, Quote, Comment, Normal, EndOfFile, TypeInv
  <1>2. TreeInv' /\ SettingsInv'
    BY <1>1 DEF TypeInv, TreeInv, SettingsInv, InBlock
  <1> DEFINE Rest == /\ lex' \in {"whitespace", "quote", "comment", "normal"}
                     /\ value' \in Values
                     /\ token' \in [type : TokenTypes, value : Values]
  <1>3. value \in Values /\ {"normal", "comment", "eof", "error"} \subseteq TokenTypes
    BY <1>1 DEF LexerInv, TokenTypes
  <1>4. ASSUME pos' \in 1 .. Len(text) + 1, Rest PROVE TypeInv'
    BY <1>1, <1>2, <1>4 DEF LexerInv, TypeInv
  <1> HIDE DEF Rest
  <1>5. CASE InitialWhitespace
    <2>1. pos' = pos + 1 /\ pos <= Len(text)
      BY <1>5 DEF InitialWhitespace
    <2>2. ASSUME Symbol \in Delimiters /\ Yield(DelimiterType(Symbol), <<Symbol>>)
          PROVE  Rest
      BY <1>1, <2>1, <2>2, Symbols, DelimiterTypes, TokenYielded DEF Rest
    <2>3. ASSUME GoOn("whitespace", value)
          PROVE  Rest
      BY <1>1, <1>3, <2>3, TokenGoesOn DEF Rest
    <2>4. ASSUME GoOn("comment", <<Symbol>>)
          PROVE  Rest
      BY <1>1, <2>1, <2>4, Symbols, TokenGoesOn DEF Rest
    <2>5. ASSUME GoOn("quote", <<Symbol>>)
          PROVE  Rest
      BY <1>1, <2>1, <2>5, Symbols, TokenGoesOn DEF Rest
    <2>6. ASSUME GoOn("normal", Append(value, Symbol))
          PROVE  Rest
      BY <1>1, <2>1, <2>6, Symbols, TokenGoesOn DEF Rest
    <2>7. Rest
      BY <1>5, <2>2, <2>3, <2>4, <2>5, <2>6 DEF InitialWhitespace
    <2> QED BY <1>1, <1>4, <2>1, <2>7, Symbols
  <1>6. CASE Quote
    <2>1. pos' = pos + 1 /\ pos <= Len(text)
      BY <1>6 DEF Quote
    <2>2. \/ Yield("normal", Append(value, Symbol))
          \/ GoOn("quote", Append(value, Symbol))
      BY <1>6 DEF Quote
    <2>3. Rest
      BY <1>1, <1>3, <2>1, <2>2, Symbols, TokenYielded, TokenGoesOn DEF Rest
    <2> QED BY <1>1, <1>4, <2>1, <2>3, Symbols
  <1>7. CASE Comment
    <2>1. pos' = pos + 1 /\ pos <= Len(text)
      BY <1>7 DEF Comment
    <2>2. Yield("comment", value) \/ GoOn("comment", Append(value, Symbol))
      BY <1>7 DEF Comment
    <2>3. Rest
      BY <1>1, <1>3, <2>1, <2>2, Symbols, TokenYielded, TokenGoesOn DEF Rest
    <2> QED BY <1>1, <1>4, <2>1, <2>3, Symbols
  <1>8. CASE Normal
    <2>1. pos' \in {pos, pos + 1} /\ pos <= Len(text)
      BY <1>8 DEF Normal
    <2>2. Yield("normal", value) \/ GoOn("normal", Append(value, Symbol))
      BY <1>8 DEF Normal
    <2>3. Rest
      BY <1>1, <1>3, <2>1, <2>2, Symbols, TokenYielded, TokenGoesOn DEF Rest
    <2> QED BY <1>1, <1>4, <2>1, <2>3, Symbols
  <1>9. CASE EndOfFile
    <2>1. pos' = pos /\ pos \in 1 .. Len(text) + 1
      BY <1>1, <1>9 DEF EndOfFile, LexerInv
    <2>2. Yield("error", <<>>) \/ Yield("eof", <<>>)
      BY <1>9 DEF EndOfFile
    <2>3. <<>> \in Values
      BY DEF Values
    <2>4. Rest
      BY <1>1, <1>3, <2>2, <2>3, TokenYielded DEF Rest
    <2> QED BY <1>4, <2>1, <2>4
  <1> QED BY <1>5, <1>6, <1>7, <1>8, <1>9 DEF ParseToken

-----------------------------------------------------------------------------
(* parse.                                                                  *)

\* The statement that goes on is one of the tree.
LEMMA BackIsThere ==
    ASSUME TreeInv, NEW b, InBlock(b) # {}
    PROVE  Back(b) \in InBlock(b) /\ Back(b) \in 1 .. Len(statements)
  <1>1. Len(statements) \in Nat /\ InBlock(b) \subseteq 1 .. Len(statements)
    BY LenProperties DEF TreeInv, InBlock
  <1>2. \E m \in InBlock(b) : \A k \in InBlock(b) : k <= m
    BY <1>1, Greatest
  <1>3. Back(b) \in InBlock(b)
    BY <1>2 DEF Back
  <1> QED BY <1>1, <1>3

\* A token is taken: the lexer goes on, the settings do not change.
LEMMA ShiftKeepsTypes ==
    ASSUME TypeInv, Shift
    PROVE  LexerInv' /\ last' = token.type /\ last' \in TokenTypes
  <1>1. LexerInv
    BY DEF TypeInv
  <1>2. NoToken \in [type : TokenTypes, value : Values]
    BY EmptySeq DEF NoToken, TokenTypes, Values
  <1> QED BY <1>1, <1>2 DEF Shift, LexerInv

LEMMA StopKeepsTypes ==
    ASSUME TypeInv, NEW end \in {"settings", "loops"} \cup Ends, Stop(end),
           end = "serving" => ValidPort(port)
    PROVE  TypeInv'
  <1>1. NoToken \in [type : TokenTypes, value : Values]
    BY EmptySeq DEF NoToken, TokenTypes, Values
  <1>2. LexerInv'
    BY <1>1 DEF TypeInv, LexerInv, Stop
  <1>3. TreeInv'
    BY DEF TypeInv, TreeInv, Stop, InBlock
  <1>4. SettingsInv'
    BY DEF TypeInv, SettingsInv, Stop, ValidPort
  <1> QED BY <1>2, <1>3, <1>4 DEF TypeInv

\* The settings while the tree grows.
LEMMA SettingsKept ==
    ASSUME TypeInv, Shift, Len(statements') \in Nat, Len(statements) <= Len(statements')
    PROVE  SettingsInv'
  <1>1. Len(statements) \in Nat
    BY LenProperties DEF TypeInv, TreeInv
  <1>2. i' \in 1 .. Len(statements') + 1
    BY <1>1 DEF TypeInv, SettingsInv, Shift
  <1> QED BY <1>2 DEF TypeInv, SettingsInv, Shift, ValidPort

\* A statement is replaced by one of the same block.
LEMMA StatementReplaced ==
    ASSUME TreeInv, NEW k \in 1 .. Len(statements), NEW s \in Statements(Len(statements)),
           statements' = [statements EXCEPT ![k] = s], s.block = statements[k].block
    PROVE  /\ Len(statements') = Len(statements)
           /\ statements' \in Seq(Statements(Len(statements)))
           /\ \A b : InBlock(b)' = InBlock(b)
  <1>1. /\ statements \in Seq(Statements(Len(statements)))
        /\ Len(statements) \in Nat /\ DOMAIN statements = 1 .. Len(statements)
    BY LenProperties DEF TreeInv
  <1>2. /\ Len(statements') = Len(statements)
        /\ statements' \in Seq(Statements(Len(statements)))
    BY <1>1, ExceptSeq
  <1>3. DOMAIN statements' = DOMAIN statements
    BY <1>1
  <1>4. \A l \in DOMAIN statements : statements'[l].block = statements[l].block
    BY <1>1
  <1>5. ASSUME NEW b PROVE InBlock(b)' = InBlock(b)
    BY <1>3, <1>4 DEF InBlock
  <1> QED BY <1>2, <1>5

LEMMA TypeWord ==
    ASSUME TypeInv, Word
    PROVE  TypeInv'
  <1> DEFINE n == Len(statements)
             top == Last(stack)
             started == Statement(<<token.value>>, top, FALSE)
  <1>1. /\ Shift /\ stack' = stack /\ indent' = indent /\ stack # <<>>
        /\ last' = token.type
    BY DEF Word, Shift
  <1>2. LexerInv' /\ last' \in TokenTypes /\ TreeInv
    BY <1>1, ShiftKeepsTypes DEF TypeInv
  <1>3. n \in Nat /\ statements \in Seq(Statements(n)) /\ DOMAIN statements = 1 .. n
    BY <1>2, LenProperties DEF TreeInv
  <1>4. stack \in Seq(0 .. n) /\ top \in 0 .. n
    BY <1>1, <1>2, Tops DEF TreeInv
  <1>5. token.value \in Values
    BY DEF TypeInv, LexerInv
  <1> SUFFICES /\ n <= Len(statements') /\ Len(statements') \in Nat
               /\ statements' \in Seq(Statements(Len(statements')))
               /\ stack' \in Seq(0 .. Len(statements'))
               /\ InBlock(Last(stack))' # {}
    BY <1>1, <1>2, SettingsKept DEF TypeInv, TreeInv
  <1>6. CASE last = "normal"
    <2> DEFINE k == Back(top)
               s == Statement(Append(statements[k].tokens, token.value),
                              statements[k].block, statements[k].child)
    <2>1. k \in 1 .. n /\ InBlock(top) # {}
      BY <1>2, <1>6, BackIsThere DEF TreeInv
    <2>2. statements' = [statements EXCEPT ![k] = s]
      BY <1>6 DEF Word
    <2>3. statements[k] \in Statements(n)
      BY <1>3, <2>1, ElementOfSeq
    <2>4. s \in Statements(n) /\ s.block = statements[k].block
      BY <1>5, <2>3 DEF Statement, Statements
    <2> HIDE DEF s, k
    <2>5. /\ Len(statements') = n /\ statements' \in Seq(Statements(n))
          /\ \A b : InBlock(b)' = InBlock(b)
      BY <1>2, <2>1, <2>2, <2>4, StatementReplaced
    <2>6. InBlock(top)' = InBlock(top)
      BY <1>1, <2>5
    <2> QED BY <1>1, <1>3, <1>4, <2>1, <2>5, <2>6
  <1>7. CASE last # "normal"
    <2>1. statements' = Append(statements, started)
      BY <1>7 DEF Word
    <2>2. <<token.value>> \in Seq(Values)
      BY <1>5, Singles
    <2>3. started \in Statements(n + 1) /\ started.block = top
      BY <1>3, <1>4, <2>2 DEF Statements, Statement
    <2>4. Statements(n) \subseteq Statements(n + 1)
      BY <1>3 DEF Statements
    <2> HIDE DEF started
    <2>5. statements \in Seq(Statements(n + 1))
      BY <1>3, <2>4, SeqMonotonic
    <2>6. /\ statements' \in Seq(Statements(n + 1)) /\ Len(statements') = n + 1
          /\ statements'[n + 1] = started /\ DOMAIN statements' = 1 .. n + 1
      BY <1>3, <2>1, <2>3, <2>5, AppendProperties
    <2>7. stack' \in Seq(0 .. n + 1)
      <3>1. 0 .. n \subseteq 0 .. n + 1
        BY <1>3
      <3> QED BY <1>1, <1>4, <3>1, SeqMonotonic
    <2>8. n + 1 \in InBlock(top)'
      BY <1>1, <1>3, <2>3, <2>6 DEF InBlock
    <2> QED BY <1>1, <1>3, <2>6, <2>7, <2>8
  <1> QED BY <1>6, <1>7

LEMMA TypeStartBlock ==
    ASSUME TypeInv, StartBlock
    PROVE  TypeInv'
  <1> DEFINE n == Len(statements)
             k == Back(Last(stack))
             s == Statement(statements[k].tokens, statements[k].block, TRUE)
  <1>1. /\ Shift /\ stack' = Append(stack, k) /\ indent' = indent + 1
        /\ last' = "start_block"
        /\ statements' = [statements EXCEPT ![k] = s]
    BY DEF StartBlock, Shift, Takes
  <1>2. LexerInv' /\ last' \in TokenTypes /\ TreeInv
    BY <1>1, ShiftKeepsTypes DEF TypeInv
  <1>3. n \in Nat /\ statements \in Seq(Statements(n)) /\ DOMAIN statements = 1 .. n
    BY <1>2, LenProperties DEF TreeInv
  <1>4. k \in 1 .. n
    BY <1>2, BackIsThere DEF TreeInv, StartBlock
  <1>5. statements[k] \in Statements(n)
    BY <1>3, <1>4, ElementOfSeq
  <1>6. s \in Statements(n) /\ s.block = statements[k].block
    BY <1>5 DEF Statement, Statements
  <1> HIDE DEF s, k
  <1>7. Len(statements') = n /\ statements' \in Seq(Statements(n))
    BY <1>1, <1>2, <1>4, <1>6, StatementReplaced
  <1>8. k \in 0 .. n /\ stack \in Seq(0 .. n) /\ indent = Len(stack) - 1
    BY <1>2, <1>3, <1>4 DEF TreeInv
  <1>9. stack' \in Seq(0 .. n) /\ indent' = Len(stack') - 1
    BY <1>1, <1>8, AppendProperties, LenProperties
  <1>10. SettingsInv'
    BY <1>1, <1>3, <1>7, SettingsKept
  <1>11. TreeInv'
    BY <1>1, <1>2, <1>7, <1>9 DEF TreeInv
  <1> QED BY <1>2, <1>10, <1>11 DEF TypeInv

LEMMA TypeTree ==
    ASSUME TypeInv, Parse
    PROVE  TypeInv'
  <1>1. TreeInv /\ SettingsInv /\ LexerInv
    BY DEF TypeInv
  <1>2. Len(statements) \in Nat
    BY <1>1, LenProperties DEF TreeInv
  <1>3. CASE SkipComment
    <2>1. NoToken \in [type : TokenTypes, value : Values]
      BY EmptySeq DEF NoToken, TokenTypes, Values
    <2>2. LexerInv'
      BY <1>1, <1>3, <2>1 DEF LexerInv, SkipComment
    <2>3. TreeInv' /\ SettingsInv'
      BY <1>1, <1>3 DEF TreeInv, SettingsInv, SkipComment, InBlock, ValidPort
    <2> QED BY <2>2, <2>3 DEF TypeInv
  <1>4. CASE Word
    BY <1>4, TypeWord
  <1>5. CASE StatementEnd
    <2>1. /\ Shift /\ last' = "statement_end"
          /\ stack' = stack /\ indent' = indent /\ statements' = statements
      BY <1>5 DEF StatementEnd, Shift, Takes
    <2>2. LexerInv' /\ SettingsInv'
      BY <1>2, <2>1, ShiftKeepsTypes, SettingsKept
    <2>3. TreeInv'
      BY <1>1, <2>1 DEF TreeInv, TokenTypes
    <2> QED BY <2>2, <2>3 DEF TypeInv
  <1>6. CASE StartBlock
    BY <1>6, TypeStartBlock
  <1>7. CASE EndBlock
    <2>1. /\ Shift /\ last' = "end_block" /\ stack # <<>>
          /\ stack' = Pop(stack) /\ indent' = indent - 1 /\ statements' = statements
      BY <1>7 DEF EndBlock, Shift, Takes
    <2>2. LexerInv' /\ SettingsInv'
      BY <1>2, <2>1, ShiftKeepsTypes, SettingsKept
    <2>3. stack' \in Seq(0 .. Len(statements)) /\ Len(stack') = Len(stack) - 1
      BY <1>1, <2>1, Tops DEF TreeInv
    <2>4. TreeInv'
      BY <1>1, <2>1, <2>3 DEF TreeInv, TokenTypes
    <2> QED BY <2>2, <2>4 DEF TypeInv
  <1>8. CASE BelowRoot
    <2>1. Stop("undefined")
      BY <1>8 DEF BelowRoot
    <2> QED BY <2>1, StopKeepsTypes DEF Ends
  <1>9. CASE BadTransition
    <2>1. Stop("failed")
      BY <1>9 DEF BadTransition
    <2> QED BY <2>1, StopKeepsTypes DEF Ends
  <1>10. CASE Parsed
    <2>1. Stop("settings")
      BY <1>10 DEF Parsed
    <2> QED BY <2>1, StopKeepsTypes
  <1> QED
    BY <1>3, <1>4, <1>5, <1>6, <1>7, <1>8, <1>9, <1>10 DEF Parse

-----------------------------------------------------------------------------
(* get_server_settings_inner.                                              *)

\* The loop goes on, the statements stay.
LEMMA SettingsGoOn ==
    ASSUME TypeInv, NextToken, pc = "settings", i <= Len(statements),
           UNCHANGED <<text, lexer, tree, pc>>,
           port' \in Int, DOMAIN directives' \subseteq DOMAIN handlers'
    PROVE  TypeInv'
  <1>1. LexerInv' /\ TreeInv'
    BY DEF TypeInv, LexerInv, TreeInv, InBlock
  <1>2. Len(statements) \in Nat /\ statements' = statements
    BY LenProperties DEF TypeInv, TreeInv
  <1>3. i' \in 1 .. Len(statements') + 1 /\ j' \in Nat
    BY <1>2 DEF TypeInv, SettingsInv, NextToken
  <1>4. SettingsInv'
    BY <1>3 DEF TypeInv, SettingsInv
  <1> QED BY <1>1, <1>4 DEF TypeInv

LEMMA TypeSettings ==
    ASSUME TypeInv, GetServerSettings
    PROVE  TypeInv'
  <1>1. port \in Int /\ DOMAIN directives \subseteq DOMAIN handlers
    BY DEF TypeInv, SettingsInv
  <1>2. CASE Skip
    BY <1>1, <1>2, SettingsGoOn DEF Skip
  <1>3. CASE Port
    <2>1. port' \in Int
      BY <1>3, NumbersAssumption DEF Port
    <2> QED BY <1>1, <1>3, <2>1, SettingsGoOn DEF Port, AtKeyword
  <1>4. CASE PortThrows
    BY <1>4, StopKeepsTypes DEF PortThrows, Ends
  <1>5. CASE Location
    <2> DEFINE location == Unquote(Tokens[j + 1])
    <2>1. /\ handlers' = Assign(handlers, location, Tokens[j + 2])
          /\ \/ directives' = directives
             \/ directives' = Assign(directives, location, DirectivesOf(i))
      BY <1>5 DEF Location
    <2>2. DOMAIN directives' \subseteq DOMAIN handlers'
      <3> DEFINE handler == Tokens[j + 2]
                 set == DirectivesOf(i)
      <3> HIDE DEF location, handler, set
      <3>1. handlers' = Assign(handlers, location, handler)
        BY <2>1 DEF handler
      <3>2. directives' = directives \/ directives' = Assign(directives, location, set)
        BY <2>1 DEF set
      <3>3. DOMAIN handlers' = DOMAIN handlers \cup {location}
        BY <3>1, AssignDomain
      <3>4. DOMAIN directives' \subseteq DOMAIN directives \cup {location}
        <4>1. CASE directives' = directives
          BY <4>1
        <4>2. CASE directives' = Assign(directives, location, set)
          <5>1. DOMAIN Assign(directives, location, set) = DOMAIN directives \cup {location}
            BY AssignDomain
          <5> QED BY <4>2, <5>1
        <4> QED BY <3>2, <4>1, <4>2, Zenon
      <3> QED BY <1>1, <3>3, <3>4
    <2>3. port' = port /\ NextToken /\ UNCHANGED <<text, lexer, tree, pc>>
      BY <1>5 DEF Location
    <2>4. pc = "settings" /\ i <= Len(statements)
      BY <1>5 DEF Location, AtKeyword
    <2> QED BY <1>1, <2>2, <2>3, <2>4, SettingsGoOn
  <1>6. CASE DuplicatePath
    BY <1>6, StopKeepsTypes DEF DuplicatePath, Ends
  <1>7. CASE LocationUndefined
    BY <1>7, StopKeepsTypes DEF LocationUndefined, Ends
  <1>8. CASE SlashesLoop
    BY <1>8, StopKeepsTypes DEF SlashesLoop, Ends
  <1>9. CASE Check
    <2>1. \/ Stop("failed")
          \/ ValidPort(port) /\ Stop("serving")
      BY <1>9 DEF Check
    <2> QED BY <2>1, StopKeepsTypes DEF Ends
  <1> QED
    BY <1>2, <1>3, <1>4, <1>5, <1>6, <1>7, <1>8, <1>9 DEF GetServerSettings

LEMMA TypeNext == TypeInv /\ [Next]_vars => TypeInv'
  <1> SUFFICES ASSUME TypeInv, [Next]_vars PROVE TypeInv'
    OBVIOUS
  <1>1. CASE UNCHANGED vars
    <2>1. LexerInv'
      BY <1>1 DEF TypeInv, LexerInv
    <2>2. TreeInv'
      BY <1>1 DEF TypeInv, TreeInv, InBlock
    <2>3. SettingsInv'
      BY <1>1 DEF TypeInv, SettingsInv, ValidPort
    <2> QED BY <2>1, <2>2, <2>3 DEF TypeInv
  <1> QED BY <1>1, TypeToken, TypeTree, TypeSettings DEF Next

LEMMA TypeInvImpliesTypeOK == TypeInv => TypeOK
  <1> SUFFICES ASSUME TypeInv PROVE TypeOK
    OBVIOUS
  <1>1. pc = "serving" => port \in 0 .. MaxPort
    <2>1. MaxPort \in Nat
      BY DEF MaxPort
    <2> QED BY <2>1 DEF TypeInv, SettingsInv, ValidPort
  <1>2. /\ text \in Values /\ pos \in 1 .. Len(text) + 1
        /\ lex \in {"whitespace", "quote", "comment", "normal"}
        /\ value \in Values
        /\ token \in [type : TokenTypes, value : Values]
    BY DEF TypeInv, LexerInv
  <1>3. /\ last \in TokenTypes
        /\ stack \in Seq(0 .. Len(statements))
        /\ indent = Len(stack) - 1
        /\ statements \in Seq(Statements(Len(statements)))
    BY DEF TypeInv, TreeInv
  <1>4. /\ pc \in {"parse", "settings", "loops"} \cup Ends
        /\ i \in 1 .. Len(statements) + 1 /\ j \in Nat
        /\ DOMAIN directives \subseteq DOMAIN handlers
    BY DEF TypeInv, SettingsInv
  <1>5. statements \in Seq([tokens : Seq(Values), block : 0 .. Len(statements),
                            child : BOOLEAN])
    BY <1>3 DEF Statements
  <1> QED BY <1>1, <1>2, <1>3, <1>4, <1>5, Zenon DEF TypeOK

\* Whatever the file holds, what the parser keeps is of its type: the token and
\* the statement it goes on with are there, the blocks that are open are
\* statements of the tree (or the root), indent_count is their number, and a
\* server that serves has a port between 0 and 65353 (config_parser.cc:
\* 175-256, 278-369).
THEOREM TypeCorrect == Spec => []TypeOK
  <1> QED BY TypeInit, TypeNext, TypeInvImpliesTypeOK, PTL DEF Spec

-----------------------------------------------------------------------------
(* The locations.                                                          *)

\* seen_locations holds every location without its slashes.
SeenInv == \A l \in DOMAIN handlers : Path(l).name \in seen

NamedOnce ==
    \A l, m \in DOMAIN handlers : Path(l).name = Path(m).name => l = m

LocationInv == SeenInv /\ NamedOnce

LEMMA LocationInit == Init => LocationInv
  BY DEF Init, EmptyMap, LocationInv, SeenInv, NamedOnce

LEMMA LocationNext == LocationInv /\ [Next]_vars => LocationInv'
  <1> SUFFICES ASSUME LocationInv, [Next]_vars PROVE LocationInv'
    OBVIOUS
  <1>1. ASSUME UNCHANGED <<handlers, seen>> PROVE LocationInv'
    BY <1>1 DEF LocationInv, SeenInv, NamedOnce
  <1>2. CASE Location
    <2> DEFINE location == Unquote(Tokens[j + 1])
    <2>1. /\ handlers' = Assign(handlers, location, Tokens[j + 2])
          /\ seen' = seen \cup {Path(location).name}
          /\ Path(location).name \notin seen
      BY <1>2 DEF Location, Remember, IsDuplicate
    <2> HIDE DEF location
    <2>2. DOMAIN handlers' = DOMAIN handlers \cup {location}
      BY <2>1, AssignDomain
    <2>3. \A l \in DOMAIN handlers : Path(l).name \in seen
      BY DEF LocationInv, SeenInv
    <2>4. SeenInv'
      BY <2>1, <2>2, <2>3 DEF SeenInv
    <2>5. NamedOnce'
      BY <2>1, <2>2, <2>3 DEF LocationInv, NamedOnce
    <2> QED BY <2>4, <2>5 DEF LocationInv
  <1>3. ASSUME ~ Location PROVE UNCHANGED <<handlers, seen>>
    <2>1. CASE ParseToken
      BY <2>1 DEF ParseToken, InitialWhitespace, Quote, Comment, Normal, EndOfFile
    <2>2. CASE Parse
      BY <2>2 DEF Parse, SkipComment, Word, StatementEnd, StartBlock, EndBlock,
                  BelowRoot, BadTransition, Parsed, Shift, Stop
    <2>3. CASE GetServerSettings
      BY <1>3, <2>3 DEF GetServerSettings, Skip, Port, PortThrows, DuplicatePath,
                        LocationUndefined, SlashesLoop, Check, Stop
    <2>4. CASE UNCHANGED vars
      BY <2>4
    <2> QED BY <2>1, <2>2, <2>3, <2>4 DEF Next
  <1> QED BY <1>1, <1>2, <1>3

\* Whatever the file holds, no two locations of a running server differ only in
\* the slashes at their end (config_parser.cc:308-312, 332-338, 363-369).
THEOREM LocationsAreDistinctTheorem == Spec => []LocationsAreDistinct
  <1>1. LocationInv => LocationsAreDistinct
    BY DEF LocationInv, NamedOnce, LocationsAreDistinct
  <1> QED BY <1>1, LocationInit, LocationNext, PTL DEF Spec

-----------------------------------------------------------------------------
(* What is in force.                                                       *)

\* The loop has been at token m of statement k.
Behind(k, m) == k < i \/ (k = i /\ m < j)

InForce(k, m) ==
    /\ m + 2 <= Len(statements[k].tokens)
    /\ LocationAt(k, m) \in DOMAIN handlers
    /\ handlers[LocationAt(k, m)] = statements[k].tokens[m + 2]

ServedInv ==
    /\ TypeInv /\ SeenInv
    /\ pc = "parse" => i = 1 /\ j = 1
    /\ pc = "serving" => i > Len(statements)
    /\ \A k \in InBlock(0) : \A m \in Locations(k) : Behind(k, m) => InForce(k, m)

LEMMA LocationsHavePlaces ==
    ASSUME TypeInv, NEW k \in InBlock(0), NEW m \in Locations(k)
    PROVE  /\ k \in 1 .. Len(statements) /\ Len(statements) \in Nat
           /\ Len(statements[k].tokens) \in Nat /\ i \in Nat /\ j \in Nat
           /\ m \in Nat /\ 1 <= m /\ m < Len(statements[k].tokens)
           /\ statements[k].tokens[m] = <<"location">> /\ statements[k].block = 0
  <1>1. /\ statements \in Seq(Statements(Len(statements)))
        /\ DOMAIN statements = 1 .. Len(statements) /\ Len(statements) \in Nat
    BY LenProperties DEF TypeInv, TreeInv
  <1>2. k \in 1 .. Len(statements) /\ statements[k].block = 0
    BY <1>1 DEF InBlock
  <1>3. statements[k] \in Statements(Len(statements))
    BY <1>1, <1>2, ElementOfSeq
  <1>4. Len(statements[k].tokens) \in Nat
    BY <1>3, LenProperties DEF Statements
  <1>5. i \in Nat /\ j \in Nat
    BY <1>1 DEF TypeInv, SettingsInv
  <1> QED BY <1>1, <1>2, <1>4, <1>5 DEF Locations

LEMMA ServedInit == Init => ServedInv
  <1> SUFFICES ASSUME Init PROVE ServedInv
    OBVIOUS
  <1>1. TypeInv /\ SeenInv
    BY TypeInit, LocationInit DEF LocationInv
  <1>2. InBlock(0) = {}
    BY DEF Init, InBlock
  <1> QED BY <1>1, <1>2 DEF ServedInv, Init

\* What the loop is past it was past before, or it was there.
LEMMA BehindNext ==
    ASSUME TypeInv, NextToken, NEW k \in InBlock(0), NEW m \in Locations(k), Behind(k, m)'
    PROVE  Behind(k, m) \/ (k = i /\ m = j)
  <1> DEFINE n == Len(statements[k].tokens)
  <1>1. /\ k \in 1 .. Len(statements) /\ Len(statements) \in Nat
        /\ n \in Nat /\ i \in Nat /\ j \in Nat /\ m \in Nat /\ 1 <= m /\ m < n
        /\ statements[k].block = 0
    BY LocationsHavePlaces
  <1>2. \/ i' = i /\ j' = j + 1
        \/ i' = i + 1 /\ j' = 1 /\ ~ (statements[i].block = 0 /\ j < Len(statements[i].tokens))
    BY DEF NextToken, Tokens
  <1> QED BY <1>1, <1>2 DEF Behind

\* While the tree grows the loop has not begun.
LEMMA NothingBehind ==
    ASSUME TypeInv', i' = 1, j' = 1, NEW k \in InBlock(0)', NEW m \in Locations(k)'
    PROVE  ~ Behind(k, m)'
  <1>1. statements' \in Seq(Statements(Len(statements'))) /\ Len(statements') \in Nat
    BY LenProperties DEF TypeInv, TreeInv
  <1>2. DOMAIN statements' = 1 .. Len(statements')
    BY <1>1, LenProperties
  <1>3. k \in 1 .. Len(statements')
    BY <1>2 DEF InBlock
  <1>4. m \in Int /\ 1 <= m
    BY DEF Locations
  <1> QED BY <1>1, <1>3, <1>4 DEF Behind

LEMMA ServedNothing ==
    ASSUME TypeInv', SeenInv', i' = 1, j' = 1, pc' # "serving"
    PROVE  ServedInv'
  BY NothingBehind DEF ServedInv

\* The loop has stopped, or nothing has happened.
LEMMA ServedStays ==
    ASSUME ServedInv, TypeInv', UNCHANGED <<statements, i, j, handlers, seen>>,
           pc' # "parse" \/ pc' = pc, pc' = "serving" => i > Len(statements)
    PROVE  ServedInv'
  <1>1. SeenInv'
    BY DEF ServedInv, SeenInv
  <1> QED
    BY <1>1 DEF ServedInv, InBlock, Locations, LocationAt, Behind, InForce

\* The loop goes on from a token that names no location, or from one that is in
\* force now.
LEMMA ServedGoesOn ==
    ASSUME ServedInv, TypeInv', SeenInv', NextToken, pc = "settings", pc' = pc,
           statements' = statements,
           \A l \in DOMAIN handlers : l \in DOMAIN handlers' /\ handlers'[l] = handlers[l],
           \A k \in InBlock(0) : \A m \in Locations(k) :
               k = i /\ m = j => InForce(k, m)'
    PROVE  ServedInv'
  <1>1. ASSUME NEW k \in InBlock(0), NEW m \in Locations(k), Behind(k, m)'
        PROVE  InForce(k, m)'
    <2>1. CASE Behind(k, m)
      <3>1. InForce(k, m)
        BY <2>1 DEF ServedInv
      <3>2. LocationAt(k, m)' = LocationAt(k, m)
        BY DEF LocationAt
      <3> QED BY <3>1, <3>2 DEF InForce
    <2>2. CASE k = i /\ m = j
      BY <2>2
    <2> QED BY <1>1, <2>1, <2>2, BehindNext DEF ServedInv
  <1>2. InBlock(0)' = InBlock(0) /\ \A k : Locations(k)' = Locations(k)
    BY DEF InBlock, Locations
  <1> QED BY <1>1, <1>2 DEF ServedInv

LEMMA ServedNext == ServedInv /\ LocationInv /\ [Next]_vars => ServedInv'
  <1> SUFFICES ASSUME ServedInv, LocationInv, [Next]_vars PROVE ServedInv'
    OBVIOUS
  <1>1. TypeInv /\ TypeInv' /\ SeenInv'
    BY TypeNext, LocationNext DEF ServedInv, LocationInv
  <1>2. CASE UNCHANGED vars
    BY <1>1, <1>2, ServedStays DEF ServedInv
  <1>3. ASSUME NEW end \in {"settings", "loops"} \cup Ends, Stop(end),
               end = "serving" => i > Len(statements)
        PROVE  ServedInv'
    BY <1>1, <1>3, ServedStays DEF Stop, Ends
  <1>4. CASE ParseToken
    <2>1. UNCHANGED <<tree, pc, settings>>
      BY <1>4 DEF ParseToken, InitialWhitespace, Quote, Comment, Normal, EndOfFile
    <2> QED BY <1>1, <2>1, ServedStays DEF ServedInv
  <1>5. CASE Parse
    <2>1. ASSUME Shift PROVE ServedInv'
      <3>1. pc = "parse" => i' = 1 /\ j' = 1 /\ pc' # "serving"
        BY <2>1 DEF Shift, ServedInv
      <3>2. pc = "parse"
        BY <1>5 DEF Parse, SkipComment, Word, StatementEnd, StartBlock, EndBlock,
                    BelowRoot, BadTransition, Parsed, Takes
      <3> QED BY <1>1, <3>1, <3>2, ServedNothing
    <2>2. \/ Shift \/ Stop("undefined") \/ Stop("failed") \/ Stop("settings")
          \/ UNCHANGED <<text, pos, lex, value, tree, pc, settings>>
      BY <1>5 DEF Parse, SkipComment, Word, StatementEnd, StartBlock, EndBlock,
                  BelowRoot, BadTransition, Parsed
    <2>3. CASE UNCHANGED <<text, pos, lex, value, tree, pc, settings>>
      BY <1>1, <2>3, ServedStays DEF ServedInv
    <2> QED BY <1>3, <2>1, <2>2, <2>3 DEF Ends
  <1>6. CASE Skip
    <2>1. /\ NextToken /\ pc = "settings" /\ pc' = pc /\ statements' = statements
          /\ handlers' = handlers /\ i <= Len(statements) /\ ~ AtKeyword("location")
      BY <1>6 DEF Skip
    <2>2. ~ (i \in InBlock(0) /\ j \in Locations(i))
      BY <1>1, <2>1, LocationsHavePlaces DEF AtKeyword, Tokens
    <2> QED BY <1>1, <2>1, <2>2, ServedGoesOn
  <1>7. CASE Port
    <2>1. /\ NextToken /\ pc = "settings" /\ pc' = pc /\ statements' = statements
          /\ handlers' = handlers /\ statements[i].tokens[j] = <<"port">>
      BY <1>7 DEF Port, AtKeyword, Tokens
    <2>2. j \notin Locations(i)
      BY <2>1 DEF Locations
    <2> QED BY <1>1, <2>1, <2>2, ServedGoesOn
  <1>8. CASE Location
    <2> DEFINE location == Unquote(Tokens[j + 1])
    <2>1. /\ NextToken /\ pc = "settings" /\ pc' = pc /\ statements' = statements
          /\ handlers' = Assign(handlers, location, Tokens[j + 2])
          /\ Path(location).name \notin seen
          /\ j + 2 <= Len(Tokens)
      BY <1>8 DEF Location, AtKeyword, IsDuplicate, WellFormedLocation
    <2>2. location = LocationAt(i, j) /\ Tokens = statements[i].tokens
      BY DEF LocationAt, Tokens
    <2> HIDE DEF location
    <2>3. location \notin DOMAIN handlers
      BY <2>1 DEF LocationInv, SeenInv
    <2>4. /\ DOMAIN handlers' = DOMAIN handlers \cup {location}
          /\ handlers'[location] = Tokens[j + 2]
          /\ \A l \in DOMAIN handlers : handlers'[l] = handlers[l]
      <3> DEFINE handler == Tokens[j + 2]
      <3>1. handlers' = Assign(handlers, location, handler)
        BY <2>1
      <3> HIDE DEF handler
      <3>2. /\ DOMAIN handlers' = DOMAIN handlers \cup {location}
            /\ handlers'[location] = handler
            /\ \A l \in DOMAIN handlers : l # location => handlers'[l] = handlers[l]
        BY <3>1 DEF Assign
      <3> QED BY <2>3, <3>2 DEF handler
    <2>5. ASSUME NEW k \in InBlock(0), NEW m \in Locations(k), k = i, m = j
          PROVE  InForce(k, m)'
      <3>1. LocationAt(k, m)' = location
        BY <2>1, <2>2, <2>5 DEF LocationAt
      <3>2. statements'[k].tokens = Tokens
        BY <2>1, <2>2, <2>5
      <3> QED BY <2>1, <2>4, <2>5, <3>1, <3>2 DEF InForce
    <2> QED BY <1>1, <2>1, <2>4, <2>5, ServedGoesOn
  <1>9. CASE PortThrows \/ DuplicatePath \/ LocationUndefined \/ SlashesLoop
    <2>1. Stop("undefined") \/ Stop("failed") \/ Stop("loops")
      BY <1>9 DEF PortThrows, DuplicatePath, LocationUndefined, SlashesLoop
    <2> QED BY <1>3, <2>1 DEF Ends
  <1>10. CASE Check
    <2>1. i > Len(statements) /\ (Stop("serving") \/ Stop("failed"))
      BY <1>10 DEF Check
    <2> QED BY <1>3, <2>1 DEF Ends
  <1> QED
    BY <1>2, <1>4, <1>5, <1>6, <1>7, <1>8, <1>9, <1>10 DEF Next, GetServerSettings

\* Whatever the file holds, a running server has a handler for every location
\* that a statement of the root names, the one that is named behind it, and no
\* later statement takes it away (config_parser.cc:278-331).
THEOREM LocationsAreServedTheorem == Spec => []LocationsAreServed
  <1> DEFINE Inv == ServedInv /\ LocationInv
  <1>1. Init => Inv
    BY ServedInit, LocationInit
  <1>2. Inv /\ [Next]_vars => Inv'
    BY ServedNext, LocationNext
  <1>3. Inv => LocationsAreServed
    <2> SUFFICES ASSUME ServedInv, pc = "serving",
                        NEW k \in InBlock(0), NEW m \in Locations(k)
                 PROVE  InForce(k, m)
      BY DEF LocationsAreServed, InForce
    <2>1. k < i
      BY LocationsHavePlaces DEF ServedInv
    <2> QED BY <2>1 DEF ServedInv, Behind
  <1> QED BY <1>1, <1>2, <1>3, PTL DEF Spec

-----------------------------------------------------------------------------
(* What is printed.                                                        *)

\* What is printed is made of the tokens and of what ToString adds to them.
Printable == Seq(STRING \cup {"{", "}", ";"})

LEMMA Words ==
    /\ << <<"{">> >> \in Seq(Printable) /\ << <<"}">> >> \in Seq(Printable)
    /\ << <<";">> >> \in Seq(Printable)
    /\ \A ts \in Seq(Values) : ts \in Seq(Printable)
  <1> DEFINE Letters == STRING \cup {"{", "}", ";"}
  <1>1. "{" \in Letters /\ "}" \in Letters /\ ";" \in Letters
    OBVIOUS
  <1> HIDE DEF Letters
  <1>2. \A c \in Letters : <<c>> \in Seq(Letters)
    BY Singles
  <1>3. \A w \in Seq(Letters) : <<w>> \in Seq(Seq(Letters))
    <2> DEFINE S == Seq(Letters)
    <2> HIDE DEF S
    <2> QED BY Singles DEF S
  <1>4. Seq(STRING) \subseteq Seq(Letters)
    <2>1. STRING \subseteq Letters
      BY DEF Letters
    <2> QED BY <2>1, SeqMonotonic
  <1>5. \A ts \in Seq(Values) : ts \in Seq(Seq(Letters))
    BY <1>4, SeqMonotonic DEF Values
  <1>6. Printable = Seq(Letters)
    BY DEF Printable, Letters
  <1>7. << <<"{">> >> \in Seq(Seq(Letters)) /\ << <<"}">> >> \in Seq(Seq(Letters))
        /\ << <<";">> >> \in Seq(Seq(Letters))
    BY <1>1, <1>2, <1>3, Zenon
  <1> QED BY <1>5, <1>6, <1>7

\* What ToString prints is what its loop computes.
LEMMA LinesComputed ==
    ASSUME TypeInv, \A k \in 1 .. Len(statements) : statements[k].block \in 0 .. k - 1
    PROVE  /\ Lines[0] = [b \in 0 .. Len(statements) |-> <<>>]
           /\ \A m \in 1 .. Len(statements) : \A b \in 0 .. Len(statements) :
                LET k == Len(statements) - m + 1
                    s == statements[k]
                    rest == Lines[m - 1]
                    end == IF s.child THEN << <<"{">> >> \o rest[k] \o << <<"}">> >>
                           ELSE << <<";">> >>
                IN  Lines[m][b] = IF b = s.block THEN s.tokens \o end \o rest[b]
                                  ELSE rest[b]
  <1> DEFINE n == Len(statements)
             V == [0 .. n -> Seq(Printable)]
             Empty == [b \in 0 .. n |-> <<>>]
             End(k, rest) == IF statements[k].child
                             THEN << <<"{">> >> \o rest[k] \o << <<"}">> >>
                             ELSE << <<";">> >>
             Step(m, rest) ==
                 [rest EXCEPT ![statements[n - m + 1].block] =
                     statements[n - m + 1].tokens \o End(n - m + 1, rest) \o @]
             g == [m \in 1 .. n |-> [rest \in V |-> Step(m, rest)]]
             Body(f) == [m \in 0 .. n |-> IF m = 0 THEN Empty ELSE Step(m, f[m - 1])]
  <1>1. /\ n \in Nat /\ statements \in Seq(Statements(n))
        /\ \A k \in 1 .. n : statements[k] \in Statements(n)
    BY LenProperties, ElementOfSeq DEF TypeInv, TreeInv
  <1>2. <<>> \in Seq(Printable) /\ Empty \in V
    <2>1. <<>> \in Seq(Printable)
      BY EmptySeq
    <2> QED BY <2>1
  <1>3. /\ << <<"{">> >> \in Seq(Printable) /\ << <<"}">> >> \in Seq(Printable)
        /\ << <<";">> >> \in Seq(Printable)
    BY Words
  <1>4. \A k \in 1 .. n, rest \in V : End(k, rest) \in Seq(Printable)
    <2> TAKE k \in 1 .. n, rest \in V
    <2>1. rest[k] \in Seq(Printable)
      OBVIOUS
    <2>2. << <<"{">> >> \o rest[k] \in Seq(Printable)
      BY <1>3, <2>1, ConcatProperties
    <2>3. << <<"{">> >> \o rest[k] \o << <<"}">> >> \in Seq(Printable)
      BY <1>3, <2>2, ConcatProperties
    <2> QED BY <1>3, <2>3
  <1> HIDE DEF End
  <1>5. \A m \in 1 .. n, rest \in V : Step(m, rest) \in V
    <2> TAKE m \in 1 .. n, rest \in V
    <2>0. n - m + 1 \in 1 .. n
      BY <1>1
    <2>1. statements[n - m + 1].tokens \in Seq(Printable) /\ statements[n - m + 1].block \in 0 .. n
      BY <1>1, <2>0, Words DEF Statements
    <2>2. End(n - m + 1, rest) \in Seq(Printable)
      BY <1>4, <2>0
    <2>3. rest[statements[n - m + 1].block] \in Seq(Printable)
      BY <2>1
    <2>4. statements[n - m + 1].tokens \o End(n - m + 1, rest) \in Seq(Printable)
      BY <2>1, <2>2, ConcatProperties
    <2>5. statements[n - m + 1].tokens \o End(n - m + 1, rest)
              \o rest[statements[n - m + 1].block] \in Seq(Printable)
      BY <2>3, <2>4, ConcatProperties
    <2> QED BY <2>5
  <1>6. \E f : f = Body(f)
    <2>1. g \in [1 .. n -> [V -> V]]
      BY <1>5
    <2>2. \A m \in 1 .. n, rest \in V : g[m][rest] = Step(m, rest)
      OBVIOUS
    <2> HIDE DEF g, V, Step, Empty
    <2>3. PICK f \in [0 .. n -> V] : Recurs(f, n, Empty, g)
      <3>1. n \in Nat /\ Empty \in V
        BY <1>1, <1>2
      <3> HIDE DEF n
      <3> QED BY <2>1, <3>1, Recursion
    <2>4. \A m \in 1 .. n : f[m - 1] \in V
      BY <1>1, <2>3
    <2>5. f = Body(f)
      BY <1>1, <2>2, <2>3, <2>4 DEF Recurs
    <2> HIDE DEF Body
    <2> QED BY <2>5
  <1>7. Lines = CHOOSE f : f = Body(f)
    BY DEF Lines, End
  <1>8. Lines = Body(Lines)
    <2> HIDE DEF Body
    <2> QED BY <1>6, <1>7
  <1>0. /\ Lines[0] = Empty /\ DOMAIN Lines = 0 .. n
        /\ \A m \in 1 .. n : Lines[m] = Step(m, Lines[m - 1])
    <2> DEFINE f == Lines
    <2>1. f = [m \in 0 .. n |-> IF m = 0 THEN Empty ELSE Step(m, f[m - 1])]
      BY <1>8
    <2> HIDE DEF f, Empty, Step
    <2> SUFFICES /\ f[0] = Empty /\ DOMAIN f = 0 .. n
                 /\ \A m \in 1 .. n : f[m] = Step(m, f[m - 1])
      BY DEF f
    <2> QED BY <1>1, <2>1
  <1>9. Lines \in [0 .. n -> V]
    <2>1. Lines[0] \in V /\ DOMAIN Lines = 0 .. n
      BY <1>0, <1>2
    <2>2. \A m \in 1 .. n : Lines[m] = Step(m, Lines[m - 1])
      BY <1>0
    <2> DEFINE S == {m \in 0 .. n : Lines[m] \in V}
    <2> HIDE DEF V, Step
    <2>3. 0 .. n \subseteq S
      <3>1. 0 \in S
        BY <1>1, <2>1
      <3>2. ASSUME NEW m \in 1 .. n, m - 1 \in S PROVE m \in S
        BY <1>1, <1>5, <2>2, <3>2
      <3> HIDE DEF S
      <3> QED BY <1>1, <3>1, <3>2, Induction
    <2>4. \A m \in 0 .. n : Lines[m] \in V
      BY <2>3
    <2>5. Lines = [m \in 0 .. n |-> Lines[m]]
      BY <1>8
    <2> HIDE DEF Body
    <2> QED BY <2>4, <2>5
  <1>10. Lines[0] = Empty
    BY <1>0
  <1>11. ASSUME NEW m \in 1 .. n, NEW b \in 0 .. n
         PROVE  Lines[m][b] = IF b = statements[n - m + 1].block
                              THEN statements[n - m + 1].tokens
                                     \o End(n - m + 1, Lines[m - 1]) \o Lines[m - 1][b]
                              ELSE Lines[m - 1][b]
    <2>1. Lines[m] = Step(m, Lines[m - 1])
      BY <1>0
    <2>2. Lines[m - 1] \in V
      <3>1. m - 1 \in 0 .. n
        BY <1>1
      <3> HIDE DEF V
      <3> QED BY <1>9, <3>1
    <2> DEFINE rest == Lines[m - 1]
    <2>3. DOMAIN rest = 0 .. n
      BY <2>2
    <2> HIDE DEF rest
    <2>4. Lines[m] = Step(m, rest)
      BY <2>1 DEF rest
    <2>5. Lines[m][b] = IF b = statements[n - m + 1].block
                        THEN statements[n - m + 1].tokens
                               \o End(n - m + 1, rest) \o rest[b]
                        ELSE rest[b]
      BY <2>3, <2>4
    <2> QED BY <2>5 DEF rest
  <1> QED BY <1>10, <1>11 DEF End

\* The place behind what was read.
ReadEnd == Len(read) + 1

\* How the tree lies in what was read: c[b][k] is where the rest of block b begins,
\* from statement k on.  It ends where the statements that are still to come begin.
Places == [Nat -> [Nat -> 1 .. ReadEnd]]

BeginsAt(c, k) == c[statements[k].block][k]

EndsAt(c, k) == BeginsAt(c, k) + Len(statements[k].tokens)

IsOpen(k) == \E d \in 1 .. Len(stack) : stack[d] = k

\* The words of statement k, the symbol behind them, and the end of its block.
WordsLie(c, k) ==
    /\ EndsAt(c, k) <= ReadEnd
    /\ \A x \in 1 .. Len(statements[k].tokens) :
         statements[k].tokens[x] = read[BeginsAt(c, k) + x - 1]

EndLies(c, k) ==
    ~ (last = "normal" /\ k = Len(statements)) =>
        /\ EndsAt(c, k) < ReadEnd
        /\ read[EndsAt(c, k)] = IF statements[k].child THEN <<"{">> ELSE <<";">>
        /\ c[IF statements[k].child THEN k ELSE statements[k].block][k + 1]
              = EndsAt(c, k) + 1

BlockLies(c, k) ==
    statements[k].child /\ ~ IsOpen(k) =>
        LET end == c[k][Len(statements) + 1]
        IN  /\ end < ReadEnd /\ read[end] = <<"}">>
            /\ c[statements[k].block][k + 1] = end + 1

\* Statement k is in no other block.
ElsewhereLies(c, k) ==
    \A b \in 0 .. k - 1 : b # statements[k].block => c[b][k + 1] = c[b][k]

StatementLies(c, k) ==
    WordsLie(c, k) /\ EndLies(c, k) /\ BlockLies(c, k) /\ ElsewhereLies(c, k)

Layout(c) ==
    LET n == Len(statements)
    IN  /\ c[0][1] = 1
        /\ \A b, m \in Nat : m > n => c[b][m] = c[b][n + 1]
        /\ \A k \in 1 .. n : StatementLies(c, k)
        /\ IF last = "normal" THEN EndsAt(c, n) = ReadEnd
           ELSE c[Last(stack)][n + 1] = ReadEnd

\* The blocks that are open lie in each other, and no statement comes behind an
\* open block in the block around it.
NestInv ==
    LET n == Len(statements)
    IN  /\ \A k \in 1 .. n : statements[k].block \in 0 .. k - 1
        /\ stack # <<>> => stack[1] = 0
        /\ \A d, e \in 1 .. Len(stack) : d < e => stack[d] < stack[e]
        /\ \A d \in 2 .. Len(stack) :
             /\ stack[d] \in 1 .. n
             /\ statements[stack[d]].child /\ statements[stack[d]].block = stack[d - 1]
             /\ \A k \in stack[d] + 1 .. n : statements[k].block # stack[d - 1]
        /\ last = "normal" => /\ n > 0 /\ ~ statements[n].child
                              /\ statements[n].block = Last(stack)

LEMMA ReadEnds ==
    ASSUME read \in Seq(Values)
    PROVE  /\ ReadEnd \in Nat /\ 1 <= ReadEnd
           /\ \A x \in Nat : 1 <= x /\ x < ReadEnd => x \in 1 .. Len(read) /\ read[x] \in Values
  <1>1. Len(read) \in Nat
    BY LenProperties
  <1>2. \A x \in Nat : 1 <= x /\ x < ReadEnd => x \in 1 .. Len(read)
    BY <1>1 DEF ReadEnd
  <1>3. \A x \in 1 .. Len(read) : read[x] \in Values
    BY ElementOfSeq
  <1> QED BY <1>1, <1>2, <1>3 DEF ReadEnd

\* What was read from one place on to before another.
Slice(x, y) == SubSeq(read, x, y - 1)

LEMMA SlicesJoin ==
    ASSUME read \in Seq(Values), NEW x \in Nat, NEW y \in Nat, NEW z \in Nat,
           1 <= x, x <= y, y <= z, z <= ReadEnd
    PROVE  Slice(x, y) \o Slice(y, z) = Slice(x, z)
  <1>1. Len(read) \in Nat /\ z <= Len(read) + 1
    BY LenProperties DEF ReadEnd
  <1>2. x \in 1 .. Len(read) + 1 /\ y - 1 \in x - 1 .. Len(read) /\ z - 1 \in y - 1 .. Len(read)
    BY <1>1
  <1>3. SubSeq(read, x, y - 1) \o SubSeq(read, y - 1 + 1, z - 1) = SubSeq(read, x, z - 1)
    BY <1>2, ConcatAdjacentSubSeq
  <1> QED BY <1>3 DEF Slice

LEMMA SliceOfOne ==
    ASSUME read \in Seq(Values), NEW x \in Nat, 1 <= x, x < ReadEnd
    PROVE  Slice(x, x + 1) = <<read[x]>>
  <1>1. Len(read) \in Nat /\ x \in 1 .. Len(read) /\ x \in x .. Len(read)
    BY LenProperties DEF ReadEnd
  <1>2. SubSeq(read, x, x) = <<read[x]>> \o SubSeq(read, x + 1, x)
    BY <1>1, SubSeqRecursiveFirst
  <1>3. SubSeq(read, x + 1, x) = <<>>
    BY <1>1, SubSeqEmpty
  <1>4. <<read[x]>> \in Seq(Values)
    BY <1>1, ElementOfSeq, Singles
  <1>5. <<read[x]>> \o <<>> = <<read[x]>>
    BY <1>4, ConcatEmptySeq, Zenon
  <1>6. SubSeq(read, x, x) = <<read[x]>>
    BY <1>2, <1>3, <1>5, Zenon
  <1>7. x + 1 - 1 = x
    OBVIOUS
  <1>8. SubSeq(read, x, x + 1 - 1) = <<read[x]>>
    BY <1>6, <1>7, Zenon
  <1> QED BY <1>8 DEF Slice

LEMMA SliceIs ==
    ASSUME read \in Seq(Values), NEW ts \in Seq(Values), NEW x \in Nat, 1 <= x,
           x + Len(ts) <= ReadEnd, \A m \in 1 .. Len(ts) : ts[m] = read[x + m - 1]
    PROVE  ts = Slice(x, x + Len(ts))
  <1> DEFINE l == Len(ts)
             y == x + l - 1
  <1>1. Len(read) \in Nat /\ l \in Nat
    BY LenProperties
  <1>2. \A m \in x .. y : read[m] \in Values
    <2>1. \A m \in x .. y : m \in 1 .. Len(read)
      BY <1>1 DEF ReadEnd
    <2> QED BY <2>1, ElementOfSeq
  <1>3. x \in Int /\ y \in Int /\ y - x + 1 = l /\ (x <= y <=> l # 0)
    BY <1>1
  <1> HIDE DEF y
  <1>4. /\ SubSeq(read, x, y) \in Seq(Values)
        /\ Len(SubSeq(read, x, y)) = IF x <= y THEN y - x + 1 ELSE 0
        /\ \A m \in 1 .. y - x + 1 : SubSeq(read, x, y)[m] = read[x + m - 1]
    BY <1>2, <1>3, SubSeqProperties
  <1>5. ts = SubSeq(read, x, y)
    BY <1>1, <1>3, <1>4, SeqEqual
  <1> QED BY <1>5 DEF Slice, y

\* A statement without a block, and the rest of the block behind it; and a block.
SimplePrints(ts, p, q, z) ==
    ts = Slice(p, q) /\ read[q] = <<";">> =>
      ts \o << <<";">> >> \o Slice(q + 1, z) = Slice(p, z)

BlockPrints(q, e) ==
    read[q] = <<"{">> /\ read[e] = <<"}">> =>
      << <<"{">> >> \o Slice(q + 1, e) \o << <<"}">> >> = Slice(q, e + 1)

LEMMA SimplePrinted ==
    ASSUME read \in Seq(Values), NEW ts, NEW p \in Nat, NEW q \in Nat, NEW z \in Nat,
           1 <= p, p <= q, q < z, z <= ReadEnd
    PROVE  SimplePrints(ts, p, q, z)
  <1>1. /\ ReadEnd \in Nat /\ q + 1 \in Nat /\ q <= q + 1 /\ q + 1 <= z
        /\ 1 <= q /\ q < ReadEnd /\ q + 1 <= ReadEnd /\ p <= q + 1
    BY ReadEnds
  <1> SUFFICES ASSUME ts = Slice(p, q), read[q] = <<";">>
               PROVE  ts \o << <<";">> >> \o Slice(q + 1, z) = Slice(p, z)
    BY Zenon DEF SimplePrints
  <1>2. << <<";">> >> = Slice(q, q + 1)
    BY <1>1, SliceOfOne, Zenon
  <1>3. Slice(p, q) \o Slice(q, q + 1) = Slice(p, q + 1)
    BY <1>1, SlicesJoin, Zenon
  <1>4. Slice(p, q + 1) \o Slice(q + 1, z) = Slice(p, z)
    BY <1>1, SlicesJoin, Zenon
  <1> QED BY <1>2, <1>3, <1>4, Zenon

LEMMA BlockPrinted ==
    ASSUME read \in Seq(Values), NEW q \in Nat, NEW e \in Nat, 1 <= q, q < e, e < ReadEnd
    PROVE  BlockPrints(q, e)
  <1>1. /\ ReadEnd \in Nat /\ q + 1 \in Nat /\ q <= q + 1 /\ q + 1 <= e /\ q <= e
        /\ e + 1 \in Nat /\ e <= e + 1 /\ e <= ReadEnd /\ 1 <= e /\ q < ReadEnd
        /\ e + 1 <= ReadEnd
    BY ReadEnds
  <1> SUFFICES ASSUME read[q] = <<"{">>, read[e] = <<"}">>
               PROVE  << <<"{">> >> \o Slice(q + 1, e) \o << <<"}">> >> = Slice(q, e + 1)
    BY Zenon DEF BlockPrints
  <1>2. << <<"{">> >> = Slice(q, q + 1) /\ << <<"}">> >> = Slice(e, e + 1)
    BY <1>1, SliceOfOne, Zenon
  <1>3. Slice(q, q + 1) \o Slice(q + 1, e) = Slice(q, e)
    BY <1>1, SlicesJoin, Zenon
  <1>4. Slice(q, e) \o Slice(e, e + 1) = Slice(q, e + 1)
    BY <1>1, SlicesJoin, Zenon
  <1> QED BY <1>2, <1>3, <1>4, Zenon

LEMMA StatementTypes ==
    ASSUME TypeInv
    PROVE  /\ Len(statements) \in Nat /\ DOMAIN statements = 1 .. Len(statements)
           /\ \A k \in 1 .. Len(statements) :
                /\ statements[k].tokens \in Seq(Values)
                /\ Len(statements[k].tokens) \in Nat
                /\ statements[k].block \in 0 .. Len(statements)
                /\ statements[k].child \in BOOLEAN
  <1>1. /\ Len(statements) \in Nat /\ DOMAIN statements = 1 .. Len(statements)
        /\ \A k \in 1 .. Len(statements) : statements[k] \in Statements(Len(statements))
    BY LenProperties, ElementOfSeq DEF TypeInv, TreeInv
  <1>2. \A k \in 1 .. Len(statements) : statements[k].tokens \in Seq(Values)
    BY <1>1 DEF Statements
  <1>3. \A k \in 1 .. Len(statements) : Len(statements[k].tokens) \in Nat
    BY <1>2, LenProperties
  <1> QED BY <1>1, <1>2, <1>3 DEF Statements

\* What ToString prints of block b from statement k on, if rest is what it prints
\* from the next one on.
LineOf(b, k, rest) ==
    LET s == statements[k]
        end == IF s.child THEN << <<"{">> >> \o rest[k] \o << <<"}">> >>
               ELSE << <<";">> >>
    IN  IF b = s.block THEN s.tokens \o end \o rest[b] ELSE rest[b]

\* rest is, for each block, what was read of it behind statement k.
RestLies(c, k, rest) ==
    \A a \in 0 .. k : /\ c[a][k + 1] <= c[a][Len(statements) + 1]
                      /\ rest[a] = Slice(c[a][k + 1], c[a][Len(statements) + 1])

\* One step of the loop of ToString: if the rest of each block is as it was read, so
\* is what comes with statement k.
LEMMA OneMoreLine ==
    ASSUME TypeInv, read \in Seq(Values), last # "normal",
           NEW c \in Places, NEW k \in 1 .. Len(statements), ~ IsOpen(k), StatementLies(c, k),
           NEW b \in 0 .. k - 1, NEW rest, RestLies(c, k, rest)
    PROVE  /\ c[b][k] <= c[b][Len(statements) + 1]
           /\ LineOf(b, k, rest) = Slice(c[b][k], c[b][Len(statements) + 1])
  <1> DEFINE n == Len(statements)
             s == statements[k]
             ts == s.tokens
             l == Len(ts)
             p == c[b][k]
             q == p + l
             e == c[k][n + 1]
             z == c[b][n + 1]
             afterB == c[b][k + 1]
             afterK == c[k][k + 1]
  <1>1. /\ n \in Nat /\ k \in Nat /\ b \in Nat /\ k + 1 \in Nat /\ k \in 0 .. k /\ b \in 0 .. k
        /\ ReadEnd \in Nat /\ ts \in Seq(Values) /\ l \in Nat /\ s.child \in BOOLEAN
    BY StatementTypes, ReadEnds
  <1>2. WordsLie(c, k) /\ EndLies(c, k) /\ BlockLies(c, k) /\ ElsewhereLies(c, k)
    BY DEF StatementLies
  <1>3. \A a, m \in Nat : c[a][m] \in 1 .. ReadEnd
    BY DEF Places
  <1>4. p \in 1 .. ReadEnd /\ e \in 1 .. ReadEnd /\ z \in 1 .. ReadEnd
        /\ afterB \in 1 .. ReadEnd /\ afterK \in 1 .. ReadEnd
    BY <1>1, <1>3
  <1>5. afterB <= z /\ rest[b] = Slice(afterB, z)
    BY <1>1 DEF RestLies
  <1>6. afterK <= e /\ rest[k] = Slice(afterK, e)
    BY <1>1 DEF RestLies
  <1>7. b # s.block => afterB = p
    BY <1>2 DEF ElsewhereLies
  <1>8. b = s.block => BeginsAt(c, k) = p /\ EndsAt(c, k) = q
    BY DEF BeginsAt, EndsAt
  <1>9. b = s.block => /\ q <= ReadEnd
                       /\ \A m \in 1 .. l : ts[m] = read[p + m - 1]
    BY <1>2, <1>8 DEF WordsLie
  <1>10. b = s.block => /\ q < ReadEnd
                        /\ s.child => read[q] = <<"{">> /\ afterK = q + 1
                        /\ ~ s.child => read[q] = <<";">> /\ afterB = q + 1
    BY <1>2, <1>8 DEF EndLies
  <1>11. b = s.block /\ s.child => read[e] = <<"}">> /\ afterB = e + 1
    BY <1>2 DEF BlockLies
  <1>12. LineOf(b, k, rest) =
           IF b = s.block
           THEN ts \o (IF s.child THEN << <<"{">> >> \o rest[k] \o << <<"}">> >>
                       ELSE << <<";">> >>) \o rest[b]
           ELSE rest[b]
    BY DEF LineOf
  <1>13. p \in Nat /\ 1 <= p /\ e \in Nat /\ z \in Nat /\ z <= ReadEnd
         /\ q \in Nat /\ p <= q
    <2> HIDE DEF p, e, z, l
    <2> QED BY <1>1, <1>4
  <1>14. ASSUME b = s.block PROVE ts = Slice(p, q)
    <2> HIDE DEF p, ts
    <2>1. p + Len(ts) <= ReadEnd /\ \A m \in 1 .. Len(ts) : ts[m] = read[p + m - 1]
      BY <1>9, <1>14
    <2> QED BY <1>1, <1>13, <2>1, SliceIs
  <1> HIDE DEF p, q, e, z, l, ts, afterB, afterK
  <1>15. CASE b # s.block
    <2>1. LineOf(b, k, rest) = rest[b]
      BY <1>12, <1>15, Zenon
    <2> QED BY <1>5, <1>7, <1>15, <2>1, Zenon DEF p, z
  <1>16. CASE b = s.block /\ ~ s.child
    <2>1. afterB = q + 1 /\ read[q] = <<";">> /\ ts = Slice(p, q)
      BY <1>10, <1>14, <1>16, Zenon
    <2>2. q < z /\ p <= z
      <3>1. q + 1 <= z
        BY <1>5, <2>1, Zenon
      <3> QED BY <1>13, <3>1
    <2>3. LineOf(b, k, rest) = ts \o << <<";">> >> \o Slice(q + 1, z)
      BY <1>5, <1>12, <1>16, <2>1, Zenon
    <2>4. ts \o << <<";">> >> \o Slice(q + 1, z) = Slice(p, z)
      <3>1. p \in Nat /\ q \in Nat /\ z \in Nat /\ 1 <= p /\ p <= q /\ q < z /\ z <= ReadEnd
        BY <1>13, <2>2
      <3>2. SimplePrints(ts, p, q, z)
        BY <3>1, SimplePrinted
      <3> QED BY <2>1, <3>2, Zenon DEF SimplePrints
    <2>5. LineOf(b, k, rest) = Slice(p, z)
      BY <2>3, <2>4, Zenon
    <2> QED BY <2>2, <2>5, Zenon DEF p, z
  <1>17. CASE b = s.block /\ s.child
    <2>1. afterK = q + 1 /\ read[q] = <<"{">> /\ ts = Slice(p, q)
      BY <1>10, <1>14, <1>17, Zenon
    <2>2. afterB = e + 1 /\ read[e] = <<"}">>
      BY <1>11, <1>17, Zenon
    <2>3. q < e /\ e < z /\ p <= z
      <3>1. q + 1 <= e /\ e + 1 <= z
        BY <1>5, <1>6, <2>1, <2>2, Zenon
      <3> QED BY <1>13, <3>1
    <2>4. LineOf(b, k, rest) = ts \o (<< <<"{">> >> \o Slice(q + 1, e) \o << <<"}">> >>)
                                 \o Slice(e + 1, z)
      BY <1>5, <1>6, <1>12, <1>17, <2>1, <2>2, Zenon
    <2>5. ts \o (<< <<"{">> >> \o Slice(q + 1, e) \o << <<"}">> >>) \o Slice(e + 1, z)
            = Slice(p, z)
      <3>1. p \in Nat /\ q \in Nat /\ e + 1 \in Nat /\ z \in Nat
            /\ 1 <= p /\ p <= q /\ q <= e + 1 /\ p <= e + 1 /\ e + 1 <= z /\ z <= ReadEnd
            /\ e + 1 <= ReadEnd
        BY <1>1, <1>13, <2>3
      <3>2. q \in Nat /\ e \in Nat /\ 1 <= q /\ q < e /\ e < ReadEnd
        BY <1>1, <1>13, <2>3
      <3>3. << <<"{">> >> \o Slice(q + 1, e) \o << <<"}">> >> = Slice(q, e + 1)
        <4>1. BlockPrints(q, e)
          BY <3>2, BlockPrinted
        <4> QED BY <2>1, <2>2, <4>1, Zenon DEF BlockPrints
      <3>4. Slice(p, q) \o Slice(q, e + 1) = Slice(p, e + 1)
        BY <3>1, SlicesJoin, Zenon
      <3>5. Slice(p, e + 1) \o Slice(e + 1, z) = Slice(p, z)
        BY <3>1, SlicesJoin, Zenon
      <3> QED BY <2>1, <3>3, <3>4, <3>5, Zenon
    <2>6. LineOf(b, k, rest) = Slice(p, z)
      BY <2>4, <2>5, Zenon
    <2> QED BY <2>3, <2>6, Zenon DEF p, z
  <1> QED BY <1>1, <1>15, <1>16, <1>17

\* When all blocks but the root are closed, printing the tree yields what was read.
LEMMA LayoutIsPrinted ==
    ASSUME TypeInv, NestInv, read \in Seq(Values), stack = << 0 >>, last # "normal",
           NEW c \in Places, Layout(c)
    PROVE  Printed = read
  <1> DEFINE n == Len(statements)
             Claim(m) == \A b \in 0 .. n - m :
                            /\ c[b][n - m + 1] <= c[b][n + 1]
                            /\ Lines[m][b] = Slice(c[b][n - m + 1], c[b][n + 1])
             S == {m \in 0 .. n : Claim(m)}
  <1>1. /\ n \in Nat /\ \A k \in 1 .. n : statements[k].block \in 0 .. k - 1
        /\ \A b, m \in Nat : c[b][m] \in Int
    BY StatementTypes DEF NestInv, Places
  <1>2. Claim(0)
    <2>1. ASSUME NEW b \in 0 .. n
          PROVE  Lines[0][b] = Slice(c[b][n + 1], c[b][n + 1])
      <3>1. c[b][n + 1] \in Int
        BY <1>1
      <3>2. Slice(c[b][n + 1], c[b][n + 1]) = <<>>
        BY <3>1, SubSeqEmpty DEF Slice
      <3>3. Lines[0][b] = <<>>
        BY <1>1, LinesComputed
      <3> QED BY <3>2, <3>3
    <2> QED BY <1>1, <2>1
  <1>3. ASSUME NEW m \in 1 .. n, Claim(m - 1) PROVE Claim(m)
    <2> DEFINE k == n - m + 1
    <2>1. /\ k \in 1 .. n /\ n - (m - 1) + 1 = k + 1 /\ n - (m - 1) = k /\ n - m = k - 1
      BY <1>1
    <2>2. \A a \in 0 .. k : /\ c[a][k + 1] <= c[a][n + 1]
                            /\ Lines[m - 1][a] = Slice(c[a][k + 1], c[a][n + 1])
      BY <1>3, <2>1
    <2>3. StatementLies(c, k)
      BY <2>1 DEF Layout
    <2>4. ASSUME NEW b \in 0 .. k - 1
          PROVE  c[b][k] <= c[b][n + 1] /\ Lines[m][b] = Slice(c[b][k], c[b][n + 1])
      <3>1. b \in 0 .. n
        BY <1>1, <2>1
      <3>2. Lines[m][b] = LineOf(b, k, Lines[m - 1])
        BY <1>1, <3>1, LinesComputed DEF LineOf
      <3> DEFINE rest == Lines[m - 1]
      <3>3. RestLies(c, k, rest)
        BY <2>2 DEF RestLies
      <3>4. ~ IsOpen(k)
        BY <2>1 DEF IsOpen
      <3> HIDE DEF k, rest
      <3>5. c[b][k] <= c[b][n + 1] /\ LineOf(b, k, rest) = Slice(c[b][k], c[b][n + 1])
        BY <2>1, <2>3, <3>3, <3>4, OneMoreLine
      <3> QED BY <3>2, <3>5 DEF rest
    <2> QED BY <2>1, <2>4
  <1>4. 0 .. n \subseteq S
    <2> HIDE DEF Claim
    <2>1. 0 \in S /\ \A m \in 1 .. n : m - 1 \in S => m \in S
      BY <1>1, <1>2, <1>3
    <2> HIDE DEF S
    <2> QED BY <1>1, <2>1, Induction
  <1>5. Claim(n)
    <2>1. n \in 0 .. n
      BY <1>1
    <2> HIDE DEF Claim, n
    <2> QED BY <1>4, <2>1, Zenon
  <1>6. Lines[n][0] = Slice(c[0][1], c[0][n + 1])
    <2>1. 0 \in 0 .. n - n /\ n - n + 1 = 1
      BY <1>1
    <2> QED BY <1>5, <2>1
  <1>7. c[0][1] = 1 /\ c[0][n + 1] = ReadEnd
    <2>1. Last(stack) = 0
      BY DEF Last
    <2> QED BY <2>1 DEF Layout
  <1>8. ReadEnd - 1 = Len(read)
    BY LenProperties DEF ReadEnd
  <1> QED BY <1>6, <1>7, <1>8, SubSeqFull DEF Printed, Slice

-----------------------------------------------------------------------------
\* One more token is read.
LEMMA ReadGrows ==
    ASSUME read \in Seq(Values), NEW v \in Values, read' = Append(read, v)
    PROVE  /\ read' \in Seq(Values) /\ ReadEnd \in Nat /\ 1 <= ReadEnd
           /\ ReadEnd' = ReadEnd + 1 /\ read'[ReadEnd] = v
           /\ \A x \in Nat : 1 <= x /\ x < ReadEnd => read'[x] = read[x]
  <1>1. /\ read' \in Seq(Values) /\ Len(read') = Len(read) + 1 /\ Len(read) \in Nat
        /\ read'[Len(read) + 1] = v /\ \A x \in 1 .. Len(read) : read'[x] = read[x]
    BY AppendProperties, LenProperties
  <1>2. \A x \in Nat : 1 <= x /\ x < Len(read) + 1 => x \in 1 .. Len(read)
    BY <1>1
  <1> QED BY <1>1, <1>2 DEF ReadEnd

\* The statements of block b behind statement k are expected at the next token.
MovedBehind(c, b, k) ==
    [c EXCEPT ![b] = [m \in Nat |-> IF m > k THEN ReadEnd + 1 ELSE c[b][m]]]

Moved(c, d, b, k) ==
    /\ \A m \in Nat : m > k => d[b][m] = ReadEnd + 1
    /\ \A a, m \in Nat : ~ (a = b /\ m > k) => d[a][m] = c[a][m]

LEMMA PlacesMoved ==
    ASSUME read \in Seq(Values), NEW v \in Values, read' = Append(read, v),
           NEW c \in Places, NEW b \in Nat, NEW k \in Nat
    PROVE  /\ c \in Places' /\ MovedBehind(c, b, k) \in Places'
           /\ Moved(c, MovedBehind(c, b, k), b, k)
  <1>1. ReadEnd \in Nat /\ 1 <= ReadEnd /\ ReadEnd' = ReadEnd + 1
    BY ReadGrows
  <1>2. c \in [Nat -> [Nat -> 1 .. ReadEnd]]
    BY DEF Places
  <1>3. 1 .. ReadEnd \subseteq 1 .. ReadEnd + 1 /\ ReadEnd + 1 \in 1 .. ReadEnd + 1
    BY <1>1
  <1> HIDE DEF ReadEnd
  <1>4. \A a \in Nat : c[a] \in [Nat -> 1 .. ReadEnd + 1]
    BY <1>2, <1>3
  <1> DEFINE moved == [m \in Nat |-> IF m > k THEN ReadEnd + 1 ELSE c[b][m]]
  <1>5. moved \in [Nat -> 1 .. ReadEnd + 1]
    BY <1>3, <1>4
  <1>6. c \in [Nat -> [Nat -> 1 .. ReadEnd + 1]]
    BY <1>2, <1>4
  <1>7. \A m \in Nat : moved[m] = IF m > k THEN ReadEnd + 1 ELSE c[b][m]
    OBVIOUS
  <1> HIDE DEF moved
  <1>8. [c EXCEPT ![b] = moved] \in [Nat -> [Nat -> 1 .. ReadEnd + 1]]
    BY <1>5, <1>6
  <1>9. \A a \in Nat : [c EXCEPT ![b] = moved][a] = IF a = b THEN moved ELSE c[a]
    BY <1>6
  <1>10. MovedBehind(c, b, k) = [c EXCEPT ![b] = moved]
    BY DEF MovedBehind, moved
  <1> QED BY <1>1, <1>6, <1>7, <1>8, <1>9, <1>10 DEF Places, Moved

LEMMA StillSmaller == \A x, y \in Nat : x < y => x < y + 1
  OBVIOUS

\* Nothing that statement k has to do with moves.
Kept(c, d, k) ==
    LET b == statements[k].block
    IN  /\ statements'[k] = statements[k]
        /\ ~ (last = "normal" /\ k = Len(statements))
        /\ IsOpen(k) => IsOpen(k)'
        /\ d[b][k] = c[b][k] /\ d[b][k + 1] = c[b][k + 1]
        /\ statements[k].child => d[k][k + 1] = c[k][k + 1]
        /\ statements[k].child /\ ~ IsOpen(k) =>
             d[k][Len(statements') + 1] = c[k][Len(statements) + 1]
        /\ \A a \in 0 .. k - 1 : a # b =>
             \/ d[a][k + 1] = d[a][k]
             \/ d[a][k] = c[a][k] /\ d[a][k + 1] = c[a][k + 1]

LEMMA WordsKept ==
    ASSUME TypeInv, read \in Seq(Values), NEW v \in Values, read' = Append(read, v),
           NEW c \in Places, NEW d, NEW k \in 1 .. Len(statements),
           statements'[k] = statements[k], BeginsAt(d, k)' = BeginsAt(c, k)
    PROVE  WordsLie(c, k) => /\ WordsLie(d, k)'
                             /\ EndsAt(d, k)' = EndsAt(c, k)
                             /\ EndsAt(c, k) \in Nat /\ 1 <= EndsAt(c, k)
  <1> DEFINE l == Len(statements[k].tokens)
             p == BeginsAt(c, k)
  <1>1. /\ ReadEnd \in Nat /\ ReadEnd' = ReadEnd + 1
        /\ \A x \in Nat : 1 <= x /\ x < ReadEnd => read'[x] = read[x]
    BY ReadGrows
  <1>2. l \in Nat /\ statements[k].block \in Nat /\ k \in Nat
    BY StatementTypes
  <1>3. p \in 1 .. ReadEnd
    <2>1. \A a, m \in Nat : c[a][m] \in 1 .. ReadEnd
      BY DEF Places
    <2> QED BY <1>2, <2>1 DEF BeginsAt
  <1>4. EndsAt(c, k) = p + l /\ EndsAt(d, k)' = p + l
    BY DEF EndsAt
  <1> SUFFICES ASSUME WordsLie(c, k)
               PROVE  WordsLie(d, k)' /\ EndsAt(d, k)' = EndsAt(c, k)
                      /\ EndsAt(c, k) \in Nat /\ 1 <= EndsAt(c, k)
    OBVIOUS
  <1>5. p + l <= ReadEnd /\ \A x \in 1 .. l : statements[k].tokens[x] = read[p + x - 1]
    BY <1>4 DEF WordsLie
  <1>6. \A x \in 1 .. l : statements[k].tokens[x] = read'[p + x - 1]
    <2> HIDE DEF p, l
    <2>1. \A x \in 1 .. l : p + x - 1 \in Nat /\ 1 <= p + x - 1 /\ p + x - 1 < ReadEnd
      BY <1>1, <1>2, <1>3, <1>5
    <2> QED BY <1>1, <1>5, <2>1
  <1>7. p + l <= ReadEnd' /\ p + l \in Nat /\ 1 <= p + l
    BY <1>1, <1>2, <1>3, <1>5
  <1> QED BY <1>4, <1>6, <1>7 DEF WordsLie

LEMMA StatementKept ==
    ASSUME TypeInv, NestInv, read \in Seq(Values), NEW v \in Values, read' = Append(read, v),
           NEW c \in Places, NEW d, NEW k \in 1 .. Len(statements), Kept(c, d, k)
    PROVE  StatementLies(c, k) => StatementLies(d, k)'
  <1> DEFINE b == statements[k].block
             n == Len(statements)
             q == EndsAt(c, k)
             e == c[k][n + 1]
  <1>1. /\ ReadEnd \in Nat /\ ReadEnd' = ReadEnd + 1
        /\ \A x \in Nat : 1 <= x /\ x < ReadEnd => read'[x] = read[x]
    BY ReadGrows
  <1>2. k \in Nat /\ n \in Nat /\ b \in 0 .. k - 1 /\ statements[k].child \in BOOLEAN
    BY StatementTypes DEF NestInv
  <1>3. e \in Nat /\ 1 <= e
    <2>1. \A a, m \in Nat : c[a][m] \in 1 .. ReadEnd
      BY DEF Places
    <2>2. n + 1 \in Nat
      BY <1>2
    <2>3. e \in 1 .. ReadEnd
      BY <1>2, <2>1, <2>2, Zenon
    <2> HIDE DEF e
    <2> QED BY <1>1, <2>3
  <1> SUFFICES ASSUME StatementLies(c, k) PROVE StatementLies(d, k)'
    OBVIOUS
  <1>4. WordsLie(c, k) /\ EndLies(c, k) /\ BlockLies(c, k) /\ ElsewhereLies(c, k)
    BY DEF StatementLies
  <1>5. statements'[k] = statements[k] /\ ~ (last = "normal" /\ k = n)
        /\ (IsOpen(k) => IsOpen(k)')
    BY DEF Kept
  <1>6. d[b][k] = c[b][k] /\ d[b][k + 1] = c[b][k + 1]
        /\ (statements[k].child => d[k][k + 1] = c[k][k + 1])
        /\ (statements[k].child /\ ~ IsOpen(k) => d[k][Len(statements') + 1] = e)
    BY DEF Kept
  <1>7. \A a \in 0 .. k - 1 : a # b =>
             \/ d[a][k + 1] = d[a][k]
             \/ d[a][k] = c[a][k] /\ d[a][k + 1] = c[a][k + 1]
    BY DEF Kept
  <1>8. BeginsAt(d, k)' = BeginsAt(c, k)
    BY <1>5, <1>6 DEF BeginsAt
  <1>9. WordsLie(d, k)' /\ EndsAt(d, k)' = q /\ q \in Nat /\ 1 <= q
    BY <1>4, <1>5, <1>8, WordsKept
  <1>10. EndLies(d, k)'
    <2>1. /\ q < ReadEnd /\ read[q] = IF statements[k].child THEN <<"{">> ELSE <<";">>
          /\ c[IF statements[k].child THEN k ELSE b][k + 1] = q + 1
      BY <1>4, <1>5 DEF EndLies
    <2> HIDE DEF q
    <2>2. read'[q] = read[q] /\ q < ReadEnd'
      <3>1. read'[q] = read[q]
        BY <1>1, <1>9, <2>1, Zenon
      <3>2. q < ReadEnd + 1
        BY <1>1, <1>9, <2>1, StillSmaller, Zenon
      <3> QED BY <1>1, <3>1, <3>2, Zenon
    <2>3. d[IF statements[k].child THEN k ELSE b][k + 1] = q + 1
      BY <1>2, <1>6, <2>1
    <2> QED BY <1>5, <1>9, <2>1, <2>2, <2>3 DEF EndLies
  <1>11. BlockLies(d, k)'
    <2> SUFFICES ASSUME statements[k].child, ~ IsOpen(k)
                 PROVE  /\ e < ReadEnd' /\ read'[e] = <<"}">> /\ d[b][k + 1] = e + 1
      BY <1>5, <1>6 DEF BlockLies
    <2>1. e < ReadEnd /\ read[e] = <<"}">> /\ c[b][k + 1] = e + 1
      BY <1>4 DEF BlockLies
    <2> HIDE DEF e
    <2>2. read'[e] = read[e] /\ e < ReadEnd'
      <3>1. read'[e] = read[e]
        BY <1>1, <1>3, <2>1, Zenon
      <3>2. e < ReadEnd + 1
        BY <1>1, <1>3, <2>1, StillSmaller, Zenon
      <3> QED BY <1>1, <3>1, <3>2, Zenon
    <2> QED BY <1>6, <2>1, <2>2
  <1>12. ElsewhereLies(d, k)'
    <2>1. \A a \in 0 .. k - 1 : a # b => d[a][k + 1] = d[a][k]
      BY <1>4, <1>7 DEF ElsewhereLies
    <2> QED BY <1>5, <2>1 DEF ElsewhereLies
  <1> QED BY <1>9, <1>10, <1>11, <1>12 DEF StatementLies

LEMMA TopIsOpen ==
    ASSUME TypeInv, stack # <<>>
    PROVE  /\ Len(stack) \in Nat /\ 1 <= Len(stack) /\ Last(stack) = stack[Len(stack)]
           /\ Last(stack) \in 0 .. Len(statements) /\ Last(stack) \in Nat
           /\ IsOpen(Last(stack))
  <1>1. Len(statements) \in Nat /\ stack \in Seq(0 .. Len(statements))
    BY StatementTypes DEF TypeInv, TreeInv
  <1>2. Len(stack) \in Nat /\ 1 <= Len(stack) /\ Last(stack) = stack[Len(stack)]
    BY <1>1, EmptySeq DEF Last
  <1>3. Last(stack) \in 0 .. Len(statements)
    BY <1>1, Tops
  <1> QED BY <1>1, <1>2, <1>3 DEF IsOpen

\* The statement that goes on is the last of the tree.
LEMMA LastGoesOn ==
    ASSUME TypeInv, NestInv, last = "normal"
    PROVE  /\ Len(statements) \in Nat /\ Len(statements) \in 1 .. Len(statements)
           /\ Back(Last(stack)) = Len(statements) /\ stack # <<>>
           /\ statements[Len(statements)].block = Last(stack)
           /\ ~ statements[Len(statements)].child
  <1> DEFINE n == Len(statements)
             top == Last(stack)
  <1>1. n \in Nat /\ DOMAIN statements = 1 .. n /\ TreeInv
    BY StatementTypes DEF TypeInv
  <1>2. n > 0 /\ ~ statements[n].child /\ statements[n].block = top
    BY DEF NestInv
  <1>3. n \in InBlock(top) /\ InBlock(top) \subseteq 1 .. n
    BY <1>1, <1>2 DEF InBlock
  <1>4. \A l \in InBlock(top) : l <= n
    BY <1>1, <1>3
  <1>5. /\ Back(top) \in InBlock(top) /\ \A l \in InBlock(top) : l <= Back(top)
    BY <1>3, <1>4 DEF Back
  <1>6. Back(top) = n
    BY <1>1, <1>3, <1>4, <1>5
  <1> QED BY <1>1, <1>2, <1>6 DEF TreeInv

\* No statement changes its block or gets one.
LEMMA NestKept ==
    ASSUME NestInv, stack' = stack, Len(statements') = Len(statements),
           \A k \in 1 .. Len(statements) : /\ statements'[k].block = statements[k].block
                                           /\ statements'[k].child = statements[k].child,
           last' = "normal" => last = "normal", Len(statements) \in Nat,
           Len(stack) \in Nat
    PROVE  NestInv'
  <1> DEFINE n == Len(statements)
  <1>1. /\ \A k \in 1 .. n : statements[k].block \in 0 .. k - 1
        /\ stack # <<>> => stack[1] = 0
        /\ \A d, e \in 1 .. Len(stack) : d < e => stack[d] < stack[e]
        /\ last = "normal" => /\ n > 0 /\ ~ statements[n].child
                              /\ statements[n].block = Last(stack)
    BY DEF NestInv
  <1>2. ASSUME NEW d \in 2 .. Len(stack)
        PROVE  /\ stack[d] \in 1 .. n
               /\ statements[stack[d]].child /\ statements[stack[d]].block = stack[d - 1]
               /\ \A k \in stack[d] + 1 .. n : k \in 1 .. n /\ statements[k].block # stack[d - 1]
    <2>1. /\ stack[d] \in 1 .. n
          /\ statements[stack[d]].child /\ statements[stack[d]].block = stack[d - 1]
          /\ \A k \in stack[d] + 1 .. n : statements[k].block # stack[d - 1]
      BY DEF NestInv
    <2> QED BY <2>1
  <1>3. \A d \in 2 .. Len(stack) :
             /\ stack[d] \in 1 .. n
             /\ statements'[stack[d]].child /\ statements'[stack[d]].block = stack[d - 1]
             /\ \A k \in stack[d] + 1 .. n : statements'[k].block # stack[d - 1]
    BY <1>2
  <1>4. last = "normal" => n \in 1 .. n
    BY <1>1
  <1> QED BY <1>1, <1>3, <1>4 DEF NestInv

\* What a layout says, one thing after the other.
LEMMA LayoutIs ==
    ASSUME NEW c, Layout(c), Len(statements) \in Nat
    PROVE  /\ c[0][1] = 1
           /\ \A b, m \in Nat : m > Len(statements) => c[b][m] = c[b][Len(statements) + 1]
           /\ \A k \in 1 .. Len(statements) : StatementLies(c, k)
           /\ last = "normal" => EndsAt(c, Len(statements)) = ReadEnd
           /\ last # "normal" => c[Last(stack)][Len(statements) + 1] = ReadEnd
  BY DEF Layout

-----------------------------------------------------------------------------
LEMMA OneMorePlace ==
    ASSUME NEW p \in Nat, NEW l \in Nat, 1 <= p
    PROVE  /\ p + (l + 1) = p + l + 1 /\ p + (l + 1) - 1 = p + l
           /\ \A x \in 1 .. l + 1 : x \in 1 .. l \/ x = l + 1
           /\ \A x \in 1 .. l : p + x - 1 \in Nat /\ 1 <= p + x - 1 /\ p + x - 1 < p + l
  OBVIOUS

\* A word of the statement that goes on.
LEMMA WordGoesOn ==
    ASSUME TypeInv, NestInv, Word, last = "normal", read \in Seq(Values),
           NEW c \in Places, Layout(c), NEW n \in Nat, n = Len(statements)
    PROVE  NestInv' /\ c \in Places' /\ Layout(c)'
  <1> DEFINE top == Last(stack)
             old == statements[n]
             ts == old.tokens
             v == token.value
             s == Statement(Append(ts, v), old.block, old.child)
  <1>1. /\ n \in Nat /\ n \in 1 .. n /\ Back(top) = n /\ stack # <<>>
        /\ old.block = top /\ ~ old.child /\ 0 \in Nat
    BY LastGoesOn
  <1>2. /\ v \in Values /\ read' = Append(read, v) /\ last' = "normal" /\ stack' = stack
    BY DEF TypeInv, LexerInv, Word, Takes, Shift
  <1>3. statements' = [statements EXCEPT ![n] = s]
    BY <1>1 DEF Word
  <1>4. /\ ts \in Seq(Values) /\ Len(ts) \in Nat /\ DOMAIN statements = 1 .. n
        /\ old.block \in 0 .. n /\ old.child \in BOOLEAN
    BY <1>1, StatementTypes
  <1>5. /\ Append(ts, v) \in Seq(Values) /\ Len(Append(ts, v)) = Len(ts) + 1
        /\ Append(ts, v)[Len(ts) + 1] = v /\ \A x \in 1 .. Len(ts) : Append(ts, v)[x] = ts[x]
    BY <1>2, <1>4, AppendProperties
  <1>6. s \in Statements(n) /\ s.block = old.block /\ s.child = old.child
        /\ s.tokens = Append(ts, v)
    BY <1>4, <1>5 DEF Statements, Statement
  <1> HIDE DEF s
  <1>7. Len(statements') = n /\ statements'[n] = s
        /\ \A k \in 1 .. n : k # n => statements'[k] = statements[k]
    <2>1. statements \in Seq(Statements(n)) /\ TreeInv
      BY DEF TypeInv, TreeInv
    <2>2. Len(statements') = n
      BY <1>1, <1>3, <1>6, <2>1, StatementReplaced
    <2> QED BY <1>1, <1>3, <1>4, <2>2
  <1>8. c \in Places'
    BY <1>1, <1>2, PlacesMoved
  <1>9. NestInv'
    <2>1. Len(stack) \in Nat
      BY <1>1, TopIsOpen
    <2>2. \A k \in 1 .. n : /\ statements'[k].block = statements[k].block
                            /\ statements'[k].child = statements[k].child
      BY <1>6, <1>7
    <2> QED BY <1>1, <1>2, <1>7, <2>1, <2>2, NestKept
  <1>10. /\ c[0][1] = 1 /\ EndsAt(c, n) = ReadEnd
         /\ \A b, m \in Nat : m > n => c[b][m] = c[b][n + 1]
         /\ \A k \in 1 .. n : StatementLies(c, k)
    BY <1>1, LayoutIs
  <1>11. ASSUME NEW k \in 1 .. n, k # n PROVE StatementLies(c, k)'
    <2>1. IsOpen(k) => IsOpen(k)'
      BY <1>2 DEF IsOpen
    <2>2. Kept(c, c, k)
      BY <1>7, <1>11, <2>1 DEF Kept
    <2> QED BY <1>2, <1>10, <2>2, StatementKept
  <1>12. EndsAt(c, n)' = ReadEnd' /\ StatementLies(c, n)'
    <2>1. /\ ReadEnd \in Nat /\ ReadEnd' = ReadEnd + 1 /\ read'[ReadEnd] = v /\ 1 <= ReadEnd
          /\ \A x \in Nat : 1 <= x /\ x < ReadEnd => read'[x] = read[x]
      BY <1>2, ReadGrows
    <2> DEFINE p == c[top][n]
               l == Len(ts)
    <2>2. EndsAt(c, n) = p + l /\ BeginsAt(c, n) = p
      BY <1>1 DEF BeginsAt, EndsAt
    <2>3. EndsAt(c, n)' = p + (l + 1) /\ BeginsAt(c, n)' = p
      BY <1>1, <1>5, <1>6, <1>7 DEF BeginsAt, EndsAt
    <2>4. WordsLie(c, n) /\ ElsewhereLies(c, n)
      BY <1>1, <1>10 DEF StatementLies
    <2>5. \A x \in 1 .. l : ts[x] = read[p + x - 1]
      BY <2>2, <2>4 DEF WordsLie
    <2>6. p \in 1 .. ReadEnd /\ top \in Nat
      <3>1. \A a, m \in Nat : c[a][m] \in 1 .. ReadEnd
        BY DEF Places
      <3>2. top \in Nat
        BY <1>1, TopIsOpen
      <3> QED BY <1>1, <3>1, <3>2
    <2>7. p + l = ReadEnd
      BY <1>10, <2>2
    <2>17. p \in Nat /\ 1 <= p /\ l \in Nat
      BY <1>4, <2>1, <2>6
    <2> HIDE DEF p, l, ts
    <2>8. /\ p + (l + 1) = ReadEnd + 1 /\ p + (l + 1) - 1 = ReadEnd
          /\ \A x \in 1 .. l + 1 : x \in 1 .. l \/ x = l + 1
          /\ \A x \in 1 .. l : p + x - 1 \in Nat /\ 1 <= p + x - 1 /\ p + x - 1 < ReadEnd
      BY <2>7, <2>17, OneMorePlace, Zenon
    <2>9. \A x \in 1 .. l : Append(ts, v)[x] = read'[p + x - 1]
      BY <1>5, <2>1, <2>5, <2>8 DEF l
    <2>10. Append(ts, v)[l + 1] = read'[p + (l + 1) - 1]
      BY <1>5, <2>1, <2>8 DEF l
    <2>11. \A x \in 1 .. l + 1 : s.tokens[x] = read'[p + x - 1]
      BY <1>6, <2>8, <2>9, <2>10
    <2>12. Len(s.tokens) = l + 1
      BY <1>5, <1>6 DEF l
    <2>13. WordsLie(c, n)'
      <3>1. EndsAt(c, n)' <= ReadEnd'
        BY <2>1, <2>3, <2>8
      <3> QED BY <1>7, <2>3, <2>11, <2>12, <3>1 DEF WordsLie
    <2>14. EndLies(c, n)'
      BY <1>2, <1>7 DEF EndLies
    <2>15. BlockLies(c, n)'
      BY <1>1, <1>6, <1>7 DEF BlockLies
    <2>16. ElsewhereLies(c, n)'
      BY <1>6, <1>7, <2>4 DEF ElsewhereLies
    <2> QED BY <2>1, <2>3, <2>8, <2>13, <2>14, <2>15, <2>16 DEF StatementLies
  <1>13. \A k \in 1 .. n : StatementLies(c, k)'
    BY <1>11, <1>12
  <1> QED BY <1>2, <1>7, <1>8, <1>9, <1>10, <1>12, <1>13 DEF Layout

\* What a delimiter's token holds.
TokenInv ==
    /\ token.type = "statement_end" => token.value = <<";">>
    /\ token.type = "start_block" => token.value = <<"{">>
    /\ token.type = "end_block" => token.value = <<"}">>

LEMMA TokenIs ==
    ASSUME TokenInv
    PROVE  /\ Takes("statement_end") => token.value = <<";">>
           /\ Takes("start_block") => token.value = <<"{">>
           /\ Takes("end_block") => token.value = <<"}">>
  BY DEF TokenInv, Takes

\* A word that begins a statement.
LEMMA WordBegins ==
    ASSUME TypeInv, NestInv, Word, last # "normal", read \in Seq(Values),
           NEW c \in Places, Layout(c), NEW n \in Nat, n = Len(statements)
    PROVE  NestInv' /\ c \in Places' /\ Layout(c)'
  <1> DEFINE top == Last(stack)
             v == token.value
             s == Statement(<<v>>, top, FALSE)
  <1>1. /\ v \in Values /\ read' = Append(read, v) /\ last' = "normal" /\ stack' = stack
        /\ stack # <<>> /\ statements' = Append(statements, s) /\ 0 \in Nat
    BY DEF TypeInv, LexerInv, Word, Takes, Shift
  <1>2. /\ Len(stack) \in Nat /\ 1 <= Len(stack) /\ top = stack[Len(stack)]
        /\ top \in 0 .. n /\ top \in Nat
    BY <1>1, TopIsOpen
  <1>3. s.block = top /\ s.child = FALSE /\ s.tokens = <<v>> /\ Len(<<v>>) = 1 /\ <<v>>[1] = v
    BY <1>1, Singles DEF Statement
  <1> HIDE DEF s
  <1>4. /\ Len(statements') = n + 1 /\ statements'[n + 1] = s
        /\ \A k \in 1 .. n : statements'[k] = statements[k]
    <2>1. statements \in Seq(Statements(n)) /\ DOMAIN statements = 1 .. n
      BY StatementTypes DEF TypeInv, TreeInv
    <2> QED BY <1>1, <2>1
  <1>5. c \in Places'
    BY <1>1, PlacesMoved
  <1>6. /\ \A k \in 1 .. n : statements[k].block \in 0 .. k - 1
        /\ stack[1] = 0
        /\ \A d, e \in 1 .. Len(stack) : d < e => stack[d] < stack[e]
    BY <1>1 DEF NestInv
  <1>7. ASSUME NEW d \in 2 .. Len(stack)
        PROVE  /\ stack[d] \in 1 .. n + 1
               /\ statements'[stack[d]].child /\ statements'[stack[d]].block = stack[d - 1]
               /\ \A k \in stack[d] + 1 .. n + 1 : statements'[k].block # stack[d - 1]
    <2>1. /\ stack[d] \in 1 .. n
          /\ statements[stack[d]].child /\ statements[stack[d]].block = stack[d - 1]
          /\ \A k \in stack[d] + 1 .. n : statements[k].block # stack[d - 1]
      BY DEF NestInv
    <2>2. d - 1 \in 1 .. Len(stack) /\ d - 1 < Len(stack) /\ Len(stack) \in 1 .. Len(stack)
      BY <1>2
    <2>3. stack[d - 1] < top
      BY <1>2, <1>6, <2>2
    <2>4. stack[d - 1] # top
      BY <1>2, <2>3
    <2>5. \A k \in stack[d] + 1 .. n + 1 : k = n + 1 \/ (k \in stack[d] + 1 .. n /\ k \in 1 .. n)
      BY <2>1
    <2>6. \A k \in stack[d] + 1 .. n + 1 : statements'[k].block # stack[d - 1]
      BY <1>3, <1>4, <2>1, <2>4, <2>5
    <2> QED BY <1>4, <2>1, <2>6
  <1>8. \A k \in 1 .. n + 1 : k = n + 1 \/ k \in 1 .. n
    OBVIOUS
  <1>9. NestInv'
    <2>1. \A k \in 1 .. n + 1 : statements'[k].block \in 0 .. k - 1
      BY <1>2, <1>3, <1>4, <1>6, <1>8
    <2>2. n + 1 > 0
      OBVIOUS
    <2> QED BY <1>1, <1>3, <1>4, <1>6, <1>7, <2>1, <2>2 DEF NestInv
  <1>10. /\ c[0][1] = 1 /\ c[top][n + 1] = ReadEnd
         /\ \A b, m \in Nat : m > n => c[b][m] = c[b][n + 1]
         /\ \A k \in 1 .. n : StatementLies(c, k)
    BY LayoutIs
  <1>11. \A b \in Nat : \A m \in Nat : m > n + 1 => c[b][m] = c[b][n + 1 + 1]
    BY <1>10
  <1>12. \A b \in Nat : c[b][n + 1 + 1] = c[b][n + 1]
    BY <1>10
  <1>13. ASSUME NEW k \in 1 .. n PROVE StatementLies(c, k)'
    <2>1. IsOpen(k) => IsOpen(k)'
      BY <1>1 DEF IsOpen
    <2>2. Kept(c, c, k)
      <3>1. c[k][Len(statements') + 1] = c[k][Len(statements) + 1]
        BY <1>4, <1>12
      <3> QED BY <1>4, <2>1, <3>1 DEF Kept
    <2> QED BY <1>1, <1>10, <2>2, StatementKept
  <1>14. EndsAt(c, n + 1)' = ReadEnd' /\ StatementLies(c, n + 1)'
    <2>1. /\ ReadEnd \in Nat /\ ReadEnd' = ReadEnd + 1 /\ read'[ReadEnd] = v
      BY <1>1, ReadGrows
    <2>2. BeginsAt(c, n + 1)' = ReadEnd
      BY <1>3, <1>4, <1>10 DEF BeginsAt
    <2>3. EndsAt(c, n + 1)' = ReadEnd + 1
      BY <1>3, <1>4, <2>2 DEF EndsAt
    <2>4. WordsLie(c, n + 1)'
      <3>1. \A x \in 1 .. 1 : <<v>>[x] = read'[ReadEnd + x - 1]
        BY <1>3, <2>1
      <3>2. EndsAt(c, n + 1)' <= ReadEnd'
        BY <2>1, <2>3
      <3> QED BY <1>3, <1>4, <2>2, <3>1, <3>2 DEF WordsLie
    <2>5. EndLies(c, n + 1)'
      BY <1>1, <1>4 DEF EndLies
    <2>6. BlockLies(c, n + 1)'
      BY <1>3, <1>4 DEF BlockLies
    <2>7. ElsewhereLies(c, n + 1)'
      BY <1>12 DEF ElsewhereLies
    <2> QED BY <2>1, <2>3, <2>4, <2>5, <2>6, <2>7 DEF StatementLies
  <1>15. \A k \in 1 .. n + 1 : StatementLies(c, k)'
    BY <1>8, <1>13, <1>14
  <1> QED BY <1>1, <1>4, <1>5, <1>9, <1>10, <1>11, <1>14, <1>15 DEF Layout

LEMMA NextIsMore == \A x \in Nat : x + 1 \in Nat /\ x < x + 1 /\ x + 1 > x /\ ~ (x > x)
  OBVIOUS

LEMMA FromOne == \A x \in Nat : x \in 1 .. x => 1 \in Nat /\ ~ (1 > x)
  OBVIOUS

LEMMA UpToNext == \A x \in Nat : x <= x + 1
  OBVIOUS

LEMMA BelowIt ==
    ASSUME NEW n \in Nat, NEW k \in 1 .. n
    PROVE  /\ k \in Nat /\ k + 1 \in Nat
           /\ \A a \in 0 .. k - 1 : a \in Nat /\ a # n
  OBVIOUS

LEMMA BehindIt ==
    ASSUME NEW n \in Nat, NEW k \in 1 .. n, NEW b \in 0 .. k - 1
    PROVE  /\ k \in Nat /\ k + 1 \in Nat /\ n + 1 \in Nat /\ n + 1 > n /\ b \in Nat /\ b # k
           /\ ~ (k > n) /\ (k # n => ~ (k + 1 > n))
           /\ \A a \in 0 .. k - 1 : a \in Nat
  OBVIOUS

\* A statement ends in a semicolon.
LEMMA StatementEnds ==
    ASSUME TypeInv, NestInv, StatementEnd, TokenInv, read \in Seq(Values),
           NEW c \in Places, Layout(c), NEW n \in Nat, n = Len(statements)
    PROVE  NestInv' /\ \E d \in Places' : Layout(d)'
  <1> DEFINE top == Last(stack)
             v == token.value
  <1>1. /\ v \in Values /\ read' = Append(read, v) /\ last' = "statement_end"
        /\ stack' = stack /\ statements' = statements /\ last = "normal" /\ 0 \in Nat
    BY DEF TypeInv, LexerInv, StatementEnd, Takes, Shift
  <1>2. n \in 1 .. n /\ statements[n].block = top /\ ~ statements[n].child /\ stack # <<>>
    BY <1>1, LastGoesOn
  <1>3. top \in Nat /\ Len(stack) \in Nat /\ IsOpen(top)
    BY <1>2, TopIsOpen
  <1>4. PICK d \in Places' : Moved(c, d, top, n)
    <2>1. MovedBehind(c, top, n) \in Places' /\ Moved(c, MovedBehind(c, top, n), top, n)
      BY <1>1, <1>3, PlacesMoved
    <2> QED BY <2>1, Zenon
  <1> HIDE DEF top, v
  <1>15. /\ n + 1 > n /\ ~ (n > n) /\ n + 1 \in Nat
         /\ \A m \in Nat : m > n => d[top][m] = ReadEnd + 1
         /\ \A a, m \in Nat : ~ (a = top /\ m > n) => d[a][m] = c[a][m]
    BY <1>3, <1>4, NextIsMore, Zenon DEF Moved
  <1>5. NestInv'
    BY <1>1, <1>3, NestKept
  <1>6. /\ c[0][1] = 1 /\ EndsAt(c, n) = ReadEnd
        /\ \A b, m \in Nat : m > n => c[b][m] = c[b][n + 1]
        /\ \A k \in 1 .. n : StatementLies(c, k)
    BY <1>1, LayoutIs
  <1>7. /\ ReadEnd \in Nat /\ ReadEnd' = ReadEnd + 1 /\ read'[ReadEnd] = v /\ 1 <= ReadEnd
    BY <1>1, ReadGrows
  <1>8. \A k \in 1 .. n : statements[k].block \in 0 .. k - 1
    BY DEF NestInv
  <1>9. ASSUME NEW k \in 1 .. n, k # n PROVE StatementLies(d, k)'
    <2>1. IsOpen(k) => IsOpen(k)'
      BY <1>1 DEF IsOpen
    <2>2. k \in Nat /\ k + 1 \in Nat /\ ~ (k > n) /\ ~ (k + 1 > n) /\ n + 1 \in Nat
          /\ statements[k].block \in Nat /\ \A a \in 0 .. k - 1 : a \in Nat
      BY <1>8, <1>9, BehindIt, Zenon
    <2>3. \A a \in Nat : d[a][k] = c[a][k] /\ d[a][k + 1] = c[a][k + 1]
      BY <1>15, <2>2, Zenon
    <2>4. ~ IsOpen(k) => d[k][n + 1] = c[k][n + 1]
      BY <1>3, <1>15, <2>2, Zenon
    <2>5. Kept(c, d, k)
      BY <1>1, <1>9, <2>1, <2>2, <2>3, <2>4 DEF Kept
    <2> QED BY <1>1, <1>6, <2>5, StatementKept
  <1>10. StatementLies(d, n)'
    <2>1. BeginsAt(d, n)' = BeginsAt(c, n)
      <3>1. d[top][n] = c[top][n]
        BY <1>3, <1>15, Zenon
      <3> QED BY <1>1, <1>2, <3>1 DEF BeginsAt
    <2>2. WordsLie(c, n) /\ ElsewhereLies(c, n)
      BY <1>2, <1>6 DEF StatementLies
    <2>3. WordsLie(d, n)' /\ EndsAt(d, n)' = ReadEnd
      BY <1>1, <1>2, <1>6, <2>1, <2>2, WordsKept
    <2>4. EndLies(d, n)'
      <3>1. d[top][n + 1] = ReadEnd + 1
        BY <1>15, Zenon
      <3>2. ReadEnd < ReadEnd + 1
        BY <1>7, NextIsMore, Zenon
      <3>3. ~ statements'[n].child /\ statements'[n].block = top /\ last' # "normal"
        BY <1>1, <1>2
      <3> QED BY <1>1, <1>7, <2>3, <3>1, <3>2, <3>3, TokenIs DEF EndLies, v, StatementEnd
    <2>5. BlockLies(d, n)'
      BY <1>1, <1>2 DEF BlockLies
    <2>6. ElsewhereLies(d, n)'
      <3>1. ASSUME NEW a \in 0 .. n - 1, a # top PROVE d[a][n + 1] = d[a][n]
        <4>1. c[a][n + 1] = c[a][n]
          BY <1>2, <2>2, <3>1 DEF ElsewhereLies
        <4>2. a \in Nat
          BY <1>2, <3>1, BehindIt, Zenon
        <4> QED BY <1>15, <3>1, <4>1, <4>2, Zenon
      <3> QED BY <1>1, <1>2, <3>1 DEF ElsewhereLies
    <2> QED BY <2>3, <2>4, <2>5, <2>6 DEF StatementLies
  <1>11. \A k \in 1 .. n : StatementLies(d, k)'
    BY <1>9, <1>10
  <1>12. ASSUME NEW b \in Nat, NEW m \in Nat, m > n PROVE d[b][m] = d[b][n + 1]
    <2>1. c[b][m] = c[b][n + 1]
      BY <1>6, <1>12, Zenon
    <2> QED BY <1>12, <1>15, <2>1, Zenon
  <1>13. d[0][1] = 1 /\ d[top][n + 1] = ReadEnd'
    <2>1. ~ (1 > n) /\ 1 \in Nat
      BY <1>2, FromOne, Zenon
    <2>2. d[0][1] = c[0][1]
      BY <1>1, <1>15, <2>1, Zenon
    <2> QED BY <1>6, <1>7, <1>15, <2>2, Zenon
  <1>14. Layout(d)'
    <2>1. Last(stack') = top /\ Len(statements') = n /\ last' # "normal"
      BY <1>1 DEF top
    <2>2. \A b, m \in Nat : m > n => d[b][m] = d[b][n + 1]
      BY <1>12, Zenon
    <2> QED BY <1>11, <1>13, <2>1, <2>2 DEF Layout
  <1> QED BY <1>4, <1>5, <1>14

\* A statement's block begins.
LEMMA BlockBegins ==
    ASSUME TypeInv, NestInv, StartBlock, TokenInv, read \in Seq(Values),
           NEW c \in Places, Layout(c), NEW n \in Nat, n = Len(statements)
    PROVE  NestInv' /\ \E d \in Places' : Layout(d)'
  <1> DEFINE top == Last(stack)
             v == token.value
             old == statements[n]
             s == Statement(old.tokens, old.block, TRUE)
  <1>1. /\ v \in Values /\ read' = Append(read, v) /\ last' = "start_block"
        /\ last = "normal" /\ 0 \in Nat
    BY DEF TypeInv, LexerInv, StartBlock, Takes, Shift
  <1>2. /\ n \in 1 .. n /\ old.block = top /\ ~ old.child /\ stack # <<>> /\ Back(top) = n
    BY <1>1, LastGoesOn
  <1>3. /\ top \in Nat /\ Len(stack) \in Nat /\ 1 <= Len(stack) /\ top = stack[Len(stack)]
    BY <1>2, TopIsOpen
  <1>4. /\ statements' = [statements EXCEPT ![n] = s] /\ stack' = Append(stack, n)
    BY <1>2 DEF StartBlock
  <1>5. s \in Statements(n) /\ s.block = top /\ s.child = TRUE /\ s.tokens = old.tokens
    BY <1>2, StatementTypes DEF Statements, Statement
  <1> HIDE DEF s
  <1>6. Len(statements') = n /\ statements'[n] = s
        /\ \A k \in 1 .. n : k # n => statements'[k] = statements[k]
    <2>1. statements \in Seq(Statements(n)) /\ TreeInv /\ DOMAIN statements = 1 .. n
      BY StatementTypes DEF TypeInv, TreeInv
    <2>2. Len(statements') = n
      BY <1>2, <1>4, <1>5, <2>1, StatementReplaced
    <2> QED BY <1>2, <1>4, <2>1, <2>2
  <1>7. /\ Len(stack') = Len(stack) + 1 /\ stack'[Len(stack) + 1] = n
        /\ \A x \in 1 .. Len(stack) : stack'[x] = stack[x]
        /\ Last(stack') = n
    <2>1. stack \in Seq(0 .. n) /\ n \in 0 .. n
      BY DEF TypeInv, TreeInv
    <2>2. /\ Len(stack') = Len(stack) + 1 /\ stack'[Len(stack) + 1] = n
          /\ \A x \in 1 .. Len(stack) : stack'[x] = stack[x]
      BY <1>4, <2>1
    <2> QED BY <2>2 DEF Last
  <1>8. /\ \A k \in 1 .. n : statements[k].block \in 0 .. k - 1
        /\ stack[1] = 0
        /\ \A x, y \in 1 .. Len(stack) : x < y => stack[x] < stack[y]
        /\ \A x \in 2 .. Len(stack) :
             /\ stack[x] \in 1 .. n
             /\ statements[stack[x]].child /\ statements[stack[x]].block = stack[x - 1]
             /\ \A k \in stack[x] + 1 .. n : statements[k].block # stack[x - 1]
    BY <1>2 DEF NestInv
  <1>9. NestInv'
    <2> DEFINE l == Len(stack)
    <2>1. \A k \in 1 .. n : statements'[k].block = statements[k].block
      BY <1>2, <1>5, <1>6
    <2>2. \A k \in 1 .. n : statements'[k].block \in 0 .. k - 1
      BY <1>8, <2>1
    <2>3. \A x \in 1 .. l + 1 : x = l + 1 \/ x \in 1 .. l
      BY <1>3
    <2>4. \A x \in 1 .. l : stack[x] \in Nat /\ stack[x] < n
      <3>1. \A x \in 1 .. l : x < l \/ x = l
        BY <1>3
      <3>2. top < n /\ l \in 1 .. l /\ n \in Nat
        BY <1>2, <1>3, <1>8
      <3>3. stack \in Seq(0 .. n)
        BY DEF TypeInv, TreeInv
      <3>4. \A x \in 1 .. l : stack[x] \in 0 .. n
        BY <3>3, ElementOfSeq
      <3>5. \A x \in 1 .. l : x < l => stack[x] < top
        <4>1. \A x, y \in 1 .. l : x < y => stack[x] < stack[y]
          BY <1>8
        <4>2. \A x \in 1 .. l : x < l => stack[x] < stack[l]
          BY <3>2, <4>1
        <4> QED BY <1>3, <4>2
      <3>6. \A x \in 1 .. l : stack[x] <= top
        BY <1>3, <3>1, <3>4, <3>5
      <3> QED BY <1>3, <3>2, <3>4, <3>6
    <2>5. ASSUME NEW x \in 1 .. l + 1, NEW y \in 1 .. l + 1, x < y
          PROVE  stack'[x] < stack'[y]
      <3>1. x \in 1 .. l
        BY <1>3, <2>5
      <3> QED BY <1>7, <1>8, <2>3, <2>4, <2>5, <3>1
    <2>6. ASSUME NEW x \in 2 .. l + 1
          PROVE  /\ stack'[x] \in 1 .. n /\ statements'[stack'[x]].child
                 /\ statements'[stack'[x]].block = stack'[x - 1]
                 /\ \A k \in stack'[x] + 1 .. n : statements'[k].block # stack'[x - 1]
      <3>1. CASE x = l + 1
        <4>1. stack'[x] = n /\ stack'[x - 1] = top
          BY <1>3, <1>7, <3>1
        <4>2. n + 1 .. n = {}
          OBVIOUS
        <4> QED BY <1>2, <1>5, <1>6, <4>1, <4>2
      <3>2. CASE x # l + 1
        <4>1. x \in 2 .. l /\ x \in 1 .. l /\ x - 1 \in 1 .. l
          BY <1>3, <3>2
        <4>2. /\ stack[x] \in 1 .. n /\ stack[x] # n
              /\ statements[stack[x]].child /\ statements[stack[x]].block = stack[x - 1]
              /\ \A k \in stack[x] + 1 .. n : statements[k].block # stack[x - 1]
          BY <1>8, <2>4, <4>1
        <4>3. stack'[x] = stack[x] /\ stack'[x - 1] = stack[x - 1]
          BY <1>7, <4>1
        <4>4. \A k \in stack[x] + 1 .. n : k \in 1 .. n
          BY <4>2
        <4> QED BY <1>6, <2>1, <4>2, <4>3, <4>4
      <3> QED BY <3>1, <3>2
    <2>7. stack'[1] = 0
      BY <1>3, <1>7, <1>8
    <2> QED BY <1>1, <1>6, <1>7, <2>2, <2>5, <2>6, <2>7 DEF NestInv
  <1>10. PICK d \in Places' : Moved(c, d, n, 0)
    <2>1. MovedBehind(c, n, 0) \in Places' /\ Moved(c, MovedBehind(c, n, 0), n, 0)
      BY <1>1, PlacesMoved
    <2> QED BY <2>1, Zenon
  <1> HIDE DEF top, v, old
  <1>11. /\ n + 1 \in Nat
         /\ \A m \in Nat : m > n => m > 0
         /\ n + 1 > n /\ n + 1 > 0
    OBVIOUS
  <1>12. /\ \A m \in Nat : m > 0 => d[n][m] = ReadEnd + 1
         /\ \A a, m \in Nat : a # n => d[a][m] = c[a][m]
    BY <1>10, Zenon DEF Moved
  <1>13. /\ c[0][1] = 1 /\ EndsAt(c, n) = ReadEnd
         /\ \A b, m \in Nat : m > n => c[b][m] = c[b][n + 1]
         /\ \A k \in 1 .. n : StatementLies(c, k)
    BY <1>1, LayoutIs
  <1>14. /\ ReadEnd \in Nat /\ ReadEnd' = ReadEnd + 1 /\ read'[ReadEnd] = v /\ 1 <= ReadEnd
    BY <1>1, ReadGrows
  <1>15. ASSUME NEW k \in 1 .. n, k # n PROVE StatementLies(d, k)'
    <2>1. IsOpen(k) => IsOpen(k)'
      <3> SUFFICES ASSUME NEW x \in 1 .. Len(stack), stack[x] = k PROVE IsOpen(k)'
        BY Zenon DEF IsOpen
      <3>1. x \in 1 .. Len(stack') /\ stack'[x] = k
        BY <1>3, <1>7
      <3> QED BY <3>1 DEF IsOpen
    <2>2. /\ k \in Nat /\ k + 1 \in Nat /\ statements[k].block \in Nat
          /\ statements[k].block # n /\ \A a \in 0 .. k - 1 : a \in Nat /\ a # n
      BY <1>8, <1>15, BelowIt
    <2>3. \A a \in Nat : a # n => d[a][k] = c[a][k] /\ d[a][k + 1] = c[a][k + 1]
      BY <1>12, <2>2, Zenon
    <2>4. d[k][n + 1] = c[k][n + 1]
      BY <1>11, <1>12, <1>15, <2>2, Zenon
    <2>5. Kept(c, d, k)
      BY <1>1, <1>6, <1>15, <2>1, <2>2, <2>3, <2>4 DEF Kept
    <2> QED BY <1>1, <1>13, <2>5, StatementKept
  <1>16. StatementLies(d, n)'
    <2>1. top # n /\ \A a \in 0 .. n - 1 : a \in Nat /\ a # n
      BY <1>2, <1>8, BelowIt DEF old
    <2>2. d[top][n] = c[top][n]
      BY <1>3, <1>12, <2>1, Zenon
    <2>3. WordsLie(c, n) /\ ElsewhereLies(c, n)
      BY <1>2, <1>13 DEF StatementLies
    <2>4. BeginsAt(d, n)' = BeginsAt(c, n)
      BY <1>2, <1>5, <1>6, <2>2 DEF BeginsAt, old
    <2>5. EndsAt(d, n)' = EndsAt(c, n)
      BY <1>5, <1>6, <2>4 DEF EndsAt, old
    <2>6. WordsLie(d, n)'
      <3> DEFINE l == Len(old.tokens)
                 p == BeginsAt(c, n)
      <3>1. p + l = ReadEnd /\ p + l <= ReadEnd
        BY <1>13, <2>3 DEF EndsAt, WordsLie, old
      <3>2. \A x \in 1 .. l : old.tokens[x] = read[p + x - 1]
        BY <2>3 DEF WordsLie, old
      <3>3. l \in Nat /\ p \in 1 .. ReadEnd
        <4>1. \A a, m \in Nat : c[a][m] \in 1 .. ReadEnd
          BY DEF Places
        <4>2. p = c[top][n]
          BY <1>2 DEF BeginsAt, old
        <4> QED BY <1>2, <1>3, <4>1, <4>2, StatementTypes DEF old
      <3>4. p \in Nat /\ 1 <= p
        BY <1>14, <3>3
      <3> HIDE DEF p, l
      <3>5. \A x \in 1 .. l : p + x - 1 \in Nat /\ 1 <= p + x - 1 /\ p + x - 1 < ReadEnd
        BY <3>1, <3>3, <3>4, OneMorePlace, Zenon
      <3>6. \A x \in Nat : 1 <= x /\ x < ReadEnd => read'[x] = read[x]
        BY <1>1, ReadGrows
      <3>7. \A x \in 1 .. l : old.tokens[x] = read'[p + x - 1]
        BY <3>2, <3>5, <3>6, Zenon
      <3>8. EndsAt(d, n)' <= ReadEnd'
        <4>1. \A x \in Nat : x <= x + 1
          BY UpToNext
        <4> QED BY <1>13, <1>14, <2>5, <4>1, Zenon
      <3> QED BY <1>5, <1>6, <2>4, <3>7, <3>8 DEF WordsLie, p, l
    <2>7. EndLies(d, n)'
      <3>1. d[n][n + 1] = ReadEnd + 1
        BY <1>11, <1>12, Zenon
      <3>2. ReadEnd < ReadEnd + 1
        BY <1>14, NextIsMore, Zenon
      <3>3. statements'[n].child /\ last' # "normal"
        BY <1>1, <1>5, <1>6
      <3> QED BY <1>13, <1>14, <2>5, <3>1, <3>2, <3>3, TokenIs DEF EndLies, v, StartBlock
    <2>8. BlockLies(d, n)'
      <3>1. IsOpen(n)'
        <4>1. Len(stack) + 1 \in 1 .. Len(stack')
          BY <1>3, <1>7
        <4> QED BY <1>7, <4>1, Zenon DEF IsOpen
      <3> QED BY <3>1 DEF BlockLies
    <2>9. ElsewhereLies(d, n)'
      <3>1. ASSUME NEW a \in 0 .. n - 1, a # top PROVE d[a][n + 1] = d[a][n]
        <4>1. c[a][n + 1] = c[a][n]
          BY <1>2, <2>3, <3>1 DEF ElsewhereLies, old
        <4> QED BY <1>11, <1>12, <2>1, <4>1, Zenon
      <3> QED BY <1>5, <1>6, <3>1 DEF ElsewhereLies
    <2> QED BY <2>6, <2>7, <2>8, <2>9 DEF StatementLies
  <1>17. \A k \in 1 .. n : StatementLies(d, k)'
    BY <1>15, <1>16
  <1>18. Layout(d)'
    <2>1. \A b, m \in Nat : m > n => d[b][m] = d[b][n + 1]
      <3>1. ASSUME NEW b \in Nat, NEW m \in Nat, m > n PROVE d[b][m] = d[b][n + 1]
        <4>1. c[b][m] = c[b][n + 1]
          BY <1>13, <3>1, Zenon
        <4> QED BY <1>11, <1>12, <3>1, <4>1, Zenon
      <3> QED BY <3>1, Zenon
    <2>2. d[0][1] = 1
      <3>1. 0 # n /\ 1 \in Nat
        BY <1>2
      <3> QED BY <1>1, <1>12, <1>13, <3>1, Zenon
    <2>3. d[n][n + 1] = ReadEnd'
      BY <1>11, <1>12, <1>14, Zenon
    <2> QED BY <1>1, <1>6, <1>7, <1>17, <2>1, <2>2, <2>3 DEF Layout
  <1> QED BY <1>9, <1>18

LEMMA TwoPlaces ==
    ASSUME NEW n \in Nat, NEW k \in 1 .. n, NEW l \in 1 .. n
    PROVE  /\ l < k => /\ ~ (l > k) /\ ~ (l + 1 > k)
           /\ l > k => /\ l + 1 > k /\ l \in k + 1 .. n
           /\ l < k \/ l = k \/ l > k
           /\ n + 1 > k /\ k + 1 > k /\ ~ (k > k) /\ ~ (1 > k)
           /\ n + 1 \in Nat /\ l \in Nat /\ l + 1 \in Nat /\ k \in Nat /\ k + 1 \in Nat
           /\ \A m \in Nat : m > n => m > k
           /\ \A a \in 0 .. l - 1 : a \in Nat
  OBVIOUS

LEMMA NotAbove == \A x \in Nat : \A y \in 0 .. x : ~ (y > x)
  OBVIOUS

LEMMA InnermostBlock ==
    ASSUME TypeInv, NestInv, NEW n \in Nat, n = Len(statements),
           NEW t \in Nat, t = Len(stack), 2 <= t
    PROVE  LET top == stack[t]
               b == stack[t - 1]
           IN  /\ Last(stack) = top /\ top \in 1 .. n /\ b \in 0 .. top - 1 /\ IsOpen(b)
               /\ statements[top].child /\ statements[top].block = b
               /\ \A k \in top + 1 .. n : statements[k].block # b
               /\ \A x \in 1 .. t : stack[x] \in 0 .. top /\ (stack[x] = top => x = t)
  <1> DEFINE top == stack[t]
             b == stack[t - 1]
  <1>1. t \in 2 .. t /\ t \in 1 .. t /\ t - 1 \in 1 .. t /\ t - 1 < t
    OBVIOUS
  <1>2. \A x, y \in 1 .. t : x < y => stack[x] < stack[y]
    BY DEF NestInv
  <1>3. /\ top \in 1 .. n
        /\ statements[top].child /\ statements[top].block = b
        /\ \A k \in top + 1 .. n : statements[k].block # b
    BY <1>1 DEF NestInv
  <1>4. \A x \in 1 .. t : stack[x] \in 0 .. n
    BY ElementOfSeq DEF TypeInv, TreeInv
  <1>5. \A x \in 1 .. t : x < t \/ x = t
    OBVIOUS
  <1>6. ASSUME NEW x \in 1 .. t, x < t PROVE stack[x] < top
    BY <1>1, <1>2, <1>6
  <1>7. \A x \in 1 .. t : stack[x] \in 0 .. top /\ (stack[x] = top => x = t)
    BY <1>3, <1>4, <1>5, <1>6
  <1>8. b \in 0 .. top - 1
    BY <1>1, <1>3, <1>4, <1>6
  <1>9. IsOpen(b)
    BY <1>1 DEF IsOpen
  <1> QED BY <1>3, <1>7, <1>8, <1>9 DEF Last

\* A statement's block ends.
LEMMA BlockEnds ==
    ASSUME TypeInv, NestInv, EndBlock, TokenInv, read \in Seq(Values),
           NEW c \in Places, Layout(c), NEW n \in Nat, n = Len(statements),
           NEW t \in Nat, t = Len(stack), 2 <= t
    PROVE  NestInv' /\ \E d \in Places' : Layout(d)'
  <1> DEFINE v == token.value
  <1>1. /\ v \in Values /\ read' = Append(read, v) /\ last' = "end_block" /\ 0 \in Nat
        /\ last # "normal" /\ statements' = statements /\ stack' = Pop(stack)
    BY DEF TypeInv, LexerInv, EndBlock, EndsBlock, Takes, Shift
  <1>17. PICK top \in 1 .. n : top = stack[t]
    BY InnermostBlock
  <1>18. PICK b \in 0 .. top - 1 : b = stack[t - 1]
    BY <1>17, InnermostBlock
  <1>2. top = stack[t] /\ b = stack[t - 1]
    BY <1>17, <1>18
  <1>3. /\ Last(stack) = top /\ IsOpen(b)
        /\ statements[top].child /\ statements[top].block = b
        /\ \A k \in top + 1 .. n : statements[k].block # b
        /\ \A x \in 1 .. t : stack[x] \in 0 .. top /\ (stack[x] = top => x = t)
    BY <1>2, InnermostBlock
  <1>4. /\ top \in Nat /\ b \in Nat /\ b # top
    BY <1>2
  <1>5. /\ Len(stack') = t - 1 /\ \A x \in 1 .. t - 1 : stack'[x] = stack[x] /\ x \in 1 .. t
        /\ Last(stack') = b
    <2>1. stack \in Seq(0 .. n)
      BY DEF TypeInv, TreeInv
    <2>2. Len(stack') = t - 1 /\ \A x \in 1 .. t - 1 : stack'[x] = stack[x] /\ x \in 1 .. t
      BY <1>1, <2>1 DEF Pop, Front
    <2> QED BY <1>2, <2>2 DEF Last
  <1>6. NestInv'
    <2>1. /\ \A k \in 1 .. n : statements[k].block \in 0 .. k - 1
          /\ stack[1] = 0
          /\ \A x, y \in 1 .. t : x < y => stack[x] < stack[y]
      BY DEF NestInv
    <2>2. \A x \in 2 .. t :
             /\ stack[x] \in 1 .. n
             /\ statements[stack[x]].child /\ statements[stack[x]].block = stack[x - 1]
             /\ \A k \in stack[x] + 1 .. n : statements[k].block # stack[x - 1]
      BY DEF NestInv
    <2>3. \A x \in 2 .. t - 1 : x \in 2 .. t /\ x \in 1 .. t - 1 /\ x - 1 \in 1 .. t - 1
      OBVIOUS
    <2>4. ASSUME NEW x \in 2 .. t - 1
          PROVE  /\ stack'[x] \in 1 .. n
                 /\ statements[stack'[x]].child /\ statements[stack'[x]].block = stack'[x - 1]
                 /\ \A k \in stack'[x] + 1 .. n : statements[k].block # stack'[x - 1]
      <3>1. x \in 2 .. t /\ x \in 1 .. t - 1 /\ x - 1 \in 1 .. t - 1
        BY <2>3, Zenon
      <3>2. stack'[x] = stack[x] /\ stack'[x - 1] = stack[x - 1]
        BY <1>5, <3>1, Zenon
      <3>3. /\ stack[x] \in 1 .. n
            /\ statements[stack[x]].child /\ statements[stack[x]].block = stack[x - 1]
            /\ \A k \in stack[x] + 1 .. n : statements[k].block # stack[x - 1]
        BY <2>2, <3>1, Zenon
      <3> QED BY <3>2, <3>3, Zenon
    <2>5. stack'[1] = 0
      BY <1>5, <2>1
    <2>6. \A x, y \in 1 .. t - 1 : x < y => stack'[x] < stack'[y]
      BY <1>5, <2>1
    <2> QED BY <1>1, <1>5, <2>1, <2>4, <2>5, <2>6 DEF NestInv
  <1>7. PICK d \in Places' : Moved(c, d, b, top)
    <2>1. MovedBehind(c, b, top) \in Places' /\ Moved(c, MovedBehind(c, b, top), b, top)
      BY <1>1, <1>4, PlacesMoved
    <2> QED BY <2>1, Zenon
  <1> HIDE DEF v
  <1>8. /\ \A m \in Nat : m > top => d[b][m] = ReadEnd + 1
        /\ \A a, m \in Nat : ~ (a = b /\ m > top) => d[a][m] = c[a][m]
    BY <1>4, <1>7, Zenon DEF Moved
  <1>9. /\ c[0][1] = 1 /\ c[top][n + 1] = ReadEnd
        /\ \A a, m \in Nat : m > n => c[a][m] = c[a][n + 1]
        /\ \A k \in 1 .. n : StatementLies(c, k)
    BY <1>1, <1>3, LayoutIs
  <1>10. /\ ReadEnd \in Nat /\ ReadEnd' = ReadEnd + 1 /\ read'[ReadEnd] = v /\ 1 <= ReadEnd
         /\ \A x \in Nat : 1 <= x /\ x < ReadEnd => read'[x] = read[x]
    BY <1>1, ReadGrows
  <1>11. \A k \in 1 .. n : statements[k].block \in 0 .. k - 1
    BY DEF NestInv
  <1>12. ASSUME NEW k \in 1 .. n, k < top PROVE StatementLies(d, k)'
    <2>1. IsOpen(k) => IsOpen(k)'
      <3> SUFFICES ASSUME NEW x \in 1 .. t, stack[x] = k PROVE IsOpen(k)'
        BY Zenon DEF IsOpen
      <3>1. x # t
        BY <1>2, <1>12
      <3>2. x \in 1 .. Len(stack') /\ stack'[x] = k
        BY <1>5, <3>1
      <3> QED BY <3>2 DEF IsOpen
    <2>2. /\ ~ (k > top) /\ ~ (k + 1 > top) /\ k \in Nat /\ k + 1 \in Nat /\ n + 1 \in Nat
          /\ \A a \in 0 .. k - 1 : a \in Nat
      BY <1>12, TwoPlaces, Zenon
    <2>3. statements[k].block \in Nat
      BY <1>11, <2>2, Zenon
    <2>4. \A a \in Nat : d[a][k] = c[a][k] /\ d[a][k + 1] = c[a][k + 1]
      BY <1>8, <2>2, Zenon
    <2>5. ASSUME ~ IsOpen(k) PROVE d[k][n + 1] = c[k][n + 1]
      <3>1. k # b
        BY <1>3, <2>5, Zenon
      <3> QED BY <1>8, <2>2, <3>1, Zenon
    <2>6. Kept(c, d, k)
      BY <1>1, <2>1, <2>2, <2>3, <2>4, <2>5 DEF Kept
    <2> QED BY <1>1, <1>9, <2>6, StatementKept
  <1>13. ASSUME NEW k \in 1 .. n, k > top PROVE StatementLies(d, k)'
    <2>1. /\ k \in top + 1 .. n /\ k + 1 > top /\ k \in Nat /\ k + 1 \in Nat /\ n + 1 \in Nat
          /\ \A a \in 0 .. k - 1 : a \in Nat
      BY <1>13, TwoPlaces, Zenon
    <2>2. statements[k].block # b /\ statements[k].block \in Nat /\ k # b
      <3>1. statements[k].block # b
        BY <1>3, <2>1, Zenon
      <3>2. statements[k].block \in Nat
        BY <1>11, <2>1, Zenon
      <3>3. k # b
        BY <1>2, <1>13
      <3> QED BY <3>1, <3>2, <3>3
    <2>3. ~ IsOpen(k)
      <3>1. \A x \in 1 .. t : stack[x] # k
        BY <1>3, <1>4, <1>13, NotAbove, Zenon
      <3> QED BY <3>1 DEF IsOpen
    <2>4. \A a \in Nat : a # b => d[a][k] = c[a][k] /\ d[a][k + 1] = c[a][k + 1]
                                  /\ d[a][n + 1] = c[a][n + 1]
      BY <1>8, <2>1, Zenon
    <2>5. d[b][k + 1] = d[b][k]
      BY <1>8, <1>13, <2>1, Zenon
    <2>6. Kept(c, d, k)
      BY <1>1, <2>1, <2>2, <2>3, <2>4, <2>5 DEF Kept
    <2> QED BY <1>1, <1>9, <2>6, StatementKept
  <1>14. StatementLies(d, top)'
    <2>1. /\ ~ (top > top) /\ top + 1 > top /\ top + 1 \in Nat /\ n + 1 \in Nat
          /\ \A a \in 0 .. top - 1 : a \in Nat
      BY TwoPlaces, Zenon
    <2>2. WordsLie(c, top) /\ EndLies(c, top) /\ ElsewhereLies(c, top)
      BY <1>9 DEF StatementLies
    <2>3. d[b][top] = c[b][top]
      BY <1>4, <1>8, <2>1, Zenon
    <2>4. BeginsAt(d, top)' = BeginsAt(c, top)
      BY <1>1, <1>3, <2>3 DEF BeginsAt
    <2> DEFINE q == EndsAt(c, top)
    <2>5. WordsLie(d, top)' /\ EndsAt(d, top)' = q /\ q \in Nat /\ 1 <= q
      BY <1>1, <2>2, <2>4, WordsKept
    <2>6. EndLies(d, top)'
      <3>1. q < ReadEnd /\ read[q] = <<"{">> /\ c[top][top + 1] = q + 1
        BY <1>1, <1>3, <2>2 DEF EndLies
      <3> HIDE DEF q
      <3>2. read'[q] = read[q] /\ q < ReadEnd + 1
        BY <1>10, <2>5, <3>1, StillSmaller, Zenon
      <3>3. d[top][top + 1] = c[top][top + 1]
        BY <1>4, <1>8, <2>1, Zenon
      <3> QED BY <1>1, <1>3, <1>10, <2>5, <3>1, <3>2, <3>3 DEF EndLies
    <2>7. BlockLies(d, top)'
      <3>1. d[top][n + 1] = ReadEnd /\ d[b][top + 1] = ReadEnd + 1
        BY <1>4, <1>8, <1>9, <2>1, Zenon
      <3>2. ReadEnd < ReadEnd + 1
        BY <1>10, NextIsMore, Zenon
      <3> QED BY <1>1, <1>3, <1>10, <3>1, <3>2, TokenIs DEF BlockLies, v, EndBlock
    <2>8. ElsewhereLies(d, top)'
      <3>1. ASSUME NEW a \in 0 .. top - 1, a # b PROVE d[a][top + 1] = d[a][top]
        <4>1. c[a][top + 1] = c[a][top]
          BY <1>3, <2>2, <3>1 DEF ElsewhereLies
        <4> QED BY <1>4, <1>8, <2>1, <3>1, <4>1, Zenon
      <3> QED BY <1>1, <1>3, <3>1 DEF ElsewhereLies
    <2> QED BY <2>5, <2>6, <2>7, <2>8 DEF StatementLies
  <1>15. \A k \in 1 .. n : StatementLies(d, k)'
    <2>1. \A k \in 1 .. n : k < top \/ k = top \/ k > top
      BY <1>4
    <2> QED BY <1>12, <1>13, <1>14, <2>1, Zenon
  <1>16. Layout(d)'
    <2>1. /\ n + 1 > top /\ ~ (1 > top) /\ n + 1 \in Nat /\ \A m \in Nat : m > n => m > top
      BY TwoPlaces, Zenon
    <2>2. \A a, m \in Nat : m > n => d[a][m] = d[a][n + 1]
      <3>1. ASSUME NEW a \in Nat, NEW m \in Nat, m > n PROVE d[a][m] = d[a][n + 1]
        <4>1. c[a][m] = c[a][n + 1] /\ m > top
          BY <1>9, <2>1, <3>1, Zenon
        <4> QED BY <1>8, <2>1, <4>1, Zenon
      <3> QED BY <3>1, Zenon
    <2>3. d[0][1] = 1
      <3>1. 1 \in Nat
        BY <1>4
      <3> QED BY <1>1, <1>8, <1>9, <2>1, <3>1, Zenon
    <2>4. d[b][n + 1] = ReadEnd'
      BY <1>8, <1>10, <2>1, Zenon
    <2> QED BY <1>1, <1>5, <1>15, <2>2, <2>3, <2>4 DEF Layout
  <1> QED BY <1>6, <1>16

-----------------------------------------------------------------------------
\* The tokens that are delimiters hold them.
LEMMA TokenNext ==
    ASSUME TokenInv, [Next]_vars
    PROVE  TokenInv'
  <1>1. ASSUME NEW type \in {"normal", "comment", "eof", "error"}, NEW w, Yield(type, w)
        PROVE  TokenInv'
    BY <1>1 DEF Yield, TokenInv
  <1>2. ASSUME NEW c \in Delimiters, Yield(DelimiterType(c), <<c>>) PROVE TokenInv'
    BY <1>2 DEF Yield, TokenInv, DelimiterType, Delimiters
  <1>3. ASSUME token' = token PROVE TokenInv'
    BY <1>3 DEF TokenInv
  <1>4. ASSUME token' = NoToken PROVE TokenInv'
    BY <1>4 DEF TokenInv, NoToken
  <1>5. CASE InitialWhitespace
    <2>1. ASSUME NEW state, NEW w, GoOn(state, w) PROVE TokenInv'
      BY <1>3, <2>1 DEF GoOn
    <2> QED BY <1>2, <1>5, <2>1, Zenon DEF InitialWhitespace
  <1>6. CASE Quote
    BY <1>1, <1>3, <1>6 DEF Quote, GoOn
  <1>7. CASE Comment
    BY <1>1, <1>3, <1>7 DEF Comment, GoOn
  <1>8. CASE Normal
    BY <1>1, <1>3, <1>8 DEF Normal, GoOn
  <1>9. CASE EndOfFile
    BY <1>1, <1>9 DEF EndOfFile
  <1>10. CASE Parse
    BY <1>4, <1>10 DEF Parse, SkipComment, Word, StatementEnd, StartBlock, EndBlock,
                       BelowRoot, BadTransition, Parsed, Shift, Stop
  <1>11. CASE GetServerSettings
    BY <1>3, <1>4, <1>11 DEF GetServerSettings, Skip, Port, PortThrows, Location,
                             DuplicatePath, LocationUndefined, SlashesLoop, Check, Stop
  <1>12. CASE UNCHANGED vars
    BY <1>3, <1>12
  <1> QED BY <1>5, <1>6, <1>7, <1>8, <1>9, <1>10, <1>11, <1>12 DEF Next, ParseToken

\* As long as a block is open, what was read has a layout; when the tree is complete
\* the open block is the root.
LaidOut == NestInv /\ \E c \in Places : Layout(c)

PrintInv ==
    /\ TypeInv /\ TokenInv
    /\ read \in Seq(Values)
    /\ stack # <<>> => LaidOut
    /\ pc \notin {"parse", "failed", "undefined"} => stack = << 0 >> /\ last # "normal"

LEMMA PrintInit == Init => PrintInv
  <1> SUFFICES ASSUME Init PROVE PrintInv
    OBVIOUS
  <1>1. TypeInv
    BY TypeInit
  <1>2. TokenInv
    BY DEF Init, TokenInv, NoToken
  <1>3. read \in Seq(Values) /\ ReadEnd = 1
    BY EmptySeq DEF Init, ReadEnd
  <1>4. /\ stack = << 0 >> /\ last = "start" /\ Len(statements) = 0 /\ pc = "parse"
        /\ Len(stack) = 1 /\ stack[1] = 0 /\ Last(stack) = 0
    BY DEF Init, Last
  <1>5. NestInv
    BY <1>4 DEF NestInv
  <1> DEFINE c == [a \in Nat |-> [m \in Nat |-> 1]]
  <1>6. c \in Places
    BY <1>3 DEF Places
  <1>7. \A a, m \in Nat : c[a][m] = 1
    OBVIOUS
  <1> HIDE DEF c
  <1>8. Layout(c)
    BY <1>3, <1>4, <1>7 DEF Layout
  <1>9. LaidOut
    BY <1>5, <1>6, <1>8, Zenon DEF LaidOut
  <1> QED BY <1>1, <1>2, <1>3, <1>4, <1>9 DEF PrintInv

\* Steps that leave the tree alone.
LEMMA TreeStays ==
    ASSUME LaidOut, tree' = tree
    PROVE  LaidOut'
  <1>1. NestInv'
    BY DEF LaidOut, NestInv
  <1>2. Places' = Places
    BY DEF Places, ReadEnd
  <1>3. ASSUME NEW c, Layout(c) PROVE Layout(c)'
    <2>1. \A k : IsOpen(k)' = IsOpen(k)
      BY DEF IsOpen
    <2>2. \A k : /\ WordsLie(c, k)' = WordsLie(c, k) /\ EndLies(c, k)' = EndLies(c, k)
                 /\ EndsAt(c, k)' = EndsAt(c, k)
      BY DEF WordsLie, EndLies, EndsAt, BeginsAt, ReadEnd
    <2>3. \A k : BlockLies(c, k)' = BlockLies(c, k) /\ ElsewhereLies(c, k)' = ElsewhereLies(c, k)
      BY <2>1 DEF BlockLies, ElsewhereLies, ReadEnd
    <2>4. \A k : StatementLies(c, k)' = StatementLies(c, k)
      BY <2>2, <2>3 DEF StatementLies
    <2> QED BY <1>3, <2>2, <2>4 DEF Layout, ReadEnd
  <1> QED BY <1>1, <1>2, <1>3 DEF LaidOut

LEMMA LaidOutGrows ==
    ASSUME TypeInv, TokenInv, read \in Seq(Values), LaidOut, stack' # <<>>,
           Word \/ StatementEnd \/ StartBlock \/ EndBlock
    PROVE  LaidOut'
  <1>1. PICK n \in Nat : n = Len(statements)
    BY StatementTypes
  <1>2. NestInv
    BY DEF LaidOut
  <1>3. PICK c \in Places : Layout(c)
    BY DEF LaidOut
  <1>4. CASE Word
    <2>1. NestInv' /\ c \in Places' /\ Layout(c)'
      BY <1>1, <1>2, <1>3, <1>4, WordGoesOn, WordBegins, Zenon
    <2> QED BY <2>1, Zenon DEF LaidOut
  <1>5. CASE StatementEnd
    BY <1>1, <1>2, <1>3, <1>5, StatementEnds, Zenon DEF LaidOut
  <1>6. CASE StartBlock
    BY <1>1, <1>2, <1>3, <1>6, BlockBegins, Zenon DEF LaidOut
  <1>7. CASE EndBlock
    <2>1. stack # <<>> /\ stack' = Pop(stack)
      BY <1>7 DEF EndBlock
    <2>2. Len(stack) \in Nat /\ 1 <= Len(stack)
      BY <2>1, TopIsOpen
    <2>3. Len(Pop(stack)) = Len(stack) - 1 /\ stack' \in Seq(0 .. n)
      BY <1>1, <2>1, Tops DEF TypeInv, TreeInv
    <2>4. stack' = <<>> <=> Len(stack') = 0
      BY <2>3, EmptySeq, Zenon
    <2>6. 2 <= Len(stack)
      <3>1. Len(stack') = Len(stack) - 1 /\ Len(stack') # 0
        BY <2>1, <2>3, <2>4, Zenon
      <3>2. \A x \in Nat : 1 <= x /\ x - 1 # 0 => 2 <= x
        OBVIOUS
      <3> QED BY <2>2, <3>1, <3>2, Zenon
    <2>5. PICK t \in Nat : t = Len(stack) /\ 2 <= t
      BY <2>2, <2>6, Zenon
    <2> QED BY <1>1, <1>2, <1>3, <1>7, <2>5, BlockEnds, Zenon DEF LaidOut
  <1> QED BY <1>4, <1>5, <1>6, <1>7

LEMMA PrintNext == PrintInv /\ [Next]_vars => PrintInv'
  <1> SUFFICES ASSUME PrintInv, [Next]_vars PROVE PrintInv'
    OBVIOUS
  <1>1. /\ TypeInv /\ TokenInv /\ read \in Seq(Values)
        /\ stack # <<>> => LaidOut
        /\ pc \notin {"parse", "failed", "undefined"} => stack = << 0 >> /\ last # "normal"
    BY DEF PrintInv
  <1>2. TypeInv' /\ TokenInv'
    BY <1>1, TypeNext, TokenNext
  <1>3. ASSUME tree' = tree,
               pc' \notin {"parse", "failed", "undefined"} =>
                   pc \notin {"parse", "failed", "undefined"}
        PROVE  PrintInv'
    <2>1. stack' # <<>> => LaidOut'
      BY <1>1, <1>3, TreeStays
    <2> QED BY <1>1, <1>2, <1>3, <2>1 DEF PrintInv
  <1>4. ASSUME Word \/ StatementEnd \/ StartBlock \/ EndBlock PROVE PrintInv'
    <2>1. /\ pc' = "parse" /\ read' = Append(read, token.value) /\ token.value \in Values
          /\ stack # <<>> \/ StatementEnd \/ StartBlock
      BY <1>1, <1>4 DEF Word, StatementEnd, StartBlock, EndBlock, Takes, Shift, TypeInv, LexerInv
    <2>2. read' \in Seq(Values)
      BY <1>1, <2>1
    <2>3. stack # <<>>
      <3>1. StatementEnd \/ StartBlock => last = "normal"
        BY DEF StatementEnd, StartBlock
      <3>2. last = "normal" => stack # <<>>
        BY <1>1 DEF TypeInv, TreeInv
      <3> QED BY <2>1, <3>1, <3>2, Zenon
    <2>4. stack' # <<>> => LaidOut'
      BY <1>1, <1>4, <2>3, LaidOutGrows
    <2> QED BY <1>2, <2>1, <2>2, <2>4 DEF PrintInv
  <1>5. CASE ParseToken
    BY <1>3, <1>5 DEF ParseToken, InitialWhitespace, Quote, Comment, Normal, EndOfFile
  <1>6. CASE SkipComment \/ BelowRoot \/ BadTransition
    BY <1>3, <1>6 DEF SkipComment, BelowRoot, BadTransition, Stop
  <1>7. CASE Parsed
    <2>1. /\ tree' = tree /\ last # "normal" /\ indent = 0 /\ pc' = "settings"
      BY <1>7 DEF Parsed, Stop
    <2>2. stack \in Seq(0 .. Len(statements)) /\ Len(stack) = 1
      BY <1>1, <2>1, LenProperties DEF TypeInv, TreeInv
    <2>3. stack # <<>>
      <3>1. stack = <<>> => Len(stack) = 0
        BY <2>2, EmptySeq, Zenon
      <3>2. 0 # 1
        OBVIOUS
      <3> QED BY <2>2, <3>1, <3>2, Zenon
    <2>4. LaidOut' /\ stack[1] = 0
      BY <1>1, <2>1, <2>3, TreeStays DEF LaidOut, NestInv
    <2>5. stack = << 0 >>
      BY <2>2, <2>4
    <2> QED BY <1>1, <1>2, <2>1, <2>4, <2>5 DEF PrintInv
  <1>8. CASE GetServerSettings
    BY <1>3, <1>8 DEF GetServerSettings, Skip, Port, PortThrows, Location, DuplicatePath,
                      LocationUndefined, SlashesLoop, Check, Stop, AtKeyword
  <1>9. CASE UNCHANGED vars
    BY <1>3, <1>9
  <1> QED BY <1>4, <1>5, <1>6, <1>7, <1>8, <1>9 DEF Next, Parse

\* Whatever the file holds, when it is accepted the tree is the file: printed by
\* ToString, it gives the tokens that were read, in their order, none lost, added or
\* put into another block (config_parser.cc:175-256 and 25-57).
THEOREM ParsedIsPrintedTheorem == Spec => []ParsedIsPrinted
  <1>1. PrintInv => ParsedIsPrinted
    <2> SUFFICES ASSUME PrintInv, pc \notin {"parse", "failed", "undefined"}
                 PROVE  Printed = read
      BY DEF ParsedIsPrinted
    <2>1. /\ TypeInv /\ read \in Seq(Values) /\ stack = << 0 >> /\ last # "normal"
          /\ stack # <<>> => LaidOut
      BY DEF PrintInv
    <2>2. stack # <<>>
      BY <2>1
    <2>3. NestInv /\ \E c \in Places : Layout(c)
      BY <2>1, <2>2, Zenon DEF LaidOut
    <2> QED BY <2>1, <2>3, LayoutIsPrinted, Zenon
  <1> QED BY <1>1, PrintInit, PrintNext, PTL DEF Spec

-----------------------------------------------------------------------------
(* The directives.                                                         *)

\* What the directives of a block are kept in.
Maps == UNION {[D -> {Unquote(v) : v \in Values}] : D \in SUBSET Values}

LEMMA MapsAreAssigned ==
    ASSUME NEW f \in Maps, NEW key \in Values, NEW v \in Values
    PROVE  Assign(f, key, Unquote(v)) \in Maps
  <1> DEFINE W == {Unquote(w) : w \in Values}
  <1>1. PICK D \in SUBSET Values : f \in [D -> W]
    BY DEF Maps
  <1>2. Unquote(v) \in W
    OBVIOUS
  <1> DEFINE u == Unquote(v)
  <1> HIDE DEF W, u
  <1>3. Assign(f, key, u) \in [D \cup {key} -> W]
    BY <1>1, <1>2 DEF Assign, u
  <1> QED BY <1>1, <1>3 DEF Maps, u, W

LEMMA NoMap == EmptyMap \in Maps /\ DOMAIN EmptyMap = {}
  <1>1. EmptyMap \in [{} -> {Unquote(v) : v \in Values}]
    BY DEF EmptyMap
  <1> QED BY <1>1 DEF Maps

LEMMA Halves ==
    ASSUME NEW l \in Nat
    PROVE  /\ l \div 2 \in Nat
           /\ \A x \in 1 .. l \div 2 : 2 * x \in 1 .. l /\ 2 * x - 1 \in 1 .. l
  OBVIOUS

\* f is what map is after the first m directives of a statement.
Added(f, map, ts, m) ==
    /\ f \in Maps
    /\ DOMAIN f = DOMAIN map \cup {ts[2 * x - 1] : x \in 1 .. m}
    /\ \A name \in DOMAIN f :
         \/ name \in DOMAIN map /\ f[name] = map[name]
         \/ \E x \in 1 .. m : ts[2 * x - 1] = name /\ f[name] = Unquote(ts[2 * x])

LEMMA OneMoreAdded ==
    ASSUME NEW ts \in Seq(Values), NEW map, NEW m \in 1 .. Len(ts) \div 2, NEW f,
           Added(f, map, ts, m - 1)
    PROVE  Added(Assign(f, ts[2 * m - 1], Unquote(ts[2 * m])), map, ts, m)
  <1> DEFINE key == ts[2 * m - 1]
             v == ts[2 * m]
             g == Assign(f, key, Unquote(v))
  <1>1. key \in Values /\ v \in Values
    <2>1. Len(ts) \in Nat /\ \A x \in 1 .. Len(ts) : ts[x] \in Values
      BY LenProperties, ElementOfSeq
    <2> QED BY <2>1, Halves
  <1>2. /\ f \in Maps
        /\ DOMAIN f = DOMAIN map \cup {ts[2 * x - 1] : x \in 1 .. m - 1}
        /\ \A name \in DOMAIN f :
             \/ name \in DOMAIN map /\ f[name] = map[name]
             \/ \E x \in 1 .. m - 1 : ts[2 * x - 1] = name /\ f[name] = Unquote(ts[2 * x])
    BY DEF Added
  <1>3. g \in Maps
    BY <1>1, <1>2, MapsAreAssigned
  <1>4. /\ DOMAIN g = DOMAIN f \cup {key} /\ g[key] = Unquote(v)
        /\ \A name \in DOMAIN f : name # key => g[name] = f[name]
    <2> DEFINE u == Unquote(v)
    <2> HIDE DEF u, key
    <2> SUFFICES /\ DOMAIN Assign(f, key, u) = DOMAIN f \cup {key}
                 /\ Assign(f, key, u)[key] = u
                 /\ \A name \in DOMAIN f : name # key => Assign(f, key, u)[name] = f[name]
      BY DEF u
    <2> QED BY DEF Assign
  <1>5. m \in 1 .. m /\ \A x \in 1 .. m : x = m \/ x \in 1 .. m - 1
    BY Halves, LenProperties
  <1>6. \A x \in 1 .. m - 1 : x \in 1 .. m
    BY Halves, LenProperties
  <1> HIDE DEF g
  <1>7. DOMAIN g = DOMAIN map \cup {ts[2 * x - 1] : x \in 1 .. m}
    BY <1>2, <1>4, <1>5, <1>6
  <1>8. ASSUME NEW name \in DOMAIN g
        PROVE  \/ name \in DOMAIN map /\ g[name] = map[name]
               \/ \E x \in 1 .. m : ts[2 * x - 1] = name /\ g[name] = Unquote(ts[2 * x])
    <2>1. CASE name = key
      BY <1>4, <1>5, <2>1
    <2>2. CASE name # key
      <3>1. name \in DOMAIN f /\ g[name] = f[name]
        BY <1>4, <2>2
      <3> QED BY <1>2, <1>6, <3>1
    <2> QED BY <2>1, <2>2
  <1> QED BY <1>3, <1>7, <1>8 DEF Added, g

\* What the loop over the tokens of a statement computes.
LEMMA DirectivesSet ==
    ASSUME NEW map \in Maps, NEW ts \in Seq(Values)
    PROVE  Added(SetDirectives(map, ts), map, ts, Len(ts) \div 2)
  <1> DEFINE n == Len(ts) \div 2
             Step(m, f) == Assign(f, ts[2 * m - 1], Unquote(ts[2 * m]))
             g == [m \in 1 .. n |-> [f \in Maps |-> Step(m, f)]]
             Body(f) == [m \in 0 .. n |-> IF m = 0 THEN map ELSE Step(m, f[m - 1])]
             After == CHOOSE f : f = Body(f)
  <1>1. n \in Nat
    BY LenProperties, Halves
  <1>2. \A m \in 1 .. n, f \in Maps : Step(m, f) \in Maps
    <2>1. \A m \in 1 .. n : ts[2 * m - 1] \in Values /\ ts[2 * m] \in Values
      BY LenProperties, ElementOfSeq, Halves
    <2> QED BY <2>1, MapsAreAssigned
  <1>3. SetDirectives(map, ts) = After[n]
    BY DEF SetDirectives
  <1>4. Added(map, map, ts, 0)
    <2>1. {ts[2 * x - 1] : x \in 1 .. 0} = {}
      OBVIOUS
    <2> QED BY <2>1 DEF Added
  <1>5. ASSUME NEW m \in 1 .. n, NEW f, Added(f, map, ts, m - 1)
        PROVE  Added(Step(m, f), map, ts, m)
    BY <1>5, OneMoreAdded
  <1> HIDE DEF n, Step
  <1>6. \E f : f = Body(f)
    <2>1. g \in [1 .. n -> [Maps -> Maps]]
      BY <1>2
    <2>2. \A m \in 1 .. n, f \in Maps : g[m][f] = Step(m, f)
      OBVIOUS
    <2> HIDE DEF g
    <2>3. PICK f \in [0 .. n -> Maps] : Recurs(f, n, map, g)
      BY <1>1, <2>1, Recursion
    <2>4. \A m \in 1 .. n : f[m - 1] \in Maps
      BY <1>1, <2>3
    <2>5. f = Body(f)
      BY <1>1, <2>2, <2>3, <2>4 DEF Recurs
    <2> HIDE DEF Body
    <2> QED BY <2>5
  <1>7. After = Body(After)
    <2> HIDE DEF Body
    <2> QED BY <1>6
  <1> HIDE DEF After
  <1>8. After[0] = map /\ \A m \in 1 .. n : After[m] = Step(m, After[m - 1])
    <2>1. After = [m \in 0 .. n |-> IF m = 0 THEN map ELSE Step(m, After[m - 1])]
      BY <1>7
    <2> QED BY <1>1, <2>1
  <1> DEFINE S == {m \in 0 .. n : Added(After[m], map, ts, m)}
  <1>9. 0 \in S /\ \A m \in 1 .. n : m - 1 \in S => m \in S
    BY <1>1, <1>4, <1>5, <1>8
  <1> HIDE DEF S
  <1>10. 0 .. n \subseteq S
    BY <1>1, <1>9, Induction
  <1> QED BY <1>1, <1>3, <1>10 DEF S, n


\* f is what the directives of block b are after the first k statements.
Collected(f, b, k) ==
    LET given == {d \in Mentions(b) : d[1] <= k}
    IN  /\ f \in Maps
        /\ DOMAIN f = {Directive(d) : d \in given}
        /\ \A name \in DOMAIN f : \E d \in given : Directive(d) = name /\ f[name] = Parameter(d)

LEMMA MentionsAre ==
    ASSUME TypeInv, NEW b
    PROVE  /\ \A d \in Mentions(b) : d[1] \in 1 .. Len(statements)
           /\ \A l \in 1 .. Len(statements), x \in Nat :
                <<l, x>> \in Mentions(b) <=>
                    statements[l].block = b /\ x \in 1 .. Len(statements[l].tokens) \div 2
           /\ \A d \in Mentions(b) : \E x \in 1 .. Len(statements[d[1]].tokens) \div 2 :
                d = <<d[1], x>>
  <1> DEFINE N(l) == Len(statements[l].tokens) \div 2
  <1>1. \A l : l \in InBlock(b) <=> l \in 1 .. Len(statements) /\ statements[l].block = b
    BY StatementTypes DEF InBlock
  <1>2. \A d : d \in Mentions(b) <=> \E l \in InBlock(b) : d \in {l} \X (1 .. N(l))
    BY DEF Mentions
  <1> HIDE DEF N
  <1>3. \A d : d \in Mentions(b) <=> \E l \in InBlock(b) : \E x \in 1 .. N(l) : d = <<l, x>>
    BY <1>2
  <1>4. ASSUME NEW d \in Mentions(b)
        PROVE  /\ d[1] \in 1 .. Len(statements)
               /\ \E x \in 1 .. N(d[1]) : d = <<d[1], x>>
    BY <1>1, <1>3
  <1>5. ASSUME NEW l \in 1 .. Len(statements), NEW x \in Nat
        PROVE  <<l, x>> \in Mentions(b) <=> statements[l].block = b /\ x \in 1 .. N(l)
    BY <1>1, <1>3
  <1> QED BY <1>4, <1>5 DEF N

LEMMA OneMoreCollected ==
    ASSUME TypeInv, NEW b, NEW k \in 1 .. Len(statements), NEW f, Collected(f, b, k - 1)
    PROVE  Collected(IF statements[k].block = b THEN SetDirectives(f, statements[k].tokens)
                     ELSE f, b, k)
  <1> DEFINE ts == statements[k].tokens
             n == Len(ts) \div 2
             before == {d \in Mentions(b) : d[1] <= k - 1}
             given == {d \in Mentions(b) : d[1] <= k}
  <1>1. k \in Int /\ ts \in Seq(Values) /\ n \in Nat
    <2>1. ts \in Seq(Values) /\ Len(ts) \in Nat
      BY StatementTypes
    <2>2. n \in Nat
      BY <2>1, Halves, Zenon
    <2>3. k \in Int
      OBVIOUS
    <2> QED BY <2>1, <2>2, <2>3, Zenon
  <1> HIDE DEF n
  <1>2. /\ f \in Maps
        /\ DOMAIN f = {Directive(d) : d \in before}
        /\ \A name \in DOMAIN f : \E d \in before : Directive(d) = name /\ f[name] = Parameter(d)
    BY DEF Collected
  <1>3. \A d \in Mentions(b) : d[1] \in Int
    <2>1. \A d \in Mentions(b) : d[1] \in 1 .. Len(statements)
      BY MentionsAre
    <2> QED BY <2>1
  <1>4. before \subseteq given /\ \A d \in given : d \in before \/ d[1] = k
    BY <1>1, <1>3
  <1>5. CASE statements[k].block # b
    <2>1. ~ \E d \in Mentions(b) : d[1] = k
      <3> SUFFICES ASSUME NEW d \in Mentions(b), d[1] = k PROVE FALSE
        OBVIOUS
      <3>1. PICK x \in 1 .. n : d = <<k, x>>
        BY MentionsAre DEF n
      <3>2. x \in Nat
        BY <1>1
      <3>3. <<k, x>> \in Mentions(b)
        BY <3>1
      <3>4. <<k, x>> \in Mentions(b) => statements[k].block = b
        BY <3>2, MentionsAre, Zenon
      <3> QED BY <1>5, <3>3, <3>4
    <2>2. given = before
      BY <1>4, <2>1
    <2> QED BY <1>2, <1>5, <2>2 DEF Collected
  <1>6. CASE statements[k].block = b
    <2> DEFINE g == SetDirectives(f, ts)
    <2>1. Added(g, f, ts, n)
      BY <1>1, <1>2, DirectivesSet DEF n
    <2> HIDE DEF g
    <2>2. /\ g \in Maps
          /\ DOMAIN g = DOMAIN f \cup {ts[2 * x - 1] : x \in 1 .. n}
          /\ \A name \in DOMAIN g :
               \/ name \in DOMAIN f /\ g[name] = f[name]
               \/ \E x \in 1 .. n : ts[2 * x - 1] = name /\ g[name] = Unquote(ts[2 * x])
      BY <2>1 DEF Added
    <2>3. ASSUME NEW x \in 1 .. n
          PROVE  /\ <<k, x>> \in given /\ Directive(<<k, x>>) = ts[2 * x - 1]
                 /\ Parameter(<<k, x>>) = Unquote(ts[2 * x])
      <3>1. x \in Nat /\ <<k, x>>[1] = k /\ <<k, x>>[2] = x /\ k <= k
        BY <1>1
      <3>2. <<k, x>> \in Mentions(b)
        BY <1>6, <3>1, MentionsAre DEF n
      <3> QED BY <3>1, <3>2 DEF Directive, Parameter
    <2>4. ASSUME NEW d \in given, d \notin before
          PROVE  \E x \in 1 .. n : d = <<k, x>>
      <3>1. d[1] = k /\ d \in Mentions(b)
        BY <1>4, <2>4
      <3>2. \E x \in 1 .. Len(statements[d[1]].tokens) \div 2 : d = <<d[1], x>>
        BY <3>1, MentionsAre, Zenon
      <3> QED BY <3>1, <3>2, Zenon DEF n
    <2>5. DOMAIN g = {Directive(d) : d \in given}
      <3>1. ASSUME NEW name \in DOMAIN g PROVE name \in {Directive(d) : d \in given}
        <4>1. CASE name \in DOMAIN f
          BY <1>2, <1>4, <4>1, Zenon
        <4>2. ASSUME NEW x \in 1 .. n, ts[2 * x - 1] = name
              PROVE  name \in {Directive(d) : d \in given}
          BY <2>3, <4>2, Zenon
        <4>3. name \in DOMAIN f \/ \E x \in 1 .. n : ts[2 * x - 1] = name
          BY <2>2, <3>1, Zenon
        <4> QED BY <4>1, <4>2, <4>3, Zenon
      <3>2. ASSUME NEW d \in given PROVE Directive(d) \in DOMAIN g
        <4>1. CASE d \in before
          BY <1>2, <2>2, <4>1
        <4>2. ASSUME NEW x \in 1 .. n, d = <<k, x>> PROVE Directive(d) \in DOMAIN g
          BY <2>2, <2>3, <4>2
        <4> QED BY <2>4, <4>1, <4>2
      <3> QED BY <3>1, <3>2
    <2>6. ASSUME NEW name \in DOMAIN g
          PROVE  \E d \in given : Directive(d) = name /\ g[name] = Parameter(d)
      <3>1. CASE name \in DOMAIN f /\ g[name] = f[name]
        BY <1>2, <1>4, <3>1
      <3>2. ASSUME NEW x \in 1 .. n, ts[2 * x - 1] = name, g[name] = Unquote(ts[2 * x])
            PROVE  \E d \in given : Directive(d) = name /\ g[name] = Parameter(d)
        <4> DEFINE d == <<k, x>>
        <4>1. d \in given /\ Directive(d) = name /\ g[name] = Parameter(d)
          BY <2>3, <3>2
        <4> HIDE DEF d
        <4> QED BY <4>1
      <3> QED BY <2>2, <3>1, <3>2
    <2> QED BY <1>6, <2>2, <2>5, <2>6 DEF Collected, g
  <1> QED BY <1>5, <1>6

\* What the loop over the statements of a block computes.
LEMMA DirectivesCollected ==
    ASSUME TypeInv, NEW b
    PROVE  Collected(DirectivesOf(b), b, Len(statements))
  <1> DEFINE n == Len(statements)
             Step(k, f) == IF statements[k].block = b
                           THEN SetDirectives(f, statements[k].tokens) ELSE f
             g == [k \in 1 .. n |-> [f \in Maps |-> Step(k, f)]]
             Body(f) == [k \in 0 .. n |-> IF k = 0 THEN EmptyMap ELSE Step(k, f[k - 1])]
             After == CHOOSE f : f = Body(f)
  <1>1. n \in Nat
    BY StatementTypes
  <1>2. \A k \in 1 .. n, f \in Maps : Step(k, f) \in Maps
    BY StatementTypes, DirectivesSet DEF Added
  <1>3. DirectivesOf(b) = After[n]
    BY DEF DirectivesOf
  <1>4. Collected(EmptyMap, b, 0)
    <2>1. {d \in Mentions(b) : d[1] <= 0} = {}
      <3>1. \A d \in Mentions(b) : d[1] \in 1 .. Len(statements)
        BY MentionsAre
      <3> QED BY <3>1
    <2> QED BY <2>1, NoMap DEF Collected
  <1>5. ASSUME NEW k \in 1 .. n, NEW f, Collected(f, b, k - 1)
        PROVE  Collected(Step(k, f), b, k)
    BY <1>5, OneMoreCollected
  <1> HIDE DEF n, Step
  <1>6. \E f : f = Body(f)
    <2>1. g \in [1 .. n -> [Maps -> Maps]] /\ EmptyMap \in Maps
      BY <1>2, NoMap
    <2>2. \A k \in 1 .. n, f \in Maps : g[k][f] = Step(k, f)
      OBVIOUS
    <2> HIDE DEF g
    <2>3. PICK f \in [0 .. n -> Maps] : Recurs(f, n, EmptyMap, g)
      BY <1>1, <2>1, Recursion
    <2>4. \A k \in 1 .. n : f[k - 1] \in Maps
      BY <1>1, <2>3
    <2>5. f = Body(f)
      BY <1>1, <2>2, <2>3, <2>4 DEF Recurs
    <2> HIDE DEF Body
    <2> QED BY <2>5
  <1>7. After = Body(After)
    <2> HIDE DEF Body
    <2> QED BY <1>6
  <1> HIDE DEF After
  <1>8. After[0] = EmptyMap /\ \A k \in 1 .. n : After[k] = Step(k, After[k - 1])
    <2>1. After = [k \in 0 .. n |-> IF k = 0 THEN EmptyMap ELSE Step(k, After[k - 1])]
      BY <1>7
    <2> QED BY <1>1, <2>1
  <1> DEFINE S == {k \in 0 .. n : Collected(After[k], b, k)}
  <1>9. 0 \in S /\ \A k \in 1 .. n : k - 1 \in S => k \in S
    BY <1>1, <1>4, <1>5, <1>8
  <1> HIDE DEF S
  <1>10. 0 .. n \subseteq S
    BY <1>1, <1>9, Induction
  <1> QED BY <1>1, <1>3, <1>10 DEF S, n


\* The directives of the locations that the loop has been at.
DirectedInv ==
    \A k \in InBlock(0) : \A m \in Locations(k) :
        Behind(k, m) => HasDirectivesOf(LocationAt(k, m), k)

\* The directives of a location stay.
LEMMA DirectivesStay ==
    ASSUME statements' = statements, NEW l, NEW k,
           l \in DOMAIN directives' <=> l \in DOMAIN directives,
           l \in DOMAIN directives => directives'[l] = directives[l],
           HasDirectivesOf(l, k)
    PROVE  HasDirectivesOf(l, k)'
  <1> DEFINE names == {Directive(d) : d \in Mentions(k)}
  <1>1. /\ Mentions(k)' = Mentions(k) /\ \A d : Directive(d)' = Directive(d)
        /\ \A d : Parameter(d)' = Parameter(d)
    BY DEF Mentions, InBlock, Directive, Parameter
  <1>2. names' = names
    BY <1>1
  <1>3. /\ l \in DOMAIN directives <=> names # {}
        /\ names # {} => DOMAIN directives[l] = names
        /\ \A name \in names : \E d \in Mentions(k) :
             Directive(d) = name /\ directives[l][name] = Parameter(d)
    BY DEF HasDirectivesOf
  <1>4. /\ l \in DOMAIN directives' <=> names # {}
        /\ names # {} => DOMAIN directives'[l] = names
    BY <1>3
  <1>5. ASSUME NEW name \in names
        PROVE  \E d \in Mentions(k) : Directive(d) = name /\ directives'[l][name] = Parameter(d)
    <2>1. directives'[l] = directives[l]
      BY <1>3, <1>5
    <2> QED BY <1>3, <2>1
  <1> HIDE DEF names
  <1>6. /\ l \in DOMAIN directives' <=> names' # {}
        /\ names' # {} => DOMAIN directives'[l] = names'
        /\ \A name \in names' : \E d \in Mentions(k)' :
             Directive(d)' = name /\ directives'[l][name] = Parameter(d)'
    BY <1>1, <1>2, <1>4, <1>5
  <1> QED BY <1>6 DEF HasDirectivesOf, names

\* A location comes into force with the directives of its block.
LEMMA DirectivesComeIntoForce ==
    ASSUME TypeInv, LocationInv, Location,
           NEW k, NEW m, NEW l, k = i, m = j, l = LocationAt(k, m)
    PROVE  /\ HasDirectivesOf(l, k)'
           /\ \A x \in DOMAIN handlers :
                /\ x \in DOMAIN directives' <=> x \in DOMAIN directives
                /\ x \in DOMAIN directives => directives'[x] = directives[x]
  <1> DEFINE set == DirectivesOf(k)
             names == {Directive(d) : d \in Mentions(k)}
  <1>1. l = Unquote(Tokens[j + 1])
    BY DEF LocationAt, Tokens
  <1>2. /\ statements' = statements
        /\ Path(l).name \notin seen
        /\ directives' = IF DOMAIN set = {} THEN directives ELSE Assign(directives, l, set)
    BY <1>1 DEF Location, IsDuplicate
  <1>3. Collected(set, k, Len(statements))
    BY DirectivesCollected
  <1>4. /\ DOMAIN set = names
        /\ \A name \in names : \E d \in Mentions(k) :
             Directive(d) = name /\ set[name] = Parameter(d)
    <2>1. \A d \in Mentions(k) : d[1] <= Len(statements)
      <3>1. \A d \in Mentions(k) : d[1] \in 1 .. Len(statements)
        BY MentionsAre
      <3>2. Len(statements) \in Nat
        BY StatementTypes
      <3> QED BY <3>1, <3>2
    <2>2. {d \in Mentions(k) : d[1] <= Len(statements)} = Mentions(k)
      BY <2>1
    <2> QED BY <1>3, <2>2 DEF Collected
  <1>5. l \notin DOMAIN handlers /\ DOMAIN directives \subseteq DOMAIN handlers
    BY <1>2 DEF LocationInv, SeenInv, TypeInv, SettingsInv
  <1>6. /\ Mentions(k)' = Mentions(k) /\ \A d : Directive(d)' = Directive(d)
        /\ \A d : Parameter(d)' = Parameter(d)
    BY <1>2 DEF Mentions, InBlock, Directive, Parameter
  <1>7. names' = names
    BY <1>6
  <1> HIDE DEF set, names
  <1>8. \/ names = {} /\ directives' = directives
        \/ /\ names # {} /\ DOMAIN directives' = DOMAIN directives \cup {l}
           /\ directives'[l] = set
           /\ \A x \in DOMAIN directives : x # l => directives'[x] = directives[x]
    BY <1>2, <1>4 DEF Assign
  <1>9. \A x \in DOMAIN handlers :
            /\ x \in DOMAIN directives' <=> x \in DOMAIN directives
            /\ x \in DOMAIN directives => directives'[x] = directives[x]
    BY <1>5, <1>8
  <1>10. /\ l \in DOMAIN directives' <=> names # {}
         /\ names # {} => directives'[l] = set
    BY <1>5, <1>8
  <1>11. /\ l \in DOMAIN directives' <=> names' # {}
         /\ names' # {} => DOMAIN directives'[l] = names'
    BY <1>4, <1>7, <1>10
  <1>12. ASSUME NEW name \in names'
         PROVE  \E d \in Mentions(k)' : Directive(d)' = name /\ directives'[l][name] = Parameter(d)'
    <2>1. name \in names /\ directives'[l] = set
      BY <1>7, <1>10, <1>12
    <2> QED BY <1>4, <1>6, <2>1
  <1>13. HasDirectivesOf(l, k)'
    BY <1>11, <1>12 DEF HasDirectivesOf, names
  <1> QED BY <1>9, <1>13

LEMMA DirectedGoesOn ==
    ASSUME ServedInv, DirectedInv, NextToken, statements' = statements,
           \A l \in DOMAIN handlers :
                /\ l \in DOMAIN directives' <=> l \in DOMAIN directives
                /\ l \in DOMAIN directives => directives'[l] = directives[l],
           \A k \in InBlock(0) : \A m \in Locations(k) :
               k = i /\ m = j => HasDirectivesOf(LocationAt(k, m), k)'
    PROVE  DirectedInv'
  <1>1. ASSUME NEW k \in InBlock(0), NEW m \in Locations(k), Behind(k, m)'
        PROVE  HasDirectivesOf(LocationAt(k, m), k)'
    <2>1. CASE Behind(k, m)
      <3> DEFINE l == LocationAt(k, m)
      <3>1. l \in DOMAIN handlers
        BY <2>1 DEF ServedInv, InForce
      <3>2. HasDirectivesOf(l, k)
        BY <2>1 DEF DirectedInv
      <3>3. PICK x : x = l
        OBVIOUS
      <3>4. LocationAt(k, m)' = x
        BY <3>3 DEF LocationAt
      <3> HIDE DEF l
      <3>5. HasDirectivesOf(x, k)'
        BY <3>1, <3>2, <3>3, DirectivesStay
      <3> QED BY <3>4, <3>5 DEF HasDirectivesOf
    <2>2. CASE k = i /\ m = j
      BY <2>2
    <2> QED BY <1>1, <2>1, <2>2, BehindNext DEF ServedInv
  <1>2. InBlock(0)' = InBlock(0) /\ \A k : Locations(k)' = Locations(k)
    BY DEF InBlock, Locations
  <1> QED BY <1>1, <1>2 DEF DirectedInv

LEMMA DirectedStays ==
    ASSUME DirectedInv, UNCHANGED <<statements, i, j, directives>>
    PROVE  DirectedInv'
  <1>1. ASSUME NEW k \in InBlock(0), NEW m \in Locations(k), Behind(k, m)'
        PROVE  HasDirectivesOf(LocationAt(k, m), k)'
    <2>1. Behind(k, m)
      BY <1>1 DEF Behind
    <2>2. PICK x : x = LocationAt(k, m)
      OBVIOUS
    <2>3. LocationAt(k, m)' = x
      BY <2>2 DEF LocationAt
    <2>4. HasDirectivesOf(x, k)
      BY <2>1, <2>2 DEF DirectedInv
    <2>5. HasDirectivesOf(x, k)'
      BY <2>4, DirectivesStay
    <2> QED BY <2>3, <2>5 DEF HasDirectivesOf
  <1>2. InBlock(0)' = InBlock(0) /\ \A k : Locations(k)' = Locations(k)
    BY DEF InBlock, Locations
  <1> QED BY <1>1, <1>2 DEF DirectedInv

LEMMA DirectedNext == DirectedInv /\ ServedInv /\ LocationInv /\ [Next]_vars => DirectedInv'
  <1> SUFFICES ASSUME DirectedInv, ServedInv, LocationInv, [Next]_vars PROVE DirectedInv'
    OBVIOUS
  <1>1. TypeInv /\ TypeInv'
    BY TypeNext DEF ServedInv
  <1>2. CASE UNCHANGED vars
    BY <1>2, DirectedStays
  <1>3. CASE ParseToken
    <2>1. UNCHANGED <<statements, i, j, directives>>
      BY <1>3 DEF ParseToken, InitialWhitespace, Quote, Comment, Normal, EndOfFile
    <2> QED BY <2>1, DirectedStays
  <1>4. CASE Parse
    <2>1. pc = "parse" /\ UNCHANGED settings
      BY <1>4 DEF Parse, SkipComment, Word, StatementEnd, StartBlock, EndBlock,
                  BelowRoot, BadTransition, Parsed, Shift, Stop, Takes
    <2>2. i' = 1 /\ j' = 1
      BY <2>1 DEF ServedInv
    <2> QED BY <1>1, <2>2, NothingBehind DEF DirectedInv
  <1>5. CASE Skip
    <2>1. /\ NextToken /\ pc = "settings" /\ statements' = statements
          /\ directives' = directives /\ i <= Len(statements) /\ ~ AtKeyword("location")
      BY <1>5 DEF Skip
    <2>2. ~ (i \in InBlock(0) /\ j \in Locations(i))
      BY <1>1, <2>1, LocationsHavePlaces DEF AtKeyword, Tokens
    <2> QED BY <2>1, <2>2, DirectedGoesOn
  <1>6. CASE Port
    <2>1. /\ NextToken /\ statements' = statements
          /\ directives' = directives /\ statements[i].tokens[j] = <<"port">>
      BY <1>6 DEF Port, AtKeyword, Tokens
    <2>2. j \notin Locations(i)
      BY <2>1 DEF Locations
    <2> QED BY <2>1, <2>2, DirectedGoesOn
  <1>7. CASE Location
    <2>1. NextToken /\ statements' = statements
      BY <1>7 DEF Location
    <2>2. ASSUME NEW k \in InBlock(0), NEW m \in Locations(k), k = i, m = j
          PROVE  HasDirectivesOf(LocationAt(k, m), k)'
      <3>1. PICK l : l = LocationAt(k, m)
        OBVIOUS
      <3>2. LocationAt(k, m)' = l
        BY <2>1, <3>1 DEF LocationAt
      <3>3. HasDirectivesOf(l, k)'
        BY <1>1, <1>7, <2>2, <3>1, DirectivesComeIntoForce
      <3> QED BY <3>2, <3>3 DEF HasDirectivesOf
    <2>3. \A l \in DOMAIN handlers :
                /\ l \in DOMAIN directives' <=> l \in DOMAIN directives
                /\ l \in DOMAIN directives => directives'[l] = directives[l]
      <3>1. PICK k, m, l : k = i /\ m = j /\ l = LocationAt(k, m)
        OBVIOUS
      <3> QED BY <1>1, <1>7, <3>1, DirectivesComeIntoForce
    <2> QED BY <2>1, <2>2, <2>3, DirectedGoesOn
  <1>8. CASE PortThrows \/ DuplicatePath \/ LocationUndefined \/ SlashesLoop \/ Check
    <2>1. UNCHANGED <<statements, i, j, directives>>
      BY <1>8 DEF PortThrows, DuplicatePath, LocationUndefined, SlashesLoop, Check, Stop
    <2> QED BY <2>1, DirectedStays
  <1> QED BY <1>2, <1>3, <1>4, <1>5, <1>6, <1>7, <1>8 DEF Next, GetServerSettings

\* Whatever the file holds, a running server has for every location the directives
\* that its block holds, in any number of statements, and no others, each with a
\* parameter that the block gives it (config_parser.cc:313-331).
THEOREM DirectivesAreServedTheorem == Spec => []DirectivesAreServed
  <1> DEFINE Inv == ServedInv /\ LocationInv /\ DirectedInv
  <1>1. Init => Inv
    <2> SUFFICES ASSUME Init PROVE Inv
      OBVIOUS
    <2>1. InBlock(0) = {}
      BY DEF Init, InBlock
    <2> QED BY <2>1, ServedInit, LocationInit DEF DirectedInv
  <1>2. Inv /\ [Next]_vars => Inv'
    BY ServedNext, LocationNext, DirectedNext
  <1>3. Inv => DirectivesAreServed
    <2> SUFFICES ASSUME ServedInv, DirectedInv, pc = "serving",
                        NEW k \in InBlock(0), NEW m \in Locations(k)
                 PROVE  HasDirectivesOf(LocationAt(k, m), k)
      BY DEF DirectivesAreServed
    <2>1. k < i
      BY LocationsHavePlaces DEF ServedInv
    <2> QED BY <2>1 DEF DirectedInv, Behind
  <1> QED BY <1>1, <1>2, <1>3, PTL DEF Spec
=============================================================================
