------------------------------- MODULE Lexer -------------------------------
(***************************************************************************)
(* The lexer (compiler/lexer): NextToken, with one action for each kind of  *)
(* token, and one for each character of a string.  The tokens read so far   *)
(* are l.toks; nothing the lexer does depends on the parser, so the whole   *)
(* input is read before it is parsed.                                       *)
(*                                                                         *)
(* l.fsm makes the reading depend on what was read before: after a dot or   *)
(* def the next word is a name even if it is a keyword, and a colon that    *)
(* touches a name does not start a symbol.                                  *)
(***************************************************************************)
EXTENDS Integers, Sequences, FiniteSets, FSM

VARIABLE l

-----------------------------------------------------------------------------
(* Characters.  The input is a string; "" is the character past its end.   *)

Digits == {"0", "1", "2", "3", "4", "5", "6", "7", "8", "9"}
Capitals == {"A", "B", "C", "D", "E", "F", "G", "H", "I", "J", "K", "L", "M",
             "N", "O", "P", "Q", "R", "S", "T", "U", "V", "W", "X", "Y", "Z"}
Letters == Capitals \cup
  {"a", "b", "c", "d", "e", "f", "g", "h", "i", "j", "k", "l", "m",
   "n", "o", "p", "q", "r", "s", "t", "u", "v", "w", "x", "y", "z", "_"}
Whitespace == {" ", "\t", "\r", "\n"}

\* A string of TLA+ cannot hold a backquote: a dollar sign, which means nothing
\* in Lito, stands for it.
Backquote == "$"

CharAt(s, i) == IF i \in 1..Len(s) THEN SubSeq(s, i, i) ELSE ""

\* The first position from i on that does not hold one of chars; and that does,
\* or is past the end.
After(s, i, chars) ==
  CHOOSE j \in i..i + Len(s) : /\ CharAt(s, j) \notin chars
                               /\ \A k \in i..j-1 : CharAt(s, k) \in chars
Until(s, i, chars) ==
  CHOOSE j \in i..i + Len(s) : /\ CharAt(s, j) \in chars \cup {""}
                               /\ \A k \in i..j-1 : CharAt(s, k) \notin chars \cup {""}

-----------------------------------------------------------------------------
(* Tokens.                                                                 *)

Token(t, v, line) == [t |-> t, v |-> v, line |-> line]

keywords ==
  [def |-> "DEF", true |-> "TRUE", false |-> "FALSE", nil |-> "NIL", if |-> "IF",
   elsif |-> "ELSIF", else |-> "ELSE", switch |-> "SWITCH", case |-> "CASE",
   default |-> "DEFAULT", return |-> "RETURN", self |-> "SELF", super |-> "SUPER",
   while |-> "WHILE", yield |-> "YIELD", continue |-> "CONTINUE",
   class |-> "CLASS", module |-> "MODULE", break |-> "BREAK",
   catch |-> "CATCH", finally |-> "FINALLY"]

LookupIdent(word) ==
  IF word \in DOMAIN keywords THEN keywords[word]
  ELSE IF word = "block!" THEN "BLOCK"
  ELSE IF word = "block?" THEN "HASBLOCK" ELSE "IDENT"

\* Operators and separators are their own types; the longest one is read.
Symbols ==
  {"=", "==", "===", "=~", "-", "-=", "->", "!", "!=", "!==", "/", "*", "**",
   "<", "<=", "<-", ">", ">=", "+", "+=", ".", "..", "...", "|", "||", "||=",
   "|>", "%", "&", "&&", ";", ",", "(", ")", "{", "}", "[", "]"}

SymbolAt(s, i) ==
  LET lengths == {n \in 1..3 : /\ i + n - 1 <= Len(s)
                               /\ SubSeq(s, i, i + n - 1) \in Symbols}
  IN SubSeq(s, i, i - 1 + CHOOSE n \in lengths : \A m \in lengths : m <= n)

-----------------------------------------------------------------------------
(* The lexer's state.  A lexer that returns an illegal @ does not move past *)
(* it, and returns it from then on.                                         *)

LexerTransitions ==
  {<<"initial", "nosymbol">>, <<"initial", "method">>, <<"method", "initial">>,
   <<"initial", "initial">>, <<"nosymbol", "initial">>}

NewLexer(input) ==
  [input |-> input, pos |-> 1, line |-> 0, fsm |-> "initial", toks |-> <<>>,
   quote |-> "", literal |-> "", outcome |-> "reading"]

Reading == l.outcome = "reading" /\ l.quote = ""

\* resetNosymbol and skipWhitespace, which begin every call of NextToken.
Ready(q) ==
  LET i == After(q.input, q.pos, Whitespace)
  IN [q EXCEPT
        !.fsm = IF @ # "method" /\ CharAt(q.input, q.pos) # ":"
                THEN Goto(LexerTransitions, @, "initial") ELSE @,
        !.pos = i,
        !.line = @ + Cardinality({j \in q.pos..i-1 : CharAt(q.input, j) = "\n"})]

next == Ready(l)
ch == CharAt(next.input, next.pos)
peek == CharAt(next.input, next.pos + 1)

ToState(q, s) == [q EXCEPT !.fsm = Goto(LexerTransitions, @, s)]

\* Token t made of the characters before position j, or with literal v.
Emit(q, t, v, j) ==
  [q EXCEPT !.toks = Append(@, Token(t, v, q.line)), !.pos = j]
EmitTo(q, t, j) == Emit(q, t, SubSeq(q.input, q.pos, j - 1), j)

-----------------------------------------------------------------------------

LexSymbol ==
  /\ Reading
  /\ ch \in Symbols
  /\ LET s == SymbolAt(next.input, next.pos)
         q == EmitTo(next, s, next.pos + Len(s))
     IN l' = IF s = "." THEN ToState(q, "method") ELSE q

\* readIdentifier; a name may end in ? or !.
WordEnd(s, i) ==
  LET j == After(s, i, Letters \cup Digits)
  IN IF CharAt(s, j) \in {"?", "!"} THEN j + 1 ELSE j

\* A colon, :: or a symbol, which is a string.
LexColon ==
  /\ Reading
  /\ ch = ":"
  /\ LET q == next
         j == WordEnd(q.input, q.pos + 1)
     IN l' = IF q.fsm = "nosymbol" \/ peek \notin Letters \cup {":"}
             THEN EmitTo(q, ":", q.pos + 1)
             ELSE IF peek = ":" THEN EmitTo(q, "::", q.pos + 2)
             ELSE Emit(q, "STRING", SubSeq(q.input, q.pos + 1, j - 1), j)

LexComment ==
  /\ Reading
  /\ ch = "#"
  /\ l' = [next EXCEPT !.pos = Until(next.input, next.pos, {"\n"})]

LexEOF ==
  /\ Reading
  /\ ch = ""
  /\ l' = [Emit(next, "EOF", "", next.pos) EXCEPT !.outcome = "read"]

\* The token of a word, quoted or not, that ends before position j.
Word(q, word, j) ==
  LET t == IF q.fsm = "method" /\ word # "self" THEN "IDENT" ELSE LookupIdent(word)
      r == Emit(q, t, word, j)
      s == IF q.fsm = "method" THEN ToState(r, "initial")
           ELSE IF word = "def" THEN ToState(r, "method") ELSE r
  IN IF t = "IDENT" THEN ToState(s, "nosymbol") ELSE s

LexWord ==
  /\ Reading
  /\ ch \in Letters
  /\ LET i == next.pos
         j == After(next.input, i, Letters \cup Digits)
         k == WordEnd(next.input, i)
     IN l' = IF ch \in Capitals
             THEN ToState(EmitTo(next, "CONSTANT", j), "initial")
             ELSE Word(next, SubSeq(next.input, i, k - 1), k)

\* A name in backquotes: what they hold decides, a keyword included.
LexQuotedIdentifier ==
  /\ Reading
  /\ ch = Backquote
  /\ LET i == next.pos + 1
         j == Until(next.input, i, {Backquote, "\n"})
         word == SubSeq(next.input, i, j - 1)
     IN l' = IF word = "" THEN Emit(next, "ILLEGAL", Backquote \o Backquote, j + 1)
             ELSE IF CharAt(word, 1) \in Capitals
             THEN ToState(Emit(next, "CONSTANT", word, j + 1), "initial")
             ELSE IF CharAt(word, 1) = "@"
             THEN Emit(next, "INSTANCE_VAR", word, j + 1)
             ELSE Word(next, word, j + 1)

LexInstanceVariable ==
  /\ Reading
  /\ ch = "@"
  /\ LET j == After(next.input, next.pos, Letters \cup Digits \cup {"@"})
     IN l' = IF peek \in Letters THEN EmitTo(next, "INSTANCE_VAR", j)
             ELSE [Emit(next, "ILLEGAL", "@", next.pos) EXCEPT !.outcome = "read"]

LexNumber ==
  /\ Reading
  /\ ch \in Digits
  /\ l' = EmitTo(next, "INT", After(next.input, next.pos, Digits))

LexIllegal ==
  /\ Reading
  /\ ch \notin Symbols \cup Letters \cup Digits \cup {"", ":", "#", Backquote, "@", "\"", "'"}
  /\ l' = EmitTo(next, "ILLEGAL", next.pos + 1)

-----------------------------------------------------------------------------
(* Strings, of which the newlines are not counted.                         *)

readString ==
  /\ Reading
  /\ ch \in {"\"", "'"}
  /\ l' = IF peek = ch THEN Emit(next, "STRING", "", next.pos + 2)
          ELSE [next EXCEPT !.quote = ch, !.literal = "", !.pos = @ + 1]

\* Escapes with a code are left out; \a, \b and \v stay the letter.
escapeSequence(c) ==
  IF c = "n" THEN "\n" ELSE IF c = "t" THEN "\t"
  ELSE IF c = "r" THEN "\r" ELSE IF c = "f" THEN "\f" ELSE c

\* A string that is not closed loses its last character.
readStringChar ==
  /\ l.outcome = "reading"
  /\ l.quote # ""
  /\ LET c == CharAt(l.input, l.pos)
         escaped == c = "\\"
         j == l.pos + (IF escaped THEN 2 ELSE 1)
         literal == l.literal \o (IF escaped THEN escapeSequence(CharAt(l.input, l.pos + 1)) ELSE c)
         ends == CharAt(l.input, j) = l.quote \/ CharAt(l.input, j + 1) = ""
     IN l' = IF ends
             THEN [Emit(l, "STRING", literal, j + 1) EXCEPT !.quote = "", !.literal = ""]
             ELSE [l EXCEPT !.literal = literal, !.pos = j]

NextToken ==
  \/ LexSymbol \/ LexColon \/ LexComment \/ LexEOF \/ LexWord
  \/ LexQuotedIdentifier \/ LexInstanceVariable \/ LexNumber \/ LexIllegal
  \/ readString \/ readStringChar

=============================================================================
