------------------------------- MODULE Lexer -------------------------------
(***************************************************************************)
(* The lexer (frontend/lexer.c): next_token on a text of characters, and   *)
(* the window of a current and a peeked token that the parser moves,       *)
(* saves (Lexer saved = *P) and restores.                                  *)
(***************************************************************************)
EXTENDS Integers, Sequences, FiniteSets

CONSTANT Texts    \* the texts that are read, sequences of characters

\* The end of a text is not one of its characters.
ASSUME TextsAssumption ==
  \A text \in Texts : /\ Len(text) \in Nat /\ DOMAIN text = 1 .. Len(text)
                      /\ \A i \in DOMAIN text : text[i] # "eof"

VARIABLES
  src,     \* the text
  lex,     \* the lexer: where it reads, and its two tokens
  saved    \* a copy of it

lvars == <<src, lex, saved>>

-----------------------------------------------------------------------------
Letters == {"f", "i", "n"}
Digits == {"1"}
Blanks == {" ", "\n"}
Quotes == {"\"", "'"}
Keywords == {<<"i", "f">>, <<"i", "n">>}
Operators ==
  {<<"+">>, <<"+", "=">>, <<"+", "+">>, <<"/">>, <<"/", "=">>, <<"=">>, <<"=", "=">>,
   <<"!", "=">>, <<".">>, <<".", ".">>, <<"(">>}

Ch(text, p) == IF p \in DOMAIN text THEN text[p] ELSE "eof"

\* The first place from p on whose character is not one of chars.
RunEnd(text, p, chars) ==
  LET end[q \in Nat] == IF Ch(text, q) \in chars THEN end[q + 1] ELSE q
  IN  end[p]

\* skip_whitespace_and_comments
SkipBlanks(text, p) ==
  LET skip[q \in Nat] ==
        IF Ch(text, q) \in Blanks THEN skip[q + 1]
        ELSE IF Ch(text, q) = "/" /\ Ch(text, q + 1) = "/"
          THEN skip[RunEnd(text, q, {text[i] : i \in DOMAIN text} \ {"\n"})]
        ELSE q
  IN  skip[p]

\* A place with its line and column.
Place(pos, line, col) == [pos |-> pos, line |-> line, col |-> col]

\* Mutant: a new line does not begin at column 1.
MovedOnOneLine(text, place, q) ==
  Place(q, place.line + Cardinality({i \in place.pos .. q - 1 : Ch(text, i) = "\n"}),
        place.col + q - place.pos)

\* advance, until the place is q.
Moved(text, place, q) ==
  LET breaks == {i \in place.pos .. q - 1 : Ch(text, i) = "\n"}
  IN  IF breaks = {} THEN Place(q, place.line, place.col + q - place.pos)
      ELSE Place(q, place.line + Cardinality(breaks),
                 q - (CHOOSE i \in breaks : \A j \in breaks : j <= i))

\* Mutant: an escaped quote ends the literal.
StringBodyUnescaped(text, p, quote) ==
  LET body[q \in Nat] ==
        IF Ch(text, q) \in {quote, "eof"} THEN [text |-> <<>>, end |-> q]
        ELSE [body[q + 1] EXCEPT !.text = <<Ch(text, q)>> \o @]
  IN  body[p]

\* The characters of a string literal from p to its closing quote, with the escapes
\* resolved: their text and the place of the quote, or of the end of the text.
StringBody(text, p, quote) ==
  LET Resolved(c) == IF c = "n" THEN "\n" ELSE c
      body[q \in Nat] ==
        CASE Ch(text, q) \in {quote, "eof"} -> [text |-> <<>>, end |-> q]
          [] Ch(text, q) = "\\" ->
               IF Ch(text, q + 1) = "eof" THEN [text |-> <<>>, end |-> q + 1]
               ELSE [body[q + 2] EXCEPT !.text = <<Resolved(Ch(text, q + 1))>> \o @]
          [] OTHER -> [body[q + 1] EXCEPT !.text = <<Ch(text, q)>> \o @]
  IN  body[p]

\* The kind, text and end of the token whose first character is at p.
Scan(text, p) ==
  LET c == Ch(text, p)
      Token(kind, end) == [kind |-> kind, text |-> SubSeq(text, p, end - 1), end |-> end]
      String(kind, q) ==
        LET body == StringBody(text, q + 1, Ch(text, q))
        IN  IF Ch(text, body.end) = "eof" THEN Token("error", p)
            ELSE [kind |-> kind, text |-> body.text, end |-> body.end + 1]
      word  == RunEnd(text, p, Letters \cup Digits)
      whole == RunEnd(text, p, Digits)
      pair  == <<c, Ch(text, p + 1)>>
  IN CASE c = "eof" -> Token("eof", p)
       [] c = "f" /\ Ch(text, p + 1) \in Quotes -> String("fstring", p + 1)
       [] c \in Letters /\ ~(c = "f" /\ Ch(text, p + 1) \in Quotes) ->
            Token(IF SubSeq(text, p, word - 1) \in Keywords THEN "keyword" ELSE "ident", word)
       [] c \in Digits ->
            IF Ch(text, whole) = "." /\ Ch(text, whole + 1) \in Digits
              THEN Token("float", RunEnd(text, whole + 1, Digits)) ELSE Token("int", whole)
       [] c \in Quotes -> String("string", p)
       [] pair \in Operators -> Token("operator", p + 2)
       [] pair \notin Operators /\ <<c>> \in Operators -> Token("operator", p + 1)
       [] OTHER -> Token("error", p)

\* next_token.  Words and literals are located by their first character; the location of
\* an operator is taken after it was read.
NextToken(text, place) ==
  LET start == Moved(text, place, SkipBlanks(text, place.pos))
      t == Scan(text, start.pos)
      next == Moved(text, start, t.end)
      at == IF t.kind = "operator" THEN next ELSE start
  IN  [kind |-> t.kind, text |-> t.text, start |-> start.pos, line |-> at.line, col |-> at.col, next |-> next]

-----------------------------------------------------------------------------
NoToken == [kind |-> "none", text |-> <<>>, start |-> 0, line |-> 0, col |-> 0, next |-> Place(0, 0, 0)]
FirstToken(text) == NextToken(text, Place(1, 1, 1))
TokenAfter(text, token) == NextToken(text, token.next)

\* lexer_init
Init ==
  /\ src \in Texts
  /\ lex = [at |-> FirstToken(src).next, current |-> FirstToken(src), peek |-> NoToken, hasPeek |-> FALSE]
  /\ saved = lex

Running == lex.current.kind # "error" /\ ~(lex.hasPeek /\ lex.peek.kind = "error")

\* Mutant: a token that was peeked at is passed over.
AdvancePastPeek ==
  /\ Running
  /\ lex' = [lex EXCEPT !.current = NextToken(src, lex.at), !.at = NextToken(src, @).next, !.hasPeek = FALSE]
  /\ UNCHANGED <<src, saved>>

\* lexer_advance, and lexer_match and lexer_expect when the token is the one they ask for.
Advance ==
  /\ Running
  /\ lex' = IF lex.hasPeek
              THEN [lex EXCEPT !.current = lex.peek, !.hasPeek = FALSE]
              ELSE [lex EXCEPT !.current = NextToken(src, lex.at), !.at = NextToken(src, @).next]
  /\ UNCHANGED <<src, saved>>

\* lexer_peek
Peek ==
  /\ Running
  /\ ~lex.hasPeek
  /\ lex' = [lex EXCEPT !.peek = NextToken(src, lex.at), !.at = NextToken(src, @).next, !.hasPeek = TRUE]
  /\ UNCHANGED <<src, saved>>

\* The parser's Lexer saved = *P ...
Save ==
  /\ Running
  /\ saved' = lex
  /\ UNCHANGED <<src, lex>>

\* ... and *P = saved.
Restore ==
  /\ Running
  /\ lex' = saved
  /\ UNCHANGED <<src, saved>>

Next == Advance \/ Peek \/ Save \/ Restore
Spec == Init /\ [][Next]_lvars

-----------------------------------------------------------------------------
\* What a token may look like, whatever stands around it.
Escaped(s, i) ==
  \E n \in 0 .. i - 2 : /\ n % 2 = 1
                        /\ \A j \in i - n .. i - 1 : s[j] = "\\"
                        /\ s[i - n - 1] # "\\"
IsString(s) ==
  /\ Len(s) > 1 /\ s[1] \in Quotes
  /\ {i \in 2 .. Len(s) : s[i] = s[1] /\ ~Escaped(s, i)} = {Len(s)}
IsNumber(s) ==
  LET dots == {i \in DOMAIN s : s[i] = "."}
  IN  /\ \A i \in DOMAIN s \ dots : s[i] \in Digits
      /\ dots = {} \/ \E i \in 2 .. Len(s) - 1 : dots = {i}
KindOf(s) ==
  CASE s[1] \in Letters /\ \A i \in DOMAIN s : s[i] \in Letters \cup Digits ->
         IF s \in Keywords THEN "keyword" ELSE "ident"
    [] s[1] = "f" /\ IsString(Tail(s)) -> "fstring"
    [] IsString(s)    -> "string"
    [] IsNumber(s)    -> IF \E i \in DOMAIN s : s[i] = "." THEN "float" ELSE "int"
    [] s \in Operators -> "operator"
    [] OTHER -> "none"

\* The place i of the text is a blank or in a comment that begins at from or behind it.
Ignored(from, i) ==
  \/ src[i] \in Blanks
  \/ \E j \in from .. i : /\ Ch(src, j) = "/" /\ Ch(src, j + 1) = "/"
                          /\ \A k \in j .. i : src[k] # "\n"

\* The longest token that begins at place p ends before this place; p, if there is none.
LongestEnd(p) ==
  LET ends == {e \in p + 1 .. Len(src) + 1 : KindOf(SubSeq(src, p, e - 1)) # "none"}
  IN  IF ends = {} THEN p ELSE CHOOSE e \in ends : \A d \in ends : d <= e

\* The token, if there is one at its place, is the longest.
IsLongest(t) ==
  CASE t.kind = "eof"   -> t.start = Len(src) + 1
    [] t.kind = "error" -> \/ LongestEnd(t.start) = t.start
                           \/ src[t.start] = "f" /\ src[t.start + 1] \in Quotes
    [] OTHER -> /\ t.next.pos = LongestEnd(t.start)
                /\ t.kind = KindOf(SubSeq(src, t.start, t.next.pos - 1))

\* Between two places there are only blanks and comments, and no token begins with one.
IsGap(from, to) ==
  /\ \A i \in from .. to - 1 : Ignored(from, i)
  /\ to \in DOMAIN src => ~Ignored(to, to)

\* next_token, which decides by one character of lookahead at a time, finds what reading
\* as many characters as make a token would find - `1..1`, `1.1`, `+=`, an f in front of a
\* quote, a comment instead of a division, an escaped quote - and passes over nothing
\* but blanks and comments.
TokensOfText ==
  LET t == lex.current
      after == TokenAfter(src, t)
  IN  /\ IsLongest(t) /\ IsLongest(after)
      /\ IsGap(1, FirstToken(src).start)
      /\ t.kind # "error" => IsGap(t.next.pos, after.start)

\* The line and the column of the source that a token is reported at (SrcLoc) are those of
\* its first character, and for an operator those of the character behind it.
Located ==
  LET t == lex.current
      p == IF t.kind = "operator" THEN t.next.pos ELSE t.start
      breaks == {i \in 1 .. p - 1 : src[i] = "\n"}
  IN  /\ t.line = 1 + Cardinality(breaks)
      /\ \A i \in 1 .. p - 1 : t.col = p - i <=> (i \in breaks /\ \A j \in breaks : j <= i)

\* Through every sequence of peeking, advancing, saving and restoring the parser sees one
\* sequence of tokens.
Cursor == INSTANCE TokenCursor
  WITH text <- src, token <- lex.current, mark <- saved.current, First <- FirstToken, After <- TokenAfter
ImplementsCursor == Cursor!Spec
=============================================================================
