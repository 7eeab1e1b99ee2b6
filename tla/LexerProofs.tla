---------------------------- MODULE LexerProofs ----------------------------
(***************************************************************************)
(* Proofs about lexer.c, for every set of texts.  First the window: what-  *)
(* ever next_token finds, the parser sees it once and in order, however it *)
(* peeks, saves and restores.  Then next_token: from the recursive         *)
(* functions of the scanner (RunEnd, SkipBlanks, StringBody) up to the     *)
(* invariants that its tokens are the longest of the text, and have the    *)
(* right line and column.                                                  *)
(***************************************************************************)
EXTENDS Lexer, FiniteSetTheorems, SequenceTheorems, WellFoundedInduction, TLAPS


\* The parts of the window.
Fields(l) ==
  /\ l = [at |-> l.at, current |-> l.current, peek |-> l.peek, hasPeek |-> l.hasPeek]
  /\ l.hasPeek \in BOOLEAN

\* The lexer reads on behind its last token: behind the one peeked at, which is the
\* one behind the current token, or behind the current token.
Consecutive(l) ==
  IF l.hasPeek THEN l.peek = NextToken(src, l.current.next) /\ l.at = l.peek.next
  ELSE l.at = l.current.next

\* The inductive invariant of the window and of the copy of it.
WindowOK == /\ Fields(lex) /\ Fields(saved)
            /\ Consecutive(lex) /\ Consecutive(saved)

\* lexer_init fills the window with the first token.
LEMMA InitWindow == Init => WindowOK
<1> SUFFICES ASSUME Init PROVE WindowOK
  OBVIOUS
<1>1. lex = [at |-> FirstToken(src).next, current |-> FirstToken(src), peek |-> NoToken, hasPeek |-> FALSE]
  BY DEF Init
<1>2. Fields(lex) /\ Consecutive(lex)
  BY <1>1 DEF Fields, Consecutive
<1>3. saved = lex
  BY DEF Init
<1>4. QED
  BY <1>2, <1>3 DEF WindowOK

\* What the steps do to the window.
LEMMA AdvanceWindow ==
  ASSUME WindowOK, Advance
  PROVE  /\ Fields(lex') /\ ~lex'.hasPeek
         /\ lex'.current = TokenAfter(src, lex.current)
         /\ lex'.at = lex'.current.next
<1>1. CASE lex.hasPeek
  <2>1. lex' = [lex EXCEPT !.current = lex.peek, !.hasPeek = FALSE]
    BY <1>1 DEF Advance
  <2>2. lex' = [at |-> lex.at, current |-> lex.peek, peek |-> lex.peek, hasPeek |-> FALSE]
    BY <2>1 DEF WindowOK, Fields
  <2>3. QED
    BY <1>1, <2>2 DEF WindowOK, Fields, Consecutive, TokenAfter
<1>2. CASE ~lex.hasPeek
  <2>1. lex' = [lex EXCEPT !.current = NextToken(src, lex.at), !.at = NextToken(src, @).next]
    BY <1>2 DEF Advance
  <2>2. lex' = [at |-> NextToken(src, lex.at).next, current |-> NextToken(src, lex.at),
                peek |-> lex.peek, hasPeek |-> lex.hasPeek]
    BY <2>1 DEF WindowOK, Fields
  <2>3. QED
    BY <1>2, <2>2 DEF WindowOK, Fields, Consecutive, TokenAfter
<1>3. QED
  BY <1>1, <1>2 DEF WindowOK, Fields

\* lexer_peek leaves the current token alone and has the one after it.
LEMMA PeekWindow ==
  ASSUME WindowOK, Peek
  PROVE  /\ Fields(lex') /\ lex'.hasPeek
         /\ lex'.current = lex.current
         /\ lex'.peek = TokenAfter(src, lex.current)
         /\ lex'.at = lex'.peek.next
<1>1. lex' = [lex EXCEPT !.peek = NextToken(src, lex.at), !.at = NextToken(src, @).next, !.hasPeek = TRUE]
  BY DEF Peek
<1>2. lex' = [at |-> NextToken(src, lex.at).next, current |-> lex.current,
              peek |-> NextToken(src, lex.at), hasPeek |-> TRUE]
  BY <1>1 DEF WindowOK, Fields
<1>3. QED
  BY <1>2 DEF Peek, WindowOK, Fields, Consecutive, TokenAfter

\* Every operation leaves the window consecutive.
LEMMA NextWindow == WindowOK /\ [Next]_lvars => WindowOK'
<1> SUFFICES ASSUME WindowOK, [Next]_lvars PROVE WindowOK'
  OBVIOUS
<1>1. ASSUME Advance PROVE WindowOK'
  <2>1. UNCHANGED <<src, saved>>
    BY <1>1 DEF Advance
  <2>2. QED
    BY <1>1, <2>1, AdvanceWindow DEF WindowOK, Consecutive, TokenAfter, Fields
<1>2. ASSUME Peek PROVE WindowOK'
  <2>1. UNCHANGED <<src, saved>>
    BY <1>2 DEF Peek
  <2>2. QED
    BY <1>2, <2>1, PeekWindow DEF WindowOK, Consecutive, TokenAfter, Fields
<1>3. ASSUME Save PROVE WindowOK'
  BY <1>3 DEF Save, WindowOK, Consecutive, Fields
<1>4. ASSUME Restore PROVE WindowOK'
  BY <1>4 DEF Restore, WindowOK, Consecutive, Fields
<1>5. ASSUME UNCHANGED lvars PROVE WindowOK'
  BY <1>5 DEF lvars, WindowOK, Consecutive, Fields
<1>6. QED
  BY <1>1, <1>2, <1>3, <1>4, <1>5 DEF Next

\* The token that was peeked at is the one behind the current token, and reading goes
\* on behind it, in the lexer and in the parser's copy of it.
THEOREM WindowIsConsecutive == Spec => []WindowOK
BY InitWindow, NextWindow, PTL DEF Spec

\* Every step of the lexer moves the cursor to the next token, marks it, puts it back
\* or leaves it where it is.
LEMMA NextMovesCursor ==
  WindowOK /\ [Next]_lvars => [Cursor!Next]_<<src, lex.current, saved.current>>
<1> SUFFICES ASSUME WindowOK, [Next]_lvars PROVE [Cursor!Next]_<<src, lex.current, saved.current>>
  OBVIOUS
<1> USE DEF Cursor!Next
<1>1. ASSUME Advance PROVE Cursor!Advance
  <2>1. UNCHANGED <<src, saved>>
    BY <1>1 DEF Advance
  <2>2. QED
    BY <1>1, <2>1, AdvanceWindow DEF Cursor!Advance
<1>2. ASSUME Peek PROVE UNCHANGED <<src, lex.current, saved.current>>
  <2>1. UNCHANGED <<src, saved>>
    BY <1>2 DEF Peek
  <2>2. QED
    BY <1>2, <2>1, PeekWindow
<1>3. ASSUME Save PROVE Cursor!Mark
  BY <1>3 DEF Save, Cursor!Mark
<1>4. ASSUME Restore PROVE Cursor!PutBack
  BY <1>4 DEF Restore, Cursor!PutBack
<1>5. ASSUME UNCHANGED lvars PROVE UNCHANGED <<src, lex.current, saved.current>>
  BY <1>5 DEF lvars
<1>6. QED
  BY <1>1, <1>2, <1>3, <1>4, <1>5 DEF Next

\* Refinement: however the parser peeks, advances, saves and restores, it sees one
\* sequence of tokens, each of which follows the one before it in the text.
THEOREM LexerIsCursor == Spec => ImplementsCursor
<1>1. Init => Cursor!Init
  BY DEF Init, Cursor!Init
<1>2. QED
  BY <1>1, NextMovesCursor, WindowIsConsecutive, PTL DEF Spec, ImplementsCursor, Cursor!Spec
-----------------------------------------------------------------------------
\* A set of natural numbers has a least element.
LEMMA LeastIn ==
  ASSUME NEW T \in SUBSET Nat, T # {}
  PROVE  \E m \in T : \A n \in T : m <= n
<1> DEFINE R == OpToRel(<, Nat)
<1>1. IsWellFoundedOn(R, Nat)
  BY NatLessThanWellFounded
<1>2. \A x, y \in Nat : x < y => <<x, y>> \in R
  BY DEF OpToRel
<1> HIDE DEF R
<1>3. PICK m \in T : \A n \in T : <<n, m>> \notin R
  BY <1>1, WFMin
<1>4. \A n \in T : ~(n < m)
  BY <1>2, <1>3
<1>5. QED
  BY <1>4

\* Induction from the end of a text down to its beginning.
LEMMA Backwards ==
  ASSUME NEW S, NEW n \in Nat,
         \A q \in Nat : q > n => q \in S,
         \A q \in Nat : (\A r \in Nat : r > q => r \in S) => q \in S
  PROVE  Nat \subseteq S
<1> SUFFICES ASSUME NEW x \in Nat, x \notin S PROVE FALSE
  OBVIOUS
<1> DEFINE T == {m \in Nat : m <= n /\ n - m \notin S}
<1>1. x <= n /\ n - x \in Nat /\ n - (n - x) = x
  OBVIOUS
<1>2. T \in SUBSET Nat /\ n - x \in T
  BY <1>1
<1>3. PICK m \in T : \A k \in T : m <= k
  <2> HIDE DEF T
  <2> QED BY <1>2, LeastIn
<1>4. m \in Nat /\ m <= n /\ n - m \in Nat /\ n - m \notin S
  BY <1>3
<1>5. ASSUME NEW r \in Nat, r > n - m PROVE r \in S
  <2>1. CASE r > n
    BY <2>1
  <2>2. CASE ~(r > n)
    <3>1. n - r \in Nat /\ n - r < m /\ n - (n - r) = r /\ n - r <= n
      BY <1>4, <1>5, <2>2
    <3>2. n - r \notin T
      BY <1>3, <1>4, <3>1
    <3>3. QED
      BY <3>1, <3>2
  <2>3. QED
    BY <2>1, <2>2
<1>6. QED
  BY <1>4, <1>5

\* F makes each value of a function up to n from its values at later places.
FromLater(F, V, n) ==
  /\ F \in [[Nat -> V] -> [Nat -> V]]
  /\ \A f, g \in [Nat -> V] : \A q \in Nat :
       (q > n \/ \A r \in Nat : r > q => f[r] = g[r]) => F[f][q] = F[g][q]

\* A definition by recursion on later places, as those of the scanner, defines a function.
LEMMA LaterPlaces ==
  ASSUME NEW V, NEW v \in V, NEW F, NEW n \in Nat, FromLater(F, V, n)
  PROVE  \E f \in [Nat -> V] : f = F[f]
<1> USE DEF FromLater
<1> DEFINE From(f, q) == \A r \in Nat : r >= q => f[r] = F[f][r]
           S == {q \in Nat : \E f \in [Nat -> V] : From(f, q)}
<1>1. ASSUME NEW q \in Nat, q > n PROVE q \in S
  <2> DEFINE g == F[[i \in Nat |-> v]]
  <2>1. [i \in Nat |-> v] \in [Nat -> V] /\ g \in [Nat -> V]
    OBVIOUS
  <2>2. ASSUME NEW r \in Nat, r >= q PROVE g[r] = F[g][r]
    <3>1. r > n
      BY <1>1, <2>2
    <3>2. QED
      BY <2>1, <3>1
  <2> HIDE DEF g
  <2>3. QED
    BY <2>1, <2>2
<1>2. ASSUME NEW q \in Nat, \A r \in Nat : r > q => r \in S PROVE q \in S
  <2>1. q + 1 \in Nat /\ q + 1 > q
    OBVIOUS
  <2>2. PICK f \in [Nat -> V] : From(f, q + 1)
    BY <1>2, <2>1
  <2> DEFINE g == [f EXCEPT ![q] = F[f][q]]
  <2>3. /\ F[f] \in [Nat -> V] /\ g \in [Nat -> V] /\ g[q] = F[f][q]
        /\ \A r \in Nat : r > q => g[r] = f[r]
    OBVIOUS
  <2> HIDE DEF g
  <2>4. ASSUME NEW r \in Nat, r >= q PROVE g[r] = F[g][r]
    <3>1. \A s \in Nat : s > r => f[s] = g[s]
      BY <2>3, <2>4
    <3>2. F[f][r] = F[g][r]
      BY <2>3, <3>1
    <3>3. CASE r = q
      BY <2>3, <3>2, <3>3
    <3>4. CASE r # q
      <4>1. r > q /\ r >= q + 1
        BY <2>4, <3>4
      <4>2. QED
        BY <2>2, <2>3, <3>2, <4>1
    <3>5. QED
      BY <3>3, <3>4
  <2>5. QED
    BY <2>3, <2>4
<1>3. 0 \in S
  <2> HIDE DEF S
  <2> QED BY <1>1, <1>2, Backwards
<1>4. PICK f \in [Nat -> V] : From(f, 0)
  BY <1>3
<1>5. \A r \in Nat : f[r] = F[f][r]
  BY <1>4
<1>6. f = F[f]
  BY <1>5
<1>7. QED
  BY <1>6

-----------------------------------------------------------------------------
\* A sequence of characters, none of which is the end of a text.
IsText(text) ==
  /\ Len(text) \in Nat /\ DOMAIN text = 1 .. Len(text)
  /\ \A i \in DOMAIN text : text[i] # "eof"

\* What is behind a place: a character of the text, or its end.
LEMMA ChOf ==
  ASSUME NEW text, IsText(text), NEW q \in Nat
  PROVE  /\ q \in 1 .. Len(text) => Ch(text, q) = text[q] /\ Ch(text, q) # "eof"
         /\ q \notin 1 .. Len(text) => Ch(text, q) = "eof"
         /\ q > Len(text) => Ch(text, q) = "eof"
BY DEF IsText, Ch

\* RunEnd is the first place whose character is not one of chars.
LEMMA RunEndIs ==
  ASSUME NEW text, IsText(text), NEW chars, "eof" \notin chars, NEW p \in Nat
  PROVE  /\ RunEnd(text, p, chars) \in Nat /\ RunEnd(text, p, chars) >= p
         /\ Ch(text, RunEnd(text, p, chars)) \notin chars
         /\ \A i \in p .. RunEnd(text, p, chars) - 1 : Ch(text, i) \in chars
<1> DEFINE Step(f) == [q \in Nat |-> IF Ch(text, q) \in chars THEN f[q + 1] ELSE q]
           F == [f \in [Nat -> Nat] |-> Step(f)]
           n == Len(text)
           end == CHOOSE f : f = Step(f)
<1>1. n \in Nat
  BY DEF IsText
<1>2. \A q \in Nat : q > n => Ch(text, q) \notin chars
  BY ChOf
<1>3. \E f \in [Nat -> Nat] : f = F[f]
  <2>1. \A f \in [Nat -> Nat] : F[f] = Step(f) /\ F[f] \in [Nat -> Nat]
    OBVIOUS
  <2>2. F \in [[Nat -> Nat] -> [Nat -> Nat]]
    BY <2>1
  <2>3. ASSUME NEW f \in [Nat -> Nat], NEW g \in [Nat -> Nat], NEW q \in Nat,
               q > n \/ \A r \in Nat : r > q => f[r] = g[r]
        PROVE  F[f][q] = F[g][q]
    <3>1. Ch(text, q) \in chars => f[q + 1] = g[q + 1]
      BY <1>2, <2>3
    <3>2. QED
      BY <2>1, <3>1
  <2>4. \A f, g \in [Nat -> Nat] : \A q \in Nat :
          (q > n \/ \A r \in Nat : r > q => f[r] = g[r]) => F[f][q] = F[g][q]
    BY <2>3
  <2>5. 0 \in Nat
    OBVIOUS
  <2> HIDE DEF F, n
  <2>6. FromLater(F, Nat, n)
    BY <2>2, <2>4 DEF FromLater
  <2>7. QED
    BY <1>1, <2>5, <2>6, LaterPlaces
<1>4. end = Step(end)
  <2>1. \E f : f = Step(f)
    BY <1>3
  <2>2. QED
    BY <2>1
<1>5. RunEnd(text, p, chars) = end[p]
  BY DEF RunEnd
<1> HIDE DEF end, n
<1>6. \A q \in Nat : end[q] = IF Ch(text, q) \in chars THEN end[q + 1] ELSE q
  BY <1>4
<1> DEFINE Good(q) == /\ end[q] \in Nat /\ end[q] >= q
                      /\ Ch(text, end[q]) \notin chars
                      /\ \A i \in q .. end[q] - 1 : Ch(text, i) \in chars
           S == {q \in Nat : Good(q)}
<1>7. ASSUME NEW q \in Nat, q > n PROVE q \in S
  BY <1>2, <1>6, <1>7
<1>8. ASSUME NEW q \in Nat, \A r \in Nat : r > q => r \in S PROVE q \in S
  <2>1. CASE Ch(text, q) \in chars
    <3>1. end[q] = end[q + 1] /\ q + 1 \in S
      BY <1>6, <1>8, <2>1
    <3>2. \A i \in q .. end[q + 1] - 1 : i = q \/ i \in q + 1 .. end[q + 1] - 1
      BY <3>1
    <3>3. QED
      BY <2>1, <3>1, <3>2
  <2>2. CASE Ch(text, q) \notin chars
    BY <1>6, <2>2
  <2>3. QED
    BY <2>1, <2>2
<1>9. p \in S
  <2> HIDE DEF S
  <2> QED BY <1>1, <1>7, <1>8, Backwards
<1>10. QED
  BY <1>5, <1>9

\* The characters that a comment consists of.
InComment(text) == {text[i] : i \in DOMAIN text} \ {"\n"}
\* A comment begins at q, and where it ends.
BeginsComment(text, q) == Ch(text, q) = "/" /\ Ch(text, q + 1) = "/"
CommentEnd(text, q) == RunEnd(text, q, InComment(text))

\* A comment goes on to the end of its line, or of the text.
LEMMA CommentEndIs ==
  ASSUME NEW text, IsText(text), NEW q \in Nat
  PROVE  /\ CommentEnd(text, q) \in Nat
         /\ BeginsComment(text, q) => CommentEnd(text, q) > q
         /\ \A i \in q .. CommentEnd(text, q) - 1 : Ch(text, i) \notin {"\n", "eof"}
<1> DEFINE chars == InComment(text)
           e == RunEnd(text, q, chars)
<1>1. "eof" \notin chars /\ "\n" \notin chars
  BY DEF InComment, IsText
<1>2. /\ e \in Nat /\ e >= q /\ Ch(text, e) \notin chars
      /\ \A i \in q .. e - 1 : Ch(text, i) \in chars
  <2> HIDE DEF chars
  <2> QED BY <1>1, RunEndIs
<1>3. ASSUME BeginsComment(text, q) PROVE e > q
  <2>1. Ch(text, q) = "/"
    BY <1>3 DEF BeginsComment
  <2>2. Ch(text, q) = text[q] /\ q \in DOMAIN text
    BY <2>1 DEF Ch
  <2>3. Ch(text, q) \in chars
    BY <2>1, <2>2 DEF InComment
  <2>4. e # q
    BY <1>2, <2>3
  <2>5. QED
    BY <1>2, <2>4
<1>4. CommentEnd(text, q) = e
  BY DEF CommentEnd
<1> HIDE DEF chars, e
<1>5. QED
  BY <1>1, <1>2, <1>3, <1>4

\* The place i is a blank or in a comment that begins at from or behind it.
Passed(text, from, i) ==
  \/ Ch(text, i) \in Blanks
  \/ \E j \in from .. i : /\ BeginsComment(text, j)
                          /\ \A k \in j .. i : Ch(text, k) \notin {"\n", "eof"}

\* skip_whitespace_and_comments passes over blanks and comments, up to a place where
\* there is neither.
LEMMA SkipBlanksIs ==
  ASSUME NEW text, IsText(text), NEW p \in Nat
  PROVE  /\ SkipBlanks(text, p) \in Nat /\ SkipBlanks(text, p) >= p
         /\ Ch(text, SkipBlanks(text, p)) \notin Blanks
         /\ ~BeginsComment(text, SkipBlanks(text, p))
         /\ \A i \in p .. SkipBlanks(text, p) - 1 : Passed(text, p, i)
<1> DEFINE Step(f) == [q \in Nat |-> IF Ch(text, q) \in Blanks THEN f[q + 1]
                                     ELSE IF BeginsComment(text, q) THEN f[CommentEnd(text, q)] ELSE q]
           F == [f \in [Nat -> Nat] |-> Step(f)]
           n == Len(text)
           skip == CHOOSE f : f = Step(f)
<1>1. n \in Nat /\ \A q \in Nat : CommentEnd(text, q) \in Nat /\ (BeginsComment(text, q) => CommentEnd(text, q) > q)
  BY CommentEndIs DEF IsText
<1>2. \A q \in Nat : q > n => Ch(text, q) \notin Blanks /\ ~BeginsComment(text, q)
  BY ChOf DEF BeginsComment, Blanks
<1>3. \E f \in [Nat -> Nat] : f = F[f]
  <2>1. \A f \in [Nat -> Nat] : F[f] = Step(f) /\ F[f] \in [Nat -> Nat]
    <3>1. ASSUME NEW f \in [Nat -> Nat] PROVE Step(f) \in [Nat -> Nat]
      <4>1. ASSUME NEW q \in Nat PROVE f[q + 1] \in Nat /\ f[CommentEnd(text, q)] \in Nat
        <5>1. q + 1 \in Nat /\ CommentEnd(text, q) \in Nat
          BY CommentEndIs
        <5>2. QED
          BY <3>1, <5>1
      <4>2. QED
        BY <4>1
    <3>2. \A f \in [Nat -> Nat] : F[f] = Step(f)
      OBVIOUS
    <3>3. QED
      BY <3>1, <3>2
  <2>2. F \in [[Nat -> Nat] -> [Nat -> Nat]]
    BY <2>1
  <2>3. ASSUME NEW f \in [Nat -> Nat], NEW g \in [Nat -> Nat], NEW q \in Nat,
               q > n \/ \A r \in Nat : r > q => f[r] = g[r]
        PROVE  F[f][q] = F[g][q]
    <3>1. Ch(text, q) \in Blanks => f[q + 1] = g[q + 1]
      BY <1>2, <2>3
    <3>2. BeginsComment(text, q) => f[CommentEnd(text, q)] = g[CommentEnd(text, q)]
      BY <1>1, <1>2, <2>3
    <3>3. QED
      BY <2>1, <3>1, <3>2
  <2>4. \A f, g \in [Nat -> Nat] : \A q \in Nat :
          (q > n \/ \A r \in Nat : r > q => f[r] = g[r]) => F[f][q] = F[g][q]
    BY <2>3
  <2>5. 0 \in Nat
    OBVIOUS
  <2> HIDE DEF F, n
  <2>6. FromLater(F, Nat, n)
    BY <2>2, <2>4 DEF FromLater
  <2>7. QED
    BY <1>1, <2>5, <2>6, LaterPlaces
<1>4. skip = Step(skip)
  <2>1. \E f : f = Step(f)
    BY <1>3
  <2>2. QED
    BY <2>1
<1>5. SkipBlanks(text, p) = skip[p]
  BY DEF SkipBlanks, BeginsComment, CommentEnd, InComment
<1> HIDE DEF skip, n
<1>6. \A q \in Nat : skip[q] = IF Ch(text, q) \in Blanks THEN skip[q + 1]
                               ELSE IF BeginsComment(text, q) THEN skip[CommentEnd(text, q)] ELSE q
  BY <1>4
<1> DEFINE Good(q) == /\ skip[q] \in Nat /\ skip[q] >= q
                      /\ Ch(text, skip[q]) \notin Blanks /\ ~BeginsComment(text, skip[q])
                      /\ \A i \in q .. skip[q] - 1 : Passed(text, q, i)
           S == {q \in Nat : Good(q)}
<1>7. ASSUME NEW q \in Nat, q > n PROVE q \in S
  <2>1. skip[q] = q
    BY <1>2, <1>6, <1>7
  <2>2. QED
    BY <1>2, <1>7, <2>1
<1>8. ASSUME NEW q \in Nat, \A r \in Nat : r > q => r \in S PROVE q \in S
  <2>1. ASSUME NEW r \in Nat, r > q, skip[q] = skip[r],
               \A i \in q .. r - 1 : Passed(text, q, i)
        PROVE  q \in S
    <3>1. r \in S
      BY <1>8, <2>1
    <3>2. ASSUME NEW i \in q .. skip[q] - 1, ~(i < r) PROVE Passed(text, q, i)
      <4>1. i \in r .. skip[r] - 1 /\ i \in Nat
        BY <2>1, <3>1, <3>2
      <4>2. Passed(text, r, i)
        BY <3>1, <4>1
      <4>3. \A j \in r .. i : j \in q .. i
        BY <2>1, <4>1
      <4>4. QED
        BY <4>2, <4>3 DEF Passed
    <3>3. \A i \in q .. skip[q] - 1 : Passed(text, q, i)
      <4>1. \A i \in q .. skip[q] - 1 : i < r => i \in q .. r - 1
        BY <2>1
      <4>2. QED
        BY <2>1, <3>2, <4>1
    <3>4. QED
      BY <2>1, <3>1, <3>3
  <2>2. CASE Ch(text, q) \in Blanks
    <3>1. skip[q] = skip[q + 1] /\ \A i \in q .. (q + 1) - 1 : i = q
      BY <1>6, <2>2
    <3>2. \A i \in q .. (q + 1) - 1 : Passed(text, q, i)
      BY <2>2, <3>1 DEF Passed
    <3>3. q + 1 \in Nat /\ q + 1 > q
      OBVIOUS
    <3>4. QED
      BY <2>1, <3>1, <3>2, <3>3
  <2>3. CASE Ch(text, q) \notin Blanks /\ BeginsComment(text, q)
    <3> DEFINE r == CommentEnd(text, q)
    <3>1. skip[q] = skip[r] /\ r \in Nat /\ r > q
      BY <1>1, <1>6, <2>3
    <3>2. \A i \in q .. r - 1 : Ch(text, i) \notin {"\n", "eof"}
      BY CommentEndIs
    <3>3. ASSUME NEW i \in q .. r - 1 PROVE Passed(text, q, i)
      <4>1. q \in q .. i /\ \A k \in q .. i : k \in q .. r - 1
        BY <3>1
      <4>2. QED
        BY <2>3, <3>2, <4>1 DEF Passed
    <3> HIDE DEF r
    <3>4. QED
      BY <2>1, <3>1, <3>3
  <2>4. CASE Ch(text, q) \notin Blanks /\ ~BeginsComment(text, q)
    <3>1. skip[q] = q
      BY <1>6, <2>4
    <3>2. QED
      BY <2>4, <3>1
  <2>5. QED
    BY <2>2, <2>3, <2>4
<1>9. p \in S
  <2> HIDE DEF S
  <2> QED BY <1>1, <1>7, <1>8, Backwards
<1>10. QED
  BY <1>5, <1>9

-----------------------------------------------------------------------------
\* The line breaks in front of a place.
BreaksBefore(text, q) == {i \in 1 .. q - 1 : Ch(text, i) = "\n"}

\* The column is counted from the last line break.
ColumnOK(text, q, col) ==
  IF BreaksBefore(text, q) = {} THEN col = q
  ELSE \E i \in BreaksBefore(text, q) : col = q - i /\ \A j \in BreaksBefore(text, q) : j <= i

\* A place in the text, or at its end, whose line and column are right.
PlaceOK(text, place) ==
  /\ place.pos \in 1 .. Len(text) + 1
  /\ place.line = 1 + Cardinality(BreaksBefore(text, place.pos))
  /\ ColumnOK(text, place.pos, place.col)

\* A set of places has a last one.
LEMMA LastPlace ==
  ASSUME NEW a \in Nat, NEW b \in Nat, NEW T \in SUBSET (a .. b), T # {}
  PROVE  \E m \in T : \A k \in T : k <= m
<1> DEFINE D == {b - k : k \in T}
<1>1. \A k \in T : k \in Nat /\ b - k \in Nat
  OBVIOUS
<1>2. D \in SUBSET Nat /\ D # {}
  BY <1>1
<1>3. PICK d \in D : \A e \in D : d <= e
  <2> HIDE DEF D
  <2> QED BY <1>2, LeastIn
<1>4. PICK m \in T : d = b - m
  BY <1>3
<1>5. ASSUME NEW k \in T PROVE k <= m
  <2>1. b - k \in D
    BY <1>5
  <2>2. b - m <= b - k
    BY <1>3, <1>4, <2>1
  <2>3. k \in Nat /\ m \in Nat
    BY <1>1, <1>4
  <2>4. QED
    BY <2>2, <2>3
<1>6. QED
  BY <1>4, <1>5

\* The line breaks of a stretch of text can be counted.
LEMMA BreaksFinite ==
  ASSUME NEW text, NEW a \in Nat, NEW b \in Int
  PROVE  LET B == {i \in a .. b : Ch(text, i) = "\n"} IN IsFiniteSet(B) /\ Cardinality(B) \in Nat
<1>1. IsFiniteSet(a .. b)
  BY FS_Interval
<1>2. IsFiniteSet({i \in a .. b : Ch(text, i) = "\n"})
  BY <1>1, FS_Subset
<1>3. QED
  BY <1>2, FS_CardinalityType

\* advance keeps count of lines and columns.
LEMMA MovedIs ==
  ASSUME NEW text, IsText(text), NEW place, PlaceOK(text, place), NEW q \in place.pos .. Len(text) + 1
  PROVE  PlaceOK(text, Moved(text, place, q)) /\ Moved(text, place, q).pos = q
<1> DEFINE p == place.pos
           new == {i \in p .. q - 1 : Ch(text, i) = "\n"}
           old == BreaksBefore(text, p)
           all == BreaksBefore(text, q)
<1>1. p \in Nat \ {0} /\ q \in Nat \ {0} /\ p <= q /\ q <= Len(text) + 1 /\ Len(text) \in Nat
  BY DEF PlaceOK, IsText
<1>2. all = old \cup new /\ old \cap new = {} /\ \A i \in old, j \in new : i < j
  <2>1. \A i : i \in 1 .. q - 1 <=> (i \in 1 .. p - 1 \/ i \in p .. q - 1)
    BY <1>1
  <2>2. \A i \in 1 .. p - 1 : i \notin p .. q - 1
    BY <1>1
  <2>3. \A i \in 1 .. p - 1, j \in p .. q - 1 : i < j
    BY <1>1
  <2>4. QED
    BY <2>1, <2>2, <2>3 DEF BreaksBefore
<1>3. /\ IsFiniteSet(old) /\ IsFiniteSet(new) /\ Cardinality(old) \in Nat /\ Cardinality(new) \in Nat
  <2>1. p - 1 \in Int /\ q - 1 \in Int /\ 1 \in Nat /\ p \in Nat
    BY <1>1
  <2>2. QED
    BY <2>1, BreaksFinite DEF BreaksBefore
<1>4. Cardinality(all) = Cardinality(old) + Cardinality(new)
  <2> HIDE DEF all, old, new
  <2>1. Cardinality(old \cap new) = 0
    BY <1>2, FS_EmptySet
  <2>2. Cardinality(old \cup new) = Cardinality(old) + Cardinality(new) - Cardinality(old \cap new)
    BY <1>3, FS_Union
  <2>3. QED
    BY <1>2, <1>3, <2>1, <2>2
<1>5. place.line = 1 + Cardinality(old) /\ ColumnOK(text, p, place.col)
  BY DEF PlaceOK
<1>6. CASE new = {}
  <2>1. Moved(text, place, q) = Place(q, place.line, place.col + q - p)
    BY <1>6 DEF Moved
  <2>2. all = old
    BY <1>2, <1>6
  <2>3. ColumnOK(text, q, place.col + q - p)
    <3>1. CASE old = {}
      <4>1. place.col + q - p = q
        BY <1>1, <1>5, <3>1 DEF ColumnOK
      <4>2. QED
        BY <2>2, <3>1, <4>1 DEF ColumnOK
    <3>2. CASE old # {}
      <4>1. PICK i \in old : place.col = p - i /\ \A j \in old : j <= i
        BY <1>5, <3>2 DEF ColumnOK
      <4>2. i \in Nat
        BY <1>1, <4>1 DEF BreaksBefore
      <4>3. place.col + q - p = q - i
        BY <1>1, <4>1, <4>2
      <4>4. QED
        BY <2>2, <3>2, <4>1, <4>3 DEF ColumnOK
    <3>3. QED
      BY <3>1, <3>2
  <2>4. Cardinality(all) = Cardinality(old)
    BY <2>2
  <2>5. QED
    BY <1>1, <1>5, <2>1, <2>3, <2>4 DEF PlaceOK, Place
<1>7. CASE new # {}
  <2> DEFINE last == CHOOSE i \in new : \A j \in new : j <= i
  <2>1. Moved(text, place, q) = Place(q, place.line + Cardinality(new), q - last)
    BY <1>7 DEF Moved
  <2>2. last \in new /\ \A j \in new : j <= last
    <3>1. new \in SUBSET (p .. q - 1) /\ p \in Nat /\ q - 1 \in Nat
      BY <1>1
    <3>2. \E i \in new : \A j \in new : j <= i
      <4> HIDE DEF new, p
      <4> QED BY <1>7, <3>1, LastPlace
    <3>3. QED
      BY <3>2
  <2> HIDE DEF last
  <2>3. \A j \in all : j <= last
    <3>1. \A j \in old : j <= last
      <4>1. \A j \in old : j \in Nat /\ last \in Nat
        BY <1>1, <2>2 DEF BreaksBefore
      <4>2. QED
        BY <1>2, <2>2, <4>1
    <3>2. QED
      BY <1>2, <2>2, <3>1
  <2>4. ColumnOK(text, q, q - last)
    BY <1>2, <2>2, <2>3 DEF ColumnOK
  <2>5. place.line + Cardinality(new) = 1 + Cardinality(all)
    BY <1>3, <1>4, <1>5
  <2>6. QED
    BY <1>1, <2>1, <2>4, <2>5 DEF PlaceOK, Place
<1>8. QED
  BY <1>6, <1>7

-----------------------------------------------------------------------------
\* The place i of a literal whose characters begin at q is escaped: an odd number of
\* backslashes stands in front of it.
EscapedAt(text, q, i) ==
  \E n \in 1 .. i - q : /\ n % 2 = 1
                        /\ \A j \in i - n .. i - 1 : Ch(text, j) = "\\"
                        /\ i - n = q \/ Ch(text, i - n - 1) # "\\"

\* Two backslashes more or less do not change whether their number is odd.
LEMMA Odd ==
  /\ \A n \in Nat : (n + 2) % 2 = n % 2
  /\ 0 % 2 = 0 /\ 1 % 2 = 1 /\ 2 % 2 = 0
OBVIOUS

\* Beginning one character or two later, the same places are escaped.
LEMMA EscapedFromNext ==
  ASSUME NEW text, NEW q \in Nat, Ch(text, q) # "\\", NEW i \in Nat, i >= q + 1
  PROVE  EscapedAt(text, q, i) <=> EscapedAt(text, q + 1, i)
<1>1. ASSUME EscapedAt(text, q, i) PROVE EscapedAt(text, q + 1, i)
  <2>1. PICK n \in 1 .. i - q : /\ n % 2 = 1
                                /\ \A j \in i - n .. i - 1 : Ch(text, j) = "\\"
                                /\ i - n = q \/ Ch(text, i - n - 1) # "\\"
    BY <1>1 DEF EscapedAt
  <2>2. i - n # q
    <3>1. ASSUME i - n = q PROVE q \in i - n .. i - 1
      BY <2>1, <3>1
    <3>2. QED
      BY <2>1, <3>1
  <2>3. n \in 1 .. i - (q + 1)
    BY <2>1, <2>2
  <2>4. QED
    BY <2>1, <2>2, <2>3 DEF EscapedAt
<1>2. ASSUME EscapedAt(text, q + 1, i) PROVE EscapedAt(text, q, i)
  <2>1. PICK n \in 1 .. i - (q + 1) : /\ n % 2 = 1
                                      /\ \A j \in i - n .. i - 1 : Ch(text, j) = "\\"
                                      /\ i - n = q + 1 \/ Ch(text, i - n - 1) # "\\"
    BY <1>2 DEF EscapedAt
  <2>2. n \in 1 .. i - q
    BY <2>1
  <2>3. Ch(text, i - n - 1) # "\\"
    <3>1. CASE i - n = q + 1
      <4>1. i - n - 1 = q
        BY <2>2, <3>1
      <4>2. QED
        BY <4>1
    <3>2. QED
      BY <2>1, <3>1
  <2>4. QED
    BY <2>1, <2>2, <2>3 DEF EscapedAt
<1>3. QED
  BY <1>1, <1>2

\* ... and a backslash and the character behind it escape nothing further on.
LEMMA EscapedFromPair ==
  ASSUME NEW text, NEW q \in Nat, Ch(text, q) = "\\", NEW i \in Nat, i >= q + 2
  PROVE  EscapedAt(text, q, i) <=> EscapedAt(text, q + 2, i)
<1>1. ASSUME EscapedAt(text, q, i) PROVE EscapedAt(text, q + 2, i)
  <2>1. PICK n \in 1 .. i - q : /\ n % 2 = 1
                                /\ \A j \in i - n .. i - 1 : Ch(text, j) = "\\"
                                /\ i - n = q \/ Ch(text, i - n - 1) # "\\"
    BY <1>1 DEF EscapedAt
  <2>2. CASE i - n = q
    <3> DEFINE m == n - 2
    <3>1. n # 1 /\ n # 2
      BY <2>1, <2>2, Odd
    <3>2. m \in Nat /\ m + 2 = n /\ m \in 1 .. i - (q + 2) /\ i - m = q + 2
      BY <2>1, <2>2, <3>1
    <3>3. m % 2 = 1
      <4> HIDE DEF m
      <4> QED BY <2>1, <3>2, Odd
    <3>4. \A j \in i - m .. i - 1 : j \in i - n .. i - 1
      BY <2>1, <2>2, <3>2
    <3> HIDE DEF m
    <3>5. QED
      BY <2>1, <3>2, <3>3, <3>4 DEF EscapedAt
  <2>3. CASE i - n # q
    <3>1. i - n # q + 1
      <4>1. ASSUME i - n = q + 1 PROVE i - n - 1 = q
        BY <2>1, <4>1
      <4>2. QED
        BY <2>1, <2>3, <4>1
    <3>2. n \in 1 .. i - (q + 2)
      BY <2>1, <2>3, <3>1
    <3>3. QED
      BY <2>1, <2>3, <3>2 DEF EscapedAt
  <2>4. QED
    BY <2>2, <2>3
<1>2. ASSUME EscapedAt(text, q + 2, i) PROVE EscapedAt(text, q, i)
  <2>1. PICK n \in 1 .. i - (q + 2) : /\ n % 2 = 1
                                      /\ \A j \in i - n .. i - 1 : Ch(text, j) = "\\"
                                      /\ i - n = q + 2 \/ Ch(text, i - n - 1) # "\\"
    BY <1>2 DEF EscapedAt
  <2>2. n \in 1 .. i - q /\ n \in Nat
    BY <2>1
  <2>3. CASE i - n = q + 2 /\ Ch(text, q + 1) = "\\"
    <3> DEFINE m == n + 2
    <3>1. m \in 1 .. i - q /\ i - m = q
      BY <2>1, <2>2, <2>3
    <3>2. m % 2 = 1
      BY <2>1, <2>2, Odd
    <3>3. \A j \in i - m .. i - 1 : j = q \/ j = q + 1 \/ j \in i - n .. i - 1
      BY <2>2, <2>3
    <3>4. \A j \in i - m .. i - 1 : Ch(text, j) = "\\"
      <4> HIDE DEF m
      <4> QED BY <2>1, <2>3, <3>3
    <3> HIDE DEF m
    <3>5. QED
      BY <3>1, <3>2, <3>4 DEF EscapedAt
  <2>4. CASE i - n # q + 2 \/ Ch(text, q + 1) # "\\"
    <3>1. Ch(text, i - n - 1) # "\\"
      <4>1. CASE i - n = q + 2
        <5>1. i - n - 1 = q + 1
          BY <2>2, <4>1
        <5>2. QED
          BY <2>4, <4>1, <5>1
      <4>2. QED
        BY <2>1, <4>1
    <3>2. QED
      BY <2>1, <2>2, <3>1 DEF EscapedAt
  <2>5. QED
    BY <2>3, <2>4
<1>3. QED
  BY <1>1, <1>2

\* StringBody ends at the first quote that is not escaped, or at the end of the text.
LEMMA StringBodyIs ==
  ASSUME NEW text, IsText(text), NEW quote \in Quotes, NEW p \in Nat
  PROVE  LET e == StringBody(text, p, quote).end
         IN  /\ e \in Nat /\ e >= p
             /\ Ch(text, e) \in {quote, "eof"}
             /\ \A i \in p .. e - 1 : /\ Ch(text, i) # "eof"
                                      /\ Ch(text, i) = quote => EscapedAt(text, p, i)
             /\ Ch(text, e) = quote => ~EscapedAt(text, p, e)
<1> DEFINE Resolved(c) == IF c = "n" THEN "\n" ELSE c
           Step(f) == [q \in Nat |->
             CASE Ch(text, q) \in {quote, "eof"} -> [text |-> <<>>, end |-> q]
               [] Ch(text, q) = "\\" ->
                    IF Ch(text, q + 1) = "eof" THEN [text |-> <<>>, end |-> q + 1]
                    ELSE [f[q + 2] EXCEPT !.text = <<Resolved(Ch(text, q + 1))>> \o @]
               [] OTHER -> [f[q + 1] EXCEPT !.text = <<Ch(text, q)>> \o @]]
           C == {Ch(text, q) : q \in Nat} \cup {"\n"}
           V == [text : Seq(C), end : Nat]
           F == [f \in [Nat -> V] |-> Step(f)]
           n == Len(text)
           body == CHOOSE f : f = Step(f)
<1>1. n \in Nat /\ \A q \in Nat : q > n => Ch(text, q) = "eof"
  BY ChOf DEF IsText
<1>2. quote # "\\" /\ quote # "eof"
  BY DEF Quotes
<1>3. \A v \in V, c \in C : [v EXCEPT !.text = <<c>> \o @] \in V
  <2> HIDE DEF C
  <2>1. ASSUME NEW v \in V, NEW c \in C PROVE [v EXCEPT !.text = <<c>> \o @] \in V
    <3>1. PICK t \in Seq(C), e \in Nat : v = [text |-> t, end |-> e]
      OBVIOUS
    <3>2. <<c>> \in Seq(C) /\ <<c>> \o t \in Seq(C)
      BY ConcatProperties
    <3>3. \A u : [v EXCEPT !.text = u] = [text |-> u, end |-> e]
      BY <3>1
    <3>4. v.text = t
      BY <3>1
    <3>5. [text |-> <<c>> \o t, end |-> e] \in V
      BY <3>2
    <3> HIDE DEF V
    <3>6. QED
      BY <3>3, <3>4, <3>5
  <2>2. QED
    BY <2>1
<1>4. \A q \in Nat : Ch(text, q) \in C /\ Resolved(Ch(text, q)) \in C
  OBVIOUS
<1>5. \A q \in Nat : [text |-> <<>>, end |-> q] \in V
  <2> HIDE DEF C
  <2> QED OBVIOUS
<1>6. \E f : f = Step(f)
  <2>1. ASSUME NEW f \in [Nat -> V] PROVE Step(f) \in [Nat -> V]
    <3>1. ASSUME NEW q \in Nat PROVE Step(f)[q] \in V
      <4>1. q + 1 \in Nat /\ q + 2 \in Nat /\ f[q + 1] \in V /\ f[q + 2] \in V
        BY <2>1
      <4>2. [f[q + 2] EXCEPT !.text = <<Resolved(Ch(text, q + 1))>> \o @] \in V
        <5> HIDE DEF V, C, Resolved
        <5> QED BY <1>3, <1>4, <4>1
      <4>3. [f[q + 1] EXCEPT !.text = <<Ch(text, q)>> \o @] \in V
        <5> HIDE DEF V, C
        <5> QED BY <1>3, <1>4, <4>1
      <4> HIDE DEF V, C, Resolved
      <4>4. QED
        BY <1>2, <1>5, <4>1, <4>2, <4>3
    <3>2. QED
      BY <3>1
  <2>2. \A f \in [Nat -> V] : F[f] = Step(f) /\ F[f] \in [Nat -> V]
    BY <2>1
  <2>3. F \in [[Nat -> V] -> [Nat -> V]]
    BY <2>2
  <2>4. ASSUME NEW f \in [Nat -> V], NEW g \in [Nat -> V], NEW q \in Nat,
               q > n \/ \A r \in Nat : r > q => f[r] = g[r]
        PROVE  F[f][q] = F[g][q]
    <3>1. q > n => Ch(text, q) = "eof"
      BY <1>1
    <3>2. ~(q > n) => f[q + 1] = g[q + 1] /\ f[q + 2] = g[q + 2]
      BY <2>4
    <3>3. Step(f)[q] = Step(g)[q]
      BY <1>2, <3>1, <3>2
    <3>4. QED
      BY <2>2, <3>3
  <2>5. \A f, g \in [Nat -> V] : \A q \in Nat :
          (q > n \/ \A r \in Nat : r > q => f[r] = g[r]) => F[f][q] = F[g][q]
    BY <2>4
  <2>6. [text |-> <<>>, end |-> 0] \in V
    BY <1>5
  <2>7. \E f \in [Nat -> V] : f = F[f]
    <3> HIDE DEF F, V, n
    <3>1. FromLater(F, V, n)
      BY <2>3, <2>5 DEF FromLater
    <3>2. QED
      BY <1>1, <2>6, <3>1, LaterPlaces
  <2>8. QED
    BY <2>2, <2>7
<1>7. body = Step(body)
  BY <1>6
<1>8. StringBody(text, p, quote) = body[p]
  BY DEF StringBody
<1> HIDE DEF body, n
<1>9. \A q \in Nat :
        /\ Ch(text, q) \in {quote, "eof"} => body[q].end = q
        /\ Ch(text, q) = "\\" => IF Ch(text, q + 1) = "eof" THEN body[q].end = q + 1
                                 ELSE body[q].end = body[q + 2].end
        /\ Ch(text, q) \notin {quote, "eof", "\\"} => body[q].end = body[q + 1].end
  <2>1. \A v, t : [v EXCEPT !.text = t].end = v.end
    OBVIOUS
  <2>2. ASSUME NEW q \in Nat, Ch(text, q) \in {quote, "eof"} PROVE body[q].end = q
    <3>1. body[q] = [text |-> <<>>, end |-> q]
      BY <1>2, <1>7, <2>2
    <3>2. QED
      BY <3>1
  <2>3. ASSUME NEW q \in Nat, Ch(text, q) = "\\", Ch(text, q + 1) = "eof" PROVE body[q].end = q + 1
    <3>1. body[q] = [text |-> <<>>, end |-> q + 1]
      BY <1>2, <1>7, <2>3
    <3>2. QED
      BY <3>1
  <2>4. ASSUME NEW q \in Nat, Ch(text, q) = "\\", Ch(text, q + 1) # "eof" PROVE body[q].end = body[q + 2].end
    <3> HIDE DEF Resolved
    <3>1. body[q] = [body[q + 2] EXCEPT !.text = <<Resolved(Ch(text, q + 1))>> \o @]
      BY <1>2, <1>7, <2>4
    <3>2. QED
      BY <2>1, <3>1
  <2>5. ASSUME NEW q \in Nat, Ch(text, q) \notin {quote, "eof", "\\"} PROVE body[q].end = body[q + 1].end
    <3> HIDE DEF Resolved
    <3>1. body[q] = [body[q + 1] EXCEPT !.text = <<Ch(text, q)>> \o @]
      BY <1>2, <1>7, <2>5
    <3>2. QED
      BY <2>1, <3>1
  <2> HIDE DEF Step
  <2>6. QED
    BY <2>2, <2>3, <2>4, <2>5
<1> HIDE DEF Step, Resolved
<1> DEFINE Good(q) == /\ body[q].end \in Nat /\ body[q].end >= q
                      /\ Ch(text, body[q].end) \in {quote, "eof"}
                      /\ \A i \in q .. body[q].end - 1 : /\ Ch(text, i) # "eof"
                                                         /\ Ch(text, i) = quote => EscapedAt(text, q, i)
                      /\ Ch(text, body[q].end) = quote => ~EscapedAt(text, q, body[q].end)
           S == {q \in Nat : Good(q)}
<1>10. ASSUME NEW q \in Nat, Ch(text, q) \in {quote, "eof"} PROVE Good(q)
  <2>1. body[q].end = q
    BY <1>9, <1>10
  <2>2. ~EscapedAt(text, q, q)
    BY DEF EscapedAt
  <2>3. QED
    BY <1>10, <2>1, <2>2
<1>11. ASSUME NEW q \in Nat, q > n PROVE q \in S
  BY <1>1, <1>10, <1>11
<1>12. ASSUME NEW q \in Nat, \A r \in Nat : r > q => r \in S PROVE Good(q)
  <2>1. CASE Ch(text, q) \in {quote, "eof"}
    BY <1>10, <2>1
  <2>2. CASE Ch(text, q) = "\\" /\ Ch(text, q + 1) = "eof"
    <3>1. body[q].end = q + 1
      BY <1>9, <2>2
    <3>2. \A i \in q .. body[q].end - 1 : i = q
      BY <3>1
    <3>3. QED
      BY <1>2, <2>2, <3>1, <3>2
  <2>3. CASE Ch(text, q) = "\\" /\ Ch(text, q + 1) # "eof"
    <3> DEFINE e == body[q + 2].end
    <3>1. body[q].end = e
      BY <1>9, <2>3
    <3>2. q + 2 \in Nat /\ q + 2 > q
      OBVIOUS
    <3>3. Good(q + 2)
      BY <1>12, <3>2
    <3>4. EscapedAt(text, q, q + 1)
      <4>1. 1 \in 1 .. (q + 1) - q /\ (q + 1) - 1 = q /\ \A j \in (q + 1) - 1 .. (q + 1) - 1 : j = q
        OBVIOUS
      <4>2. QED
        BY <2>3, <4>1, Odd DEF EscapedAt
    <3>5. \A i \in Nat : i >= q + 2 => (EscapedAt(text, q, i) <=> EscapedAt(text, q + 2, i))
      BY <2>3, EscapedFromPair
    <3>6. e \in Nat /\ e >= q + 2 /\ Ch(text, e) \in {quote, "eof"} /\ (Ch(text, e) = quote => ~EscapedAt(text, q, e))
      BY <3>3, <3>5
    <3>7. ASSUME NEW i \in q .. e - 1
          PROVE  Ch(text, i) # "eof" /\ (Ch(text, i) = quote => EscapedAt(text, q, i))
      <4>1. i = q \/ i = q + 1 \/ (i \in q + 2 .. e - 1 /\ i \in Nat /\ i >= q + 2)
        BY <3>6
      <4>2. CASE i = q
        BY <1>2, <2>3, <4>2
      <4>3. CASE i = q + 1
        BY <2>3, <3>4, <4>3
      <4>4. CASE i \in q + 2 .. e - 1 /\ i \in Nat /\ i >= q + 2
        BY <3>3, <3>5, <4>4
      <4>5. QED
        BY <4>1, <4>2, <4>3, <4>4
    <3>8. QED
      BY <3>1, <3>6, <3>7
  <2>4. CASE Ch(text, q) \notin {quote, "eof", "\\"}
    <3> DEFINE e == body[q + 1].end
    <3>1. body[q].end = e
      BY <1>9, <2>4
    <3>2. q + 1 \in Nat /\ q + 1 > q
      OBVIOUS
    <3>3. Good(q + 1)
      BY <1>12, <3>2
    <3>4. \A i \in Nat : i >= q + 1 => (EscapedAt(text, q, i) <=> EscapedAt(text, q + 1, i))
      BY <2>4, EscapedFromNext
    <3>5. e \in Nat /\ e >= q + 1 /\ Ch(text, e) \in {quote, "eof"} /\ (Ch(text, e) = quote => ~EscapedAt(text, q, e))
      BY <3>3, <3>4
    <3>6. ASSUME NEW i \in q .. e - 1
          PROVE  Ch(text, i) # "eof" /\ (Ch(text, i) = quote => EscapedAt(text, q, i))
      <4>1. i = q \/ (i \in q + 1 .. e - 1 /\ i \in Nat /\ i >= q + 1)
        BY <3>5
      <4>2. QED
        BY <2>4, <3>3, <3>4, <4>1
    <3>7. QED
      BY <3>1, <3>5, <3>6
  <2>5. QED
    BY <2>1, <2>2, <2>3, <2>4
<1>13. p \in S
  <2>1. \A q \in Nat : (\A r \in Nat : r > q => r \in S) => q \in S
    BY <1>12
  <2> HIDE DEF S
  <2> QED BY <1>1, <1>11, <2>1, Backwards
<1>14. Good(p)
  BY <1>13
<1>15. QED
  BY <1>8, <1>14

-----------------------------------------------------------------------------
\* s is the part of the text from p up to e.
Spells(s, text, p, e) ==
  /\ s \in Seq({Ch(text, i) : i \in Nat})
  /\ DOMAIN s = 1 .. e - p /\ Len(s) = e - p
  /\ \A i \in 1 .. e - p : s[i] = Ch(text, p + i - 1)

\* SubSeq spells the part of the text that it cuts out.
LEMMA SubSeqSpells ==
  ASSUME NEW text, IsText(text), NEW p \in Nat \ {0}, NEW e \in p .. Len(text) + 1
  PROVE  Spells(SubSeq(text, p, e - 1), text, p, e)
<1> DEFINE C == {Ch(text, i) : i \in Nat}
           s == SubSeq(text, p, e - 1)
<1>1. p \in Int /\ e - 1 \in Int /\ e \in Int /\ Len(text) \in Nat /\ DOMAIN text = 1 .. Len(text)
  BY DEF IsText
<1>2. \A i \in p .. e - 1 : i \in DOMAIN text /\ text[i] \in C
  <2>1. \A i \in p .. e - 1 : i \in 1 .. Len(text) /\ i \in Nat
    BY <1>1
  <2>2. \A i \in p .. e - 1 : i \in DOMAIN text /\ text[i] = Ch(text, i)
    BY <1>1, <2>1 DEF Ch
  <2>3. QED
    BY <2>1, <2>2
<1>3. /\ s \in Seq(C) /\ Len(s) = IF p <= e - 1 THEN (e - 1) - p + 1 ELSE 0
      /\ \A i \in 1 .. (e - 1) - p + 1 : s[i] = text[p + i - 1]
  <2> HIDE DEF C
  <2> QED BY <1>1, <1>2, SubSeqProperties
<1> HIDE DEF s, C
<1>4. Len(s) = e - p /\ DOMAIN s = 1 .. e - p
  BY <1>1, <1>3
<1>5. ASSUME NEW i \in 1 .. e - p PROVE s[i] = Ch(text, p + i - 1)
  <2>1. i \in 1 .. (e - 1) - p + 1 /\ p + i - 1 \in p .. e - 1 /\ p + i - 1 \in Nat
    BY <1>1, <1>5
  <2>2. s[i] = text[p + i - 1] /\ p + i - 1 \in DOMAIN text
    BY <1>2, <1>3, <2>1
  <2>3. QED
    BY <2>2 DEF Ch
<1>6. Spells(s, text, p, e)
  BY <1>3, <1>4, <1>5 DEF Spells, C
<1>7. QED
  BY <1>6 DEF s

\* The same places are escaped in a literal and in the text it stands in.
LEMMA EscapedIs ==
  ASSUME NEW text, NEW p \in Nat \ {0}, NEW e \in Nat, NEW s, Spells(s, text, p, e),
         Ch(text, p) \in Quotes, NEW i \in 2 .. e - p
  PROVE  Escaped(s, i) <=> EscapedAt(text, p + 1, p + i - 1)
<1> DEFINE u == p + i - 1
<1>1. u \in Nat /\ u - (p + 1) = i - 2
  OBVIOUS
<1>2. ASSUME NEW n \in 1 .. i - 2
      PROVE  /\ (\A j \in i - n .. i - 1 : s[j] = "\\") <=> (\A j \in u - n .. u - 1 : Ch(text, j) = "\\")
             /\ s[i - n - 1] # "\\" <=> (u - n = p + 1 \/ Ch(text, u - n - 1) # "\\")
  <2>1. \A j \in i - n .. i - 1 : j \in 1 .. e - p /\ p + j - 1 \in u - n .. u - 1
    BY <1>2
  <2>2. \A j \in i - n .. i - 1 : s[j] = Ch(text, p + j - 1)
    BY <2>1 DEF Spells
  <2>3. ASSUME NEW j \in u - n .. u - 1
        PROVE  (j - p) + 1 \in i - n .. i - 1 /\ p + ((j - p) + 1) - 1 = j
    BY <1>2, <2>3
  <2>4. (\A j \in i - n .. i - 1 : s[j] = "\\") <=> (\A j \in u - n .. u - 1 : Ch(text, j) = "\\")
    <3>1. ASSUME \A j \in i - n .. i - 1 : s[j] = "\\", NEW j \in u - n .. u - 1 PROVE Ch(text, j) = "\\"
      BY <2>2, <2>3, <3>1
    <3>2. ASSUME \A j \in u - n .. u - 1 : Ch(text, j) = "\\", NEW j \in i - n .. i - 1 PROVE s[j] = "\\"
      BY <2>1, <2>2, <3>2
    <3>3. QED
      BY <3>1, <3>2
  <2>5. i - n - 1 \in 1 .. e - p /\ p + (i - n - 1) - 1 = u - n - 1
    BY <1>2
  <2>6. s[i - n - 1] = Ch(text, u - n - 1)
    BY <2>5 DEF Spells
  <2>7. u - n = p + 1 => Ch(text, u - n - 1) # "\\"
    <3>1. ASSUME u - n = p + 1 PROVE u - n - 1 = p
      BY <1>1, <1>2, <3>1
    <3>2. QED
      BY <3>1 DEF Quotes
  <2>8. QED
    BY <2>4, <2>6, <2>7
<1>3. \A n \in 0 .. i - 2 : n % 2 = 1 => n \in 1 .. i - 2
  BY Odd
<1>4. \A n \in 1 .. i - 2 : n \in 0 .. i - 2
  OBVIOUS
<1> HIDE DEF u
<1>5. EscapedAt(text, p + 1, u) <=>
        \E n \in 1 .. i - 2 : n % 2 = 1 /\ (\A j \in i - n .. i - 1 : s[j] = "\\") /\ s[i - n - 1] # "\\"
  BY <1>1, <1>2 DEF EscapedAt
<1>6. EscapedAt(text, p + 1, u) <=> Escaped(s, i)
  BY <1>3, <1>4, <1>5 DEF Escaped
<1>7. QED
  BY <1>6 DEF u

\* A literal is a part of the text from a quote to where StringBody ends.
LEMMA StringIs ==
  ASSUME NEW text, IsText(text), NEW p \in Nat \ {0}, NEW e \in p + 1 .. Len(text) + 1,
         NEW s, Spells(s, text, p, e)
  PROVE  LET z == StringBody(text, p + 1, Ch(text, p)).end
         IN  IsString(s) <=> Ch(text, p) \in Quotes /\ e = z + 1 /\ Ch(text, z) # "eof"
<1> DEFINE q == Ch(text, p)
           z == StringBody(text, p + 1, q).end
           U == {i \in 2 .. Len(s) : s[i] = s[1] /\ ~Escaped(s, i)}
<1>1. e \in Nat /\ e - p \in Nat \ {0} /\ e <= Len(text) + 1 /\ Len(text) \in Nat
  BY DEF IsText
<1>2. Len(s) = e - p /\ s[1] = q /\ \A i \in 2 .. e - p : s[i] = Ch(text, p + i - 1)
  <2>1. p + 1 - 1 = p
    OBVIOUS
  <2>2. QED
    BY <1>1, <2>1 DEF Spells
<1>3. CASE q \notin Quotes
  BY <1>2, <1>3 DEF IsString
<1>4. CASE q \in Quotes
  <2>1. /\ z \in Nat /\ z >= p + 1 /\ Ch(text, z) \in {q, "eof"}
        /\ \A i \in p + 1 .. z - 1 : Ch(text, i) # "eof" /\ (Ch(text, i) = q => EscapedAt(text, p + 1, i))
        /\ Ch(text, z) = q => ~EscapedAt(text, p + 1, z)
    <3>1. p + 1 \in Nat
      OBVIOUS
    <3> HIDE DEF q
    <3>2. QED
      BY <1>4, <3>1, StringBodyIs
  <2> HIDE DEF z
  <2>2. \A i \in 2 .. e - p : i \in U <=> Ch(text, p + i - 1) = q /\ ~EscapedAt(text, p + 1, p + i - 1)
    BY <1>1, <1>2, <1>4, EscapedIs
  <2>3. IsString(s) <=> e - p > 1 /\ U = {e - p}
    BY <1>2, <1>4 DEF IsString
  <2>4. q # "eof"
    BY <1>4 DEF Quotes
  <2>5. ASSUME IsString(s) PROVE e = z + 1 /\ Ch(text, z) # "eof"
    <3>1. e - p > 1 /\ U = {e - p} /\ e - p \in 2 .. e - p /\ p + (e - p) - 1 = e - 1
      BY <1>1, <2>3, <2>5
    <3>2. Ch(text, e - 1) = q /\ ~EscapedAt(text, p + 1, e - 1)
      BY <2>2, <3>1
    <3>3. e - 1 >= z
      <4>1. CASE e - 1 < z
        <5>1. e - 1 \in p + 1 .. z - 1
          BY <1>1, <2>1, <3>1, <4>1
        <5>2. QED
          BY <2>1, <3>2, <5>1
      <4>2. QED
        BY <1>1, <2>1, <4>1
    <3>4. Ch(text, z) # "eof"
      <4>1. z \in 1 .. Len(text)
        BY <1>1, <2>1, <3>3
      <4>2. QED
        BY <2>1, <4>1, ChOf
    <3>5. Ch(text, z) = q /\ ~EscapedAt(text, p + 1, z)
      BY <2>1, <3>4
    <3>6. (z - p) + 1 \in 2 .. e - p /\ p + ((z - p) + 1) - 1 = z
      BY <1>1, <2>1, <3>3
    <3>7. (z - p) + 1 \in U
      BY <2>2, <3>5, <3>6
    <3>8. (z - p) + 1 = e - p
      BY <3>1, <3>7
    <3>9. QED
      BY <1>1, <2>1, <3>4, <3>8
  <2>6. ASSUME e = z + 1, Ch(text, z) # "eof" PROVE IsString(s)
    <3>1. Ch(text, z) = q /\ ~EscapedAt(text, p + 1, z)
      BY <2>1, <2>6
    <3>2. e - p > 1 /\ e - p \in 2 .. e - p /\ p + (e - p) - 1 = z
      BY <1>1, <2>1, <2>6
    <3>3. e - p \in U
      BY <2>2, <3>1, <3>2
    <3>4. ASSUME NEW i \in U PROVE i = e - p
      <4>1. i \in 2 .. e - p
        BY <1>2
      <4>2. Ch(text, p + i - 1) = q /\ ~EscapedAt(text, p + 1, p + i - 1)
        BY <2>2, <4>1
      <4>3. CASE i # e - p
        <5>1. i \in Nat /\ i >= 2 /\ i < (z + 1) - p
          BY <1>1, <2>1, <2>6, <4>1, <4>3
        <5>2. p + i - 1 \in p + 1 .. z - 1
          BY <2>1, <5>1
        <5>3. QED
          BY <2>1, <4>2, <5>2
      <4>4. QED
        BY <4>3
    <3>5. U = {e - p}
      BY <3>3, <3>4
    <3>6. QED
      BY <2>3, <3>2, <3>5
  <2>7. IsString(s) <=> e = z + 1 /\ Ch(text, z) # "eof"
    BY <2>5, <2>6
  <2>8. QED
    BY <1>4, <2>7 DEF z
<1>5. QED
  BY <1>3, <1>4

-----------------------------------------------------------------------------
\* Places of the text and of what spells a part of it.
LEMMA FirstOf ==
  ASSUME NEW text, NEW p \in Nat, NEW e \in Nat, e > p, NEW s, Spells(s, text, p, e)
  PROVE  /\ 1 \in DOMAIN s /\ s[1] = Ch(text, p) /\ Len(s) = e - p /\ Len(s) \in Nat \ {0}
         /\ \A i \in p .. e - 1 : (i - p) + 1 \in DOMAIN s /\ s[(i - p) + 1] = Ch(text, i)
<1>1. e - p \in Nat \ {0} /\ 1 \in 1 .. e - p /\ p + 1 - 1 = p
  OBVIOUS
<1>2. \A i \in p .. e - 1 : (i - p) + 1 \in 1 .. e - p /\ p + ((i - p) + 1) - 1 = i
  OBVIOUS
<1>3. QED
  BY <1>1, <1>2 DEF Spells

\* Without its first character it spells the part from the next place on.
LEMMA TailSpells ==
  ASSUME NEW text, NEW p \in Nat, NEW e \in Nat, e > p, NEW s, Spells(s, text, p, e)
  PROVE  Spells(Tail(s), text, p + 1, e)
<1> DEFINE C == {Ch(text, i) : i \in Nat}
           t == Tail(s)
<1>1. s \in Seq(C) /\ Len(s) = e - p /\ \A i \in 1 .. e - p : s[i] = Ch(text, p + i - 1)
  BY DEF Spells
<1>2. s # <<>>
  BY <1>1
<1>3. t \in Seq(C) /\ Len(t) = Len(s) - 1 /\ \A i \in 1 .. Len(t) : t[i] = s[i + 1]
  <2> HIDE DEF C
  <2> QED BY <1>1, <1>2, HeadTailProperties
<1> HIDE DEF t, C
<1>4. Len(t) = e - (p + 1) /\ DOMAIN t = 1 .. e - (p + 1)
  BY <1>1, <1>3
<1>5. ASSUME NEW i \in 1 .. e - (p + 1) PROVE t[i] = Ch(text, (p + 1) + i - 1)
  <2>1. i \in 1 .. Len(t) /\ i + 1 \in 1 .. e - p /\ p + (i + 1) - 1 = (p + 1) + i - 1
    BY <1>4
  <2>2. QED
    BY <1>1, <1>3, <2>1
<1>6. Spells(t, text, p + 1, e)
  BY <1>3, <1>4, <1>5 DEF Spells, C
<1>7. QED
  BY <1>6 DEF t

\* The operators are one or two characters long.
LEMMA OperatorsAre ==
  /\ \A a, b : <<a, b>> \in Operators <=>
       (a = "+" /\ b \in {"=", "+"}) \/ (a \in {"/", "=", "!"} /\ b = "=") \/ (a = "." /\ b = ".")
  /\ \A a : <<a>> \in Operators <=> a \in {"+", "/", "=", ".", "("}
  /\ \A s \in Operators : Len(s) \in 1 .. 2 /\ s[1] \in {"+", "/", "=", "!", ".", "("}
<1> DEFINE pairs == {<<"+", "=">>, <<"+", "+">>, <<"/", "=">>, <<"=", "=">>, <<"!", "=">>, <<".", ".">>}
           single == {<<"+">>, <<"/">>, <<"=">>, <<".">>, <<"(">>}
<1>1. \A s : s \in Operators <=> s \in pairs \/ s \in single
  BY DEF Operators
<1>2. \A s \in single : Len(s) = 1 /\ s[1] \in {"+", "/", "=", ".", "("}
  OBVIOUS
<1>3. \A s \in pairs : Len(s) = 2 /\ s[1] \in {"+", "/", "=", "!", "."}
  OBVIOUS
<1>4. \A a, b : <<a, b>> \in pairs <=>
        (a = "+" /\ b \in {"=", "+"}) \/ (a \in {"/", "=", "!"} /\ b = "=") \/ (a = "." /\ b = ".")
  OBVIOUS
<1>5. \A a : <<a>> \in single <=> a \in {"+", "/", "=", ".", "("}
  OBVIOUS
<1>6. \A a, b : Len(<<a, b>>) = 2 /\ Len(<<a>>) = 1
  OBVIOUS
<1> HIDE DEF pairs, single
<1>7. QED
  BY <1>1, <1>2, <1>3, <1>4, <1>5, <1>6

\* Numbers begin with a digit.
LEMMA NumberFirst ==
  ASSUME NEW s, 1 \in DOMAIN s, IsNumber(s)
  PROVE  s[1] \in Digits
<1> DEFINE dots == {i \in DOMAIN s : s[i] = "."}
<1>1. 1 \notin dots
  <2>1. dots = {} \/ \E i \in 2 .. Len(s) - 1 : dots = {i}
    BY DEF IsNumber
  <2>2. \A i \in 2 .. Len(s) - 1 : i # 1
    <3>1. ASSUME NEW i \in 2 .. Len(s) - 1, i = 1 PROVE FALSE
      BY <3>1
    <3>2. QED
      BY <3>1
  <2>3. QED
    BY <2>1, <2>2
<1>2. \A i \in DOMAIN s \ dots : s[i] \in Digits
  BY DEF IsNumber
<1>3. QED
  BY <1>1, <1>2

\* The kind of a token, by its first character.
LEMMA KindOfIs ==
  ASSUME NEW text, NEW p \in Nat, NEW e \in Nat, e > p, NEW s, Spells(s, text, p, e)
  PROVE  /\ Ch(text, p) \in Letters =>
              KindOf(s) = IF \A i \in p .. e - 1 : Ch(text, i) \in Letters \cup Digits
                            THEN (IF s \in Keywords THEN "keyword" ELSE "ident")
                          ELSE IF Ch(text, p) = "f" /\ IsString(Tail(s)) THEN "fstring" ELSE "none"
         /\ Ch(text, p) \in Quotes => KindOf(s) = IF IsString(s) THEN "string" ELSE "none"
         /\ Ch(text, p) \in Digits =>
              KindOf(s) = IF IsNumber(s) THEN (IF \E i \in DOMAIN s : s[i] = "." THEN "float" ELSE "int")
                          ELSE "none"
         /\ Ch(text, p) \notin Letters \cup Quotes \cup Digits =>
              KindOf(s) = IF s \in Operators THEN "operator" ELSE "none"
<1> DEFINE c == Ch(text, p)
           Word == \A i \in DOMAIN s : s[i] \in Letters \cup Digits
<1>1. /\ 1 \in DOMAIN s /\ s[1] = c /\ Len(s) = e - p /\ Len(s) \in Nat \ {0}
      /\ \A i \in p .. e - 1 : (i - p) + 1 \in DOMAIN s /\ s[(i - p) + 1] = Ch(text, i)
      /\ DOMAIN s = 1 .. e - p /\ \A i \in 1 .. e - p : s[i] = Ch(text, p + i - 1)
  BY FirstOf DEF Spells
<1>2. Word <=> \A i \in p .. e - 1 : Ch(text, i) \in Letters \cup Digits
  <2>1. ASSUME Word, NEW i \in p .. e - 1 PROVE Ch(text, i) \in Letters \cup Digits
    BY <1>1, <2>1
  <2>2. ASSUME \A i \in p .. e - 1 : Ch(text, i) \in Letters \cup Digits, NEW i \in DOMAIN s
        PROVE  s[i] \in Letters \cup Digits
    <3>1. i \in 1 .. e - p /\ p + i - 1 \in p .. e - 1
      BY <1>1, <2>2
    <3>2. QED
      BY <1>1, <2>2, <3>1
  <2>3. QED
    BY <2>1, <2>2
<1>3. IsString(s) => c \in Quotes
  BY <1>1 DEF IsString
<1>4. IsNumber(s) => c \in Digits
  BY <1>1, NumberFirst
<1>5. s \in Operators => c \in {"+", "/", "=", "!", ".", "("}
  BY <1>1, OperatorsAre
<1>6. IsString(Tail(s)) => ~Word
  <2>1. ASSUME IsString(Tail(s)) PROVE ~Word
    <3>1. Spells(Tail(s), text, p + 1, e)
      BY TailSpells
    <3>2. Len(Tail(s)) > 1 /\ Tail(s)[1] \in Quotes /\ Len(Tail(s)) = e - (p + 1)
      BY <2>1, <3>1 DEF IsString, Spells
    <3>3. e > p + 1 /\ p + 1 \in Nat /\ p + 1 \in p .. e - 1
      BY <3>2
    <3>4. Tail(s)[1] = Ch(text, p + 1)
      <4>1. 1 \in 1 .. e - (p + 1) /\ (p + 1) + 1 - 1 = p + 1
        BY <3>3
      <4>2. QED
        BY <3>1, <4>1 DEF Spells
    <3>5. (p + 1 - p) + 1 \in DOMAIN s /\ s[(p + 1 - p) + 1] = Ch(text, p + 1)
      BY <1>1, <3>3
    <3>6. s[(p + 1 - p) + 1] \notin Letters \cup Digits
      BY <3>2, <3>4, <3>5 DEF Quotes, Letters, Digits
    <3>7. QED
      BY <3>5, <3>6
  <2>2. QED
    BY <2>1
<1>7. KindOf(s) =
        CASE c \in Letters /\ Word -> IF s \in Keywords THEN "keyword" ELSE "ident"
          [] c = "f" /\ IsString(Tail(s)) -> "fstring"
          [] IsString(s)    -> "string"
          [] IsNumber(s)    -> IF \E i \in DOMAIN s : s[i] = "." THEN "float" ELSE "int"
          [] s \in Operators -> "operator"
          [] OTHER -> "none"
  BY <1>1 DEF KindOf
<1>8. /\ c \in Letters => c \notin Quotes /\ c \notin Digits /\ c \notin {"+", "/", "=", "!", ".", "("}
      /\ c \in Quotes => c # "f" /\ c \notin Digits /\ c \notin {"+", "/", "=", "!", ".", "("}
      /\ c \in Digits => c # "f" /\ c \notin {"+", "/", "=", "!", ".", "("}
      /\ "f" \in Letters
  BY DEF Letters, Quotes, Digits
<1> HIDE DEF c, Word
<1>9. /\ c \in Letters =>
           KindOf(s) = IF Word THEN (IF s \in Keywords THEN "keyword" ELSE "ident")
                       ELSE IF c = "f" /\ IsString(Tail(s)) THEN "fstring" ELSE "none"
      /\ c \in Quotes => KindOf(s) = IF IsString(s) THEN "string" ELSE "none"
      /\ c \in Digits =>
           KindOf(s) = IF IsNumber(s) THEN (IF \E i \in DOMAIN s : s[i] = "." THEN "float" ELSE "int")
                       ELSE "none"
      /\ c \notin Letters \cup Quotes \cup Digits =>
           KindOf(s) = IF s \in Operators THEN "operator" ELSE "none"
  BY <1>3, <1>4, <1>5, <1>6, <1>7, <1>8
<1>10. QED
  BY <1>2, <1>9 DEF c

-----------------------------------------------------------------------------
\* Where what begins at p ends: a word, the digits of a number, the body of a literal.
WordEnd(text, p) == RunEnd(text, p, Letters \cup Digits)
WholeEnd(text, p) == RunEnd(text, p, Digits)
Closing(text, p) == StringBody(text, p + 1, Ch(text, p)).end
\* The conditions of next_token that look one character ahead.
BeginsString(text, p) == Ch(text, p) = "f" /\ Ch(text, p + 1) \in Quotes
IsFloat(text, p) == Ch(text, WholeEnd(text, p)) = "." /\ Ch(text, WholeEnd(text, p) + 1) \in Digits
\* A token of this kind that ends here was found.
Found(t, kind, end) == t.kind = kind /\ t.end = end

\* What the branches of next_token find.
LEMMA ScanIs ==
  ASSUME NEW text, NEW p \in Nat
  PROVE  LET t == Scan(text, p)
             c == Ch(text, p)
         IN  /\ c = "eof" => Found(t, "eof", p)
             /\ BeginsString(text, p) =>
                  IF Ch(text, Closing(text, p + 1)) = "eof" THEN Found(t, "error", p)
                  ELSE Found(t, "fstring", Closing(text, p + 1) + 1)
             /\ c \in Letters /\ ~BeginsString(text, p) =>
                  Found(t, IF SubSeq(text, p, WordEnd(text, p) - 1) \in Keywords THEN "keyword" ELSE "ident",
                        WordEnd(text, p))
             /\ c \in Digits =>
                  IF IsFloat(text, p) THEN Found(t, "float", WholeEnd(text, WholeEnd(text, p) + 1))
                  ELSE Found(t, "int", WholeEnd(text, p))
             /\ c \in Quotes =>
                  IF Ch(text, Closing(text, p)) = "eof" THEN Found(t, "error", p)
                  ELSE Found(t, "string", Closing(text, p) + 1)
             /\ c \notin Letters \cup Digits \cup Quotes \cup {"eof"} =>
                  IF <<c, Ch(text, p + 1)>> \in Operators THEN Found(t, "operator", p + 2)
                  ELSE IF <<c>> \in Operators THEN Found(t, "operator", p + 1)
                  ELSE Found(t, "error", p)
<1> DEFINE c == Ch(text, p)
           Token(kind, end) == [kind |-> kind, text |-> SubSeq(text, p, end - 1), end |-> end]
           Body(q) == StringBody(text, q + 1, Ch(text, q))
           String(kind, q) == IF Ch(text, Body(q).end) = "eof" THEN Token("error", p)
                              ELSE [kind |-> kind, text |-> Body(q).text, end |-> Body(q).end + 1]
           pair == <<c, Ch(text, p + 1)>>
           word == WordEnd(text, p)
           whole == WholeEnd(text, p)
<1>1. Scan(text, p) =
        CASE c = "eof" -> Token("eof", p)
          [] c = "f" /\ Ch(text, p + 1) \in Quotes -> String("fstring", p + 1)
          [] c \in Letters /\ ~(c = "f" /\ Ch(text, p + 1) \in Quotes) ->
               Token(IF SubSeq(text, p, word - 1) \in Keywords THEN "keyword" ELSE "ident", word)
          [] c \in Digits ->
               IF Ch(text, whole) = "." /\ Ch(text, whole + 1) \in Digits
                 THEN Token("float", RunEnd(text, whole + 1, Digits)) ELSE Token("int", whole)
          [] c \in Quotes -> String("string", p)
          [] pair \in Operators -> Token("operator", p + 2)
          [] pair \notin Operators /\ <<c>> \in Operators -> Token("operator", p + 1)
          [] OTHER -> Token("error", p)
  BY DEF Scan, WordEnd, WholeEnd
<1>2. \A kind, end : Found(Token(kind, end), kind, end)
  BY DEF Found
<1>3. \A kind, q : IF Ch(text, Closing(text, q)) = "eof" THEN Found(String(kind, q), "error", p)
                   ELSE Found(String(kind, q), kind, Closing(text, q) + 1)
  BY DEF Found, Closing
<1>4. /\ pair \in Operators => c \in {"+", "/", "=", "!", "."}
      /\ <<c>> \in Operators => c \in {"+", "/", "=", ".", "("}
  BY OperatorsAre
<1>5. /\ "f" \in Letters /\ "eof" \notin Letters \cup Digits \cup Quotes
      /\ \A x \in {"+", "/", "=", "!", ".", "("} : x \notin Letters \cup Digits \cup Quotes \cup {"eof"}
      /\ \A x \in Letters : x \notin Digits \cup Quotes
      /\ \A x \in Digits : x \notin Quotes
  BY DEF Letters, Digits, Quotes
<1> HIDE DEF Token, Body, String, pair, word, whole, c
<1>6. c = "eof" => Scan(text, p) = Token("eof", p)
  BY <1>1, <1>4, <1>5
<1>7. c = "f" /\ Ch(text, p + 1) \in Quotes => Scan(text, p) = String("fstring", p + 1)
  BY <1>1, <1>4, <1>5
<1>8. c \in Letters /\ ~(c = "f" /\ Ch(text, p + 1) \in Quotes) =>
        Scan(text, p) = Token(IF SubSeq(text, p, word - 1) \in Keywords THEN "keyword" ELSE "ident", word)
  BY <1>1, <1>4, <1>5
<1>9. c \in Digits => Scan(text, p) = IF Ch(text, whole) = "." /\ Ch(text, whole + 1) \in Digits
                        THEN Token("float", RunEnd(text, whole + 1, Digits)) ELSE Token("int", whole)
  BY <1>1, <1>4, <1>5
<1>10. c \in Quotes => Scan(text, p) = String("string", p)
  BY <1>1, <1>4, <1>5
<1>11. c \notin Letters \cup Digits \cup Quotes \cup {"eof"} =>
         Scan(text, p) = IF pair \in Operators THEN Token("operator", p + 2)
                         ELSE IF <<c>> \in Operators THEN Token("operator", p + 1) ELSE Token("error", p)
  BY <1>1, <1>4, <1>5
<1>12. c \in Letters /\ ~BeginsString(text, p) =>
         Found(Scan(text, p), IF SubSeq(text, p, WordEnd(text, p) - 1) \in Keywords THEN "keyword" ELSE "ident",
               WordEnd(text, p))
  BY <1>2, <1>8 DEF BeginsString, c, word
<1>13. BeginsString(text, p) =>
         IF Ch(text, Closing(text, p + 1)) = "eof" THEN Found(Scan(text, p), "error", p)
         ELSE Found(Scan(text, p), "fstring", Closing(text, p + 1) + 1)
  BY <1>3, <1>7 DEF BeginsString, c
<1>14. c \in Digits =>
         IF IsFloat(text, p) THEN Found(Scan(text, p), "float", WholeEnd(text, WholeEnd(text, p) + 1))
         ELSE Found(Scan(text, p), "int", WholeEnd(text, p))
  BY <1>2, <1>9 DEF IsFloat, WholeEnd, whole
<1>15. c \in Quotes =>
         IF Ch(text, Closing(text, p)) = "eof" THEN Found(Scan(text, p), "error", p)
         ELSE Found(Scan(text, p), "string", Closing(text, p) + 1)
  BY <1>3, <1>10
<1>16. c \notin Letters \cup Digits \cup Quotes \cup {"eof"} =>
         IF pair \in Operators THEN Found(Scan(text, p), "operator", p + 2)
         ELSE IF <<c>> \in Operators THEN Found(Scan(text, p), "operator", p + 1)
         ELSE Found(Scan(text, p), "error", p)
  BY <1>2, <1>11
<1>17. c = "eof" => Found(Scan(text, p), "eof", p)
  BY <1>2, <1>6
<1>18. QED
  BY <1>12, <1>13, <1>14, <1>15, <1>16, <1>17 DEF c, pair

-----------------------------------------------------------------------------
\* A place reached over characters of the text is in it, or at its end.
LEMMA InText ==
  ASSUME NEW text, IsText(text), NEW p \in 1 .. Len(text) + 1, NEW e \in Nat, e >= p,
         \A i \in p .. e - 1 : Ch(text, i) # "eof"
  PROVE  e \in p .. Len(text) + 1 /\ Len(text) \in Nat /\ p \in Nat \ {0}
<1>1. Len(text) \in Nat /\ p \in Nat \ {0}
  BY DEF IsText
<1>2. CASE e > Len(text) + 1
  <2>1. Len(text) + 1 \in p .. e - 1 /\ Len(text) + 1 \in Nat /\ Len(text) + 1 > Len(text)
    BY <1>1, <1>2
  <2>2. QED
    BY <2>1, ChOf
<1>3. QED
  BY <1>1, <1>2

\* The closing quote of a literal, or the end of the text.
LEMMA ClosingIs ==
  ASSUME NEW text, IsText(text), NEW p \in 1 .. Len(text), Ch(text, p) \in Quotes
  PROVE  /\ Closing(text, p) \in p + 1 .. Len(text) + 1
         /\ Ch(text, Closing(text, p)) # "eof" => Closing(text, p) + 1 \in p + 2 .. Len(text) + 1
<1> DEFINE z == Closing(text, p)
<1>1. Len(text) \in Nat /\ p \in Nat /\ p + 1 \in Nat /\ p + 1 \in 1 .. Len(text) + 1
  BY DEF IsText
<1>2. z \in Nat /\ z >= p + 1 /\ \A i \in p + 1 .. z - 1 : Ch(text, i) # "eof"
  BY <1>1, StringBodyIs DEF Closing
<1> HIDE DEF z
<1>3. z \in p + 1 .. Len(text) + 1
  BY <1>1, <1>2, InText
<1>4. Ch(text, z) # "eof" => z \in 1 .. Len(text)
  BY <1>1, <1>2, ChOf
<1>5. z \in p + 1 .. Len(text) + 1 /\ (Ch(text, z) # "eof" => z + 1 \in p + 2 .. Len(text) + 1)
  BY <1>1, <1>3, <1>4
<1>6. QED
  BY <1>5 DEF z

\* A run of characters from its first.
LEMMA RunIs ==
  ASSUME NEW text, IsText(text), NEW chars, "eof" \notin chars, NEW p \in 1 .. Len(text) + 1
  PROVE  /\ RunEnd(text, p, chars) \in p .. Len(text) + 1
         /\ Ch(text, p) \in chars => RunEnd(text, p, chars) \in p + 1 .. Len(text) + 1
         /\ Ch(text, RunEnd(text, p, chars)) \notin chars
         /\ \A i \in p .. RunEnd(text, p, chars) - 1 : Ch(text, i) \in chars
<1> DEFINE e == RunEnd(text, p, chars)
<1>1. p \in Nat /\ Len(text) \in Nat
  BY DEF IsText
<1>2. e \in Nat /\ e >= p /\ Ch(text, e) \notin chars /\ \A i \in p .. e - 1 : Ch(text, i) \in chars
  BY <1>1, RunEndIs
<1> HIDE DEF e
<1>3. e \in p .. Len(text) + 1
  BY <1>1, <1>2, InText
<1>4. Ch(text, p) \in chars => e # p
  BY <1>2
<1>5. Ch(text, p) \in chars => e \in p + 1 .. Len(text) + 1
  BY <1>1, <1>3, <1>4
<1>6. QED
  BY <1>2, <1>3, <1>5 DEF e

\* The token that a scan finds lies in the text.
LEMMA ScanInText ==
  ASSUME NEW text, IsText(text), NEW p \in 1 .. Len(text) + 1
  PROVE  Scan(text, p).end \in p .. Len(text) + 1
<1> DEFINE c == Ch(text, p)
           t == Scan(text, p)
<1>1. Len(text) \in Nat /\ p \in Nat \ {0} /\ p \in Nat
  BY DEF IsText
<1>2. c # "eof" => p \in 1 .. Len(text) /\ p + 1 \in 1 .. Len(text) + 1 /\ p + 1 \in Nat
  BY <1>1, ChOf
<1>3. "eof" \notin Letters \cup Digits /\ "eof" \notin Digits /\ "eof" \notin Quotes /\ Digits \subseteq Letters \cup Digits
      /\ "f" \in Letters
  BY DEF Letters, Digits, Quotes
<1>4. \A kind, e : Found(t, kind, e) => t.end = e
  BY DEF Found
<1> HIDE DEF t
<1>5. CASE c = "eof"
  <2>1. t.end = p
    BY <1>1, <1>4, <1>5, ScanIs DEF t
  <2>2. QED
    BY <1>1, <2>1 DEF t
<1>6. CASE BeginsString(text, p)
  <2>1. p + 1 \in 1 .. Len(text) /\ Ch(text, p + 1) \in Quotes
    BY <1>1, <1>2, <1>3, <1>6, ChOf DEF BeginsString
  <2>2. Ch(text, Closing(text, p + 1)) # "eof" => Closing(text, p + 1) + 1 \in (p + 1) + 2 .. Len(text) + 1
    BY <2>1, ClosingIs
  <2>3. t.end = p \/ (t.end = Closing(text, p + 1) + 1 /\ Ch(text, Closing(text, p + 1)) # "eof")
    BY <1>1, <1>4, <1>6, ScanIs DEF t
  <2>4. QED
    BY <1>1, <2>2, <2>3 DEF t
<1>7. CASE c \in Letters /\ ~BeginsString(text, p)
  <2>1. t.end = WordEnd(text, p)
    BY <1>1, <1>4, <1>7, ScanIs DEF t
  <2>2. WordEnd(text, p) \in p .. Len(text) + 1
    BY <1>3, RunIs DEF WordEnd
  <2>3. QED
    BY <2>1, <2>2 DEF t
<1>8. CASE c \in Digits
  <2> DEFINE w == WholeEnd(text, p)
  <2>1. w \in p .. Len(text) + 1
    BY <1>1, <1>3, RunIs DEF WholeEnd
  <2>2. t.end = w \/ (t.end = WholeEnd(text, w + 1) /\ Ch(text, w) = ".")
    BY <1>1, <1>4, <1>8, ScanIs DEF t, IsFloat
  <2>3. CASE t.end = w
    BY <2>1, <2>3 DEF t
  <2>4. CASE t.end = WholeEnd(text, w + 1) /\ Ch(text, w) = "."
    <3> HIDE DEF w
    <3>1. w \in Nat /\ w >= p /\ w <= Len(text) + 1
      BY <1>1, <2>1
    <3>2. w \in 1 .. Len(text)
      BY <1>1, <2>4, <3>1, ChOf
    <3>3. w + 1 \in 1 .. Len(text) + 1
      BY <1>1, <3>2
    <3>4. WholeEnd(text, w + 1) \in w + 1 .. Len(text) + 1
      BY <1>3, <3>3, RunIs DEF WholeEnd
    <3>5. QED
      BY <1>1, <2>4, <3>1, <3>4 DEF t
  <2>5. QED
    BY <2>2, <2>3, <2>4
<1>9. CASE c \in Quotes
  <2>1. p \in 1 .. Len(text) /\ Ch(text, p) \in Quotes
    BY <1>2, <1>3, <1>9
  <2>2. Ch(text, Closing(text, p)) # "eof" => Closing(text, p) + 1 \in p + 2 .. Len(text) + 1
    BY <2>1, ClosingIs
  <2>3. t.end = p \/ (t.end = Closing(text, p) + 1 /\ Ch(text, Closing(text, p)) # "eof")
    BY <1>1, <1>4, <1>9, ScanIs DEF t
  <2>4. QED
    BY <1>1, <2>2, <2>3 DEF t
<1>10. CASE c \notin Letters \cup Digits \cup Quotes \cup {"eof"}
  <2>1. \/ t.end = p \/ t.end = p + 1
        \/ t.end = p + 2 /\ <<c, Ch(text, p + 1)>> \in Operators
    BY <1>1, <1>4, <1>10, ScanIs DEF t
  <2>2. <<c, Ch(text, p + 1)>> \in Operators => Ch(text, p + 1) # "eof"
    BY OperatorsAre
  <2>3. <<c, Ch(text, p + 1)>> \in Operators => p + 1 \in 1 .. Len(text)
    BY <1>2, <1>10, <2>2, ChOf
  <2>4. p \in 1 .. Len(text)
    BY <1>2, <1>10
  <2> HIDE DEF c
  <2>5. QED
    BY <1>1, <2>1, <2>3, <2>4 DEF t
<1>11. QED
  BY <1>5, <1>6, <1>7, <1>8, <1>9, <1>10 DEF BeginsString

-----------------------------------------------------------------------------
\* The characters of the text from p up to e.
Cut(p, e) == SubSeq(src, p, e - 1)
\* Where a token that begins at p may end.
Ends(p) == p + 1 .. Len(src) + 1
\* No token that begins at p ends behind the place end.
NotBehind(p, end) == \A e \in Ends(p) : e > end => KindOf(Cut(p, e)) = "none"

\* The longest token ends where a token ends and none ends behind.
LEMMA Longest ==
  ASSUME IsText(src), NEW p \in Nat \ {0}, NEW end \in Nat, NotBehind(p, end),
         end = p \/ (end \in Ends(p) /\ KindOf(Cut(p, end)) # "none")
  PROVE  LongestEnd(p) = end
<1> DEFINE ends == {e \in p + 1 .. Len(src) + 1 : KindOf(SubSeq(src, p, e - 1)) # "none"}
           last == CHOOSE e \in ends : \A d \in ends : d <= e
<1>1. LongestEnd(p) = IF ends = {} THEN p ELSE last
  BY DEF LongestEnd
<1>2. \A e \in ends : e \in Nat /\ e >= p + 1 /\ e <= end
  BY DEF NotBehind, Ends, Cut, IsText
<1>3. CASE end = p
  <2>1. ends = {}
    BY <1>2, <1>3
  <2>2. QED
    BY <1>1, <1>3, <2>1
<1>4. CASE end \in Ends(p) /\ KindOf(Cut(p, end)) # "none"
  <2>1. end \in ends
    BY <1>4 DEF Ends, Cut
  <2> HIDE DEF ends
  <2>2. last \in ends /\ \A d \in ends : d <= last
    BY <1>2, <2>1
  <2>3. last = end
    <3>1. last \in Nat /\ last <= end /\ end <= last
      BY <1>2, <2>1, <2>2
    <3>2. QED
      BY <3>1
  <2>4. QED
    BY <1>1, <2>1, <2>3
<1>5. QED
  BY <1>3, <1>4

\* A cut of the text spells what stands there.
LEMMA CutSpells ==
  ASSUME IsText(src), NEW p \in Nat \ {0}, NEW e \in Ends(p)
  PROVE  Spells(Cut(p, e), src, p, e) /\ e \in Nat /\ e > p /\ e \in p .. Len(src) + 1
<1>1. e \in p .. Len(src) + 1 /\ e \in Nat /\ e > p
  BY DEF Ends, IsText
<1>2. QED
  BY <1>1, SubSeqSpells DEF Cut

\* A word goes on as long as there are letters and digits.
LEMMA WordLongest ==
  ASSUME IsText(src), NEW p \in 1 .. Len(src), Ch(src, p) \in Letters, ~BeginsString(src, p)
  PROVE  /\ LongestEnd(p) = WordEnd(src, p)
         /\ KindOf(Cut(p, WordEnd(src, p))) =
              IF Cut(p, WordEnd(src, p)) \in Keywords THEN "keyword" ELSE "ident"
<1> DEFINE w == WordEnd(src, p)
           W == Letters \cup Digits
<1>1. p \in Nat \ {0} /\ Len(src) \in Nat /\ p \in 1 .. Len(src) + 1 /\ p \in Nat
  BY DEF IsText
<1>2. "eof" \notin W /\ Ch(src, p) \in W
  BY DEF Letters, Digits
<1>3. w \in Ends(p) /\ Ch(src, w) \notin W /\ \A i \in p .. w - 1 : Ch(src, i) \in W
  <2> HIDE DEF W
  <2> QED BY <1>1, <1>2, RunIs DEF WordEnd, W, Ends
<1> HIDE DEF w
<1>4. KindOf(Cut(p, w)) = IF Cut(p, w) \in Keywords THEN "keyword" ELSE "ident"
  <2>1. Spells(Cut(p, w), src, p, w) /\ w \in Nat /\ w > p
    BY <1>1, <1>3, CutSpells
  <2>2. QED
    BY <1>1, <1>3, <2>1, KindOfIs
<1>5. ASSUME NEW e \in Ends(p), e > w PROVE KindOf(Cut(p, e)) = "none"
  <2> DEFINE s == Cut(p, e)
  <2>1. Spells(s, src, p, e) /\ e \in Nat /\ e > p /\ w \in Nat
    BY <1>1, <1>3, <1>5, CutSpells DEF Ends
  <2>2. w \in p .. e - 1
    BY <1>1, <1>3, <1>5, <2>1 DEF Ends
  <2>3. ~(\A i \in p .. e - 1 : Ch(src, i) \in W)
    BY <1>3, <2>2
  <2> HIDE DEF s
  <2>4. ~(Ch(src, p) = "f" /\ IsString(Tail(s)))
    <3> SUFFICES ASSUME Ch(src, p) = "f", IsString(Tail(s)) PROVE FALSE
      OBVIOUS
    <3>1. Spells(Tail(s), src, p + 1, e)
      BY <1>1, <2>1, TailSpells
    <3>2. Len(Tail(s)) > 1 /\ Tail(s)[1] \in Quotes
      BY DEF IsString
    <3>3. Tail(s)[1] = Ch(src, p + 1)
      <4>1. 1 \in 1 .. e - (p + 1) /\ (p + 1) + 1 - 1 = p + 1
        BY <1>1, <2>1, <3>1, <3>2 DEF Spells
      <4>2. QED
        BY <3>1, <4>1 DEF Spells
    <3>4. QED
      BY <3>2, <3>3 DEF BeginsString
  <2>5. KindOf(s) = "none"
    BY <1>1, <2>1, <2>3, <2>4, KindOfIs
  <2>6. QED
    BY <2>5 DEF s
<1>6. KindOf(Cut(p, w)) # "none"
  BY <1>4
<1>7. NotBehind(p, w)
  BY <1>5 DEF NotBehind
<1>8. w \in Nat
  BY <1>1, <1>3 DEF Ends
<1>9. LongestEnd(p) = w
  BY <1>1, <1>3, <1>6, <1>7, <1>8, Longest
<1>10. QED
  BY <1>4, <1>9 DEF w

\* A literal ends at its closing quote; where there is none, no token begins.
LEMMA StringLongest ==
  ASSUME IsText(src), NEW p \in 1 .. Len(src), Ch(src, p) \in Quotes
  PROVE  LET z == Closing(src, p)
         IN  IF Ch(src, z) = "eof" THEN LongestEnd(p) = p
             ELSE LongestEnd(p) = z + 1 /\ KindOf(Cut(p, z + 1)) = "string"
<1> DEFINE z == Closing(src, p)
<1>1. p \in Nat \ {0} /\ Len(src) \in Nat /\ p \in 1 .. Len(src) + 1 /\ p \in Nat
  BY DEF IsText
<1>2. z \in Nat /\ z > p /\ (Ch(src, z) # "eof" => z + 1 \in Ends(p))
  <2>1. z \in p + 1 .. Len(src) + 1 /\ (Ch(src, z) # "eof" => z + 1 \in p + 2 .. Len(src) + 1)
    BY ClosingIs
  <2>2. QED
    BY <1>1, <2>1 DEF Ends
<1>3. ASSUME NEW e \in Ends(p)
      PROVE  KindOf(Cut(p, e)) = IF e = z + 1 /\ Ch(src, z) # "eof" THEN "string" ELSE "none"
  <2>1. Spells(Cut(p, e), src, p, e) /\ e \in Nat /\ e > p /\ e \in p + 1 .. Len(src) + 1
    BY <1>1, CutSpells DEF Ends
  <2>2. IsString(Cut(p, e)) <=> e = z + 1 /\ Ch(src, z) # "eof"
    BY <1>1, <2>1, StringIs DEF Closing
  <2> HIDE DEF z
  <2>3. QED
    BY <1>1, <2>1, <2>2, KindOfIs
<1> HIDE DEF z
<1>4. CASE Ch(src, z) = "eof"
  <2>1. NotBehind(p, p)
    BY <1>3, <1>4 DEF NotBehind
  <2>2. LongestEnd(p) = p
    BY <1>1, <2>1, Longest
  <2>3. QED
    BY <1>4, <2>2 DEF z
<1>5. CASE Ch(src, z) # "eof"
  <2>1. NotBehind(p, z + 1) /\ KindOf(Cut(p, z + 1)) = "string" /\ z + 1 \in Nat
    BY <1>2, <1>3, <1>5 DEF NotBehind
  <2>2. KindOf(Cut(p, z + 1)) # "none"
    BY <2>1
  <2>3. LongestEnd(p) = z + 1
    BY <1>1, <1>2, <1>5, <2>1, <2>2, Longest
  <2>4. QED
    BY <1>5, <2>1, <2>3 DEF z
<1>6. QED
  BY <1>4, <1>5

\* An f in front of a quote begins a literal, as long as that is closed.
LEMMA FStringLongest ==
  ASSUME IsText(src), NEW p \in 1 .. Len(src), BeginsString(src, p), NEW z, z = Closing(src, p + 1),
         Ch(src, z) # "eof"
  PROVE  LongestEnd(p) = z + 1 /\ KindOf(Cut(p, z + 1)) = "fstring"
<1>1. p \in Nat \ {0} /\ Len(src) \in Nat /\ p \in 1 .. Len(src) + 1 /\ p \in Nat /\ p + 1 \in Nat \ {0}
  BY DEF IsText
<1>2. Ch(src, p) = "f" /\ Ch(src, p + 1) \in Quotes /\ p + 1 \in 1 .. Len(src)
  <2>1. Ch(src, p) = "f" /\ Ch(src, p + 1) \in Quotes /\ "eof" \notin Quotes
    BY DEF BeginsString, Quotes
  <2>2. QED
    BY <1>1, <2>1, ChOf
<1>3. z \in Nat /\ z > p + 1 /\ z + 1 \in Ends(p)
  <2>1. z \in (p + 1) + 1 .. Len(src) + 1 /\ z + 1 \in (p + 1) + 2 .. Len(src) + 1
    BY <1>2, ClosingIs
  <2>2. QED
    BY <1>1, <2>1 DEF Ends
<1>4. ASSUME NEW e \in Ends(p), e > p + 1
      PROVE  KindOf(Cut(p, e)) = IF e = z + 1 THEN "fstring" ELSE "none"
  <2> DEFINE s == Cut(p, e)
  <2>1. Spells(s, src, p, e) /\ e \in Nat /\ e > p /\ e \in (p + 1) + 1 .. Len(src) + 1
    BY <1>1, <1>4, CutSpells DEF Ends
  <2> HIDE DEF s
  <2>2. Spells(Tail(s), src, p + 1, e)
    BY <1>1, <2>1, TailSpells
  <2>3. IsString(Tail(s)) <=> e = z + 1
    BY <1>1, <1>2, <2>1, <2>2, StringIs DEF Closing
  <2>4. ~(\A i \in p .. e - 1 : Ch(src, i) \in Letters \cup Digits)
    <3>1. p + 1 \in p .. e - 1
      BY <1>1, <1>4, <2>1
    <3>2. Ch(src, p + 1) \notin Letters \cup Digits
      BY <1>2 DEF Letters, Digits, Quotes
    <3>3. QED
      BY <3>1, <3>2
  <2>5. Ch(src, p) \in Letters
    BY <1>2 DEF Letters
  <2>6. KindOf(s) = IF e = z + 1 THEN "fstring" ELSE "none"
    BY <1>1, <1>2, <2>1, <2>3, <2>4, <2>5, KindOfIs
  <2>7. QED
    BY <2>6 DEF s
<1>5. NotBehind(p, z + 1) /\ KindOf(Cut(p, z + 1)) = "fstring" /\ z + 1 \in Nat
  <2>1. z + 1 > p + 1
    BY <1>1, <1>3
  <2>2. \A e \in Ends(p) : e > z + 1 => e > p + 1 /\ e # z + 1
    BY <1>1, <1>3 DEF Ends
  <2>3. QED
    BY <1>3, <1>4, <2>1, <2>2 DEF NotBehind
<1>6. KindOf(Cut(p, z + 1)) # "none"
  BY <1>5
<1>7. LongestEnd(p) = z + 1
  BY <1>1, <1>3, <1>5, <1>6, Longest
<1>8. QED
  BY <1>5, <1>7

-----------------------------------------------------------------------------
\* A dot stands at place i.
IsDot(i) == Ch(src, i) = "."

\* A number consists of digits, and of at most one dot that stands between them.
LEMMA NumberIs ==
  ASSUME NEW p \in Nat, NEW e \in Nat, e > p, NEW s, Spells(s, src, p, e)
  PROVE  /\ IsNumber(s) => /\ \A i \in p .. e - 1 : IsDot(i) \/ Ch(src, i) \in Digits
                           /\ \A i, j \in p .. e - 1 : IsDot(i) /\ IsDot(j) => i = j
                           /\ ~IsDot(e - 1)
         /\ (\A i \in p .. e - 1 : Ch(src, i) \in Digits) => IsNumber(s) /\ ~\E i \in DOMAIN s : s[i] = "."
         /\ \A d \in p + 1 .. e - 2 :
              IsDot(d) /\ (\A i \in p .. e - 1 : i # d => Ch(src, i) \in Digits)
                => IsNumber(s) /\ \E i \in DOMAIN s : s[i] = "."
<1> DEFINE dots == {i \in DOMAIN s : s[i] = "."}
<1>1. /\ DOMAIN s = 1 .. e - p /\ Len(s) = e - p
      /\ \A i \in 1 .. e - p : s[i] = Ch(src, p + i - 1) /\ p + i - 1 \in p .. e - 1
      /\ \A i \in p .. e - 1 : i - p + 1 \in 1 .. e - p /\ s[i - p + 1] = Ch(src, i)
  <2>1. DOMAIN s = 1 .. e - p /\ Len(s) = e - p /\ \A i \in 1 .. e - p : s[i] = Ch(src, p + i - 1)
    BY DEF Spells
  <2>2. \A i \in 1 .. e - p : p + i - 1 \in p .. e - 1
    OBVIOUS
  <2>3. \A i \in p .. e - 1 : i - p + 1 \in 1 .. e - p /\ p + (i - p + 1) - 1 = i
    OBVIOUS
  <2>4. QED
    BY <2>1, <2>2, <2>3
<1>2. IsNumber(s) <=> /\ \A i \in DOMAIN s \ dots : s[i] \in Digits
                      /\ dots = {} \/ \E i \in 2 .. Len(s) - 1 : dots = {i}
  BY DEF IsNumber
<1>3. \A i \in p .. e - 1 : IsDot(i) <=> i - p + 1 \in dots
  BY <1>1 DEF IsDot
<1>4. "." \notin Digits
  BY DEF Digits
<1>5. ASSUME IsNumber(s)
      PROVE  /\ \A i \in p .. e - 1 : IsDot(i) \/ Ch(src, i) \in Digits
             /\ \A i, j \in p .. e - 1 : IsDot(i) /\ IsDot(j) => i = j
             /\ ~IsDot(e - 1)
  <2>1. dots = {} \/ \E i \in 2 .. e - p - 1 : dots = {i}
    BY <1>1, <1>2, <1>5
  <2>2. \A i \in p .. e - 1 : IsDot(i) \/ Ch(src, i) \in Digits
    BY <1>1, <1>2, <1>3, <1>5
  <2> HIDE DEF dots
  <2>3. \A i, j \in p .. e - 1 : IsDot(i) /\ IsDot(j) => i = j
    <3>1. \A i, j \in p .. e - 1 : IsDot(i) /\ IsDot(j) => i - p + 1 = j - p + 1
      BY <1>3, <2>1
    <3>2. \A i, j \in p .. e - 1 : i - p + 1 = j - p + 1 => i = j
      OBVIOUS
    <3>3. QED
      BY <3>1, <3>2
  <2>4. ~IsDot(e - 1)
    <3>1. e - 1 \in p .. e - 1 /\ (e - 1) - p + 1 = e - p
      OBVIOUS
    <3>2. e - p \notin dots
      BY <2>1
    <3>3. QED
      BY <1>3, <3>1, <3>2
  <2>5. QED
    BY <2>2, <2>3, <2>4
<1>6. ASSUME \A i \in p .. e - 1 : Ch(src, i) \in Digits
      PROVE  IsNumber(s) /\ ~\E i \in DOMAIN s : s[i] = "."
  <2>1. \A i \in DOMAIN s : s[i] \in Digits
    BY <1>1, <1>6
  <2>2. dots = {}
    BY <1>4, <2>1
  <2>3. QED
    BY <1>2, <2>1, <2>2
<1>7. ASSUME NEW d \in p + 1 .. e - 2, IsDot(d), \A i \in p .. e - 1 : i # d => Ch(src, i) \in Digits
      PROVE  IsNumber(s) /\ \E i \in DOMAIN s : s[i] = "."
  <2>1. d \in p .. e - 1 /\ d - p + 1 \in 2 .. e - p - 1 /\ d \in Nat
    OBVIOUS
  <2>2. d - p + 1 \in dots
    BY <1>3, <1>7, <2>1
  <2>3. ASSUME NEW i \in DOMAIN s, i # d - p + 1 PROVE s[i] \in Digits
    <3>1. i \in 1 .. e - p
      BY <1>1
    <3>2. p + i - 1 \in p .. e - 1 /\ p + i - 1 # d /\ s[i] = Ch(src, p + i - 1)
      BY <1>1, <2>1, <2>3, <3>1
    <3>3. QED
      BY <1>7, <3>2
  <2>4. dots = {d - p + 1}
    BY <1>4, <2>2, <2>3
  <2>5. QED
    BY <1>1, <1>2, <2>1, <2>2, <2>3, <2>4
<1>8. QED
  BY <1>5, <1>6, <1>7

\* A number ends behind its digits, and goes on behind a dot that a digit follows.
LEMMA NumberLongest ==
  ASSUME IsText(src), NEW p \in 1 .. Len(src), Ch(src, p) \in Digits
  PROVE  IF IsFloat(src, p)
           THEN LET e == WholeEnd(src, WholeEnd(src, p) + 1)
                IN  LongestEnd(p) = e /\ KindOf(Cut(p, e)) = "float"
         ELSE LongestEnd(p) = WholeEnd(src, p) /\ KindOf(Cut(p, WholeEnd(src, p))) = "int"
<1> DEFINE w == WholeEnd(src, p)
<1>1. p \in Nat \ {0} /\ Len(src) \in Nat /\ p \in 1 .. Len(src) + 1 /\ p \in Nat
  BY DEF IsText
<1>2. "eof" \notin Digits /\ "." \notin Digits /\ "." # "eof"
  BY DEF Digits
<1>3. /\ w \in Ends(p) /\ w \in Nat /\ w > p
      /\ Ch(src, w) \notin Digits /\ \A i \in p .. w - 1 : Ch(src, i) \in Digits
  <2>1. /\ w \in p + 1 .. Len(src) + 1
        /\ Ch(src, w) \notin Digits /\ \A i \in p .. w - 1 : Ch(src, i) \in Digits
    BY <1>1, <1>2, RunIs DEF WholeEnd
  <2>2. QED
    BY <1>1, <2>1 DEF Ends
<1> HIDE DEF w
<1>4. ASSUME NEW e \in Ends(p)
      PROVE  /\ Spells(Cut(p, e), src, p, e) /\ e \in Nat /\ e > p
             /\ KindOf(Cut(p, e)) = IF IsNumber(Cut(p, e))
                  THEN (IF \E i \in DOMAIN Cut(p, e) : Cut(p, e)[i] = "." THEN "float" ELSE "int") ELSE "none"
  <2>1. Spells(Cut(p, e), src, p, e) /\ e \in Nat /\ e > p
    BY <1>1, CutSpells
  <2>2. QED
    BY <1>1, <2>1, KindOfIs
<1>5. ASSUME NEW e \in Ends(p), IsNumber(Cut(p, e))
      PROVE  /\ e \in Nat /\ e > p /\ ~IsDot(e - 1)
             /\ \A i \in p .. e - 1 : IsDot(i) \/ Ch(src, i) \in Digits
             /\ \A i, j \in p .. e - 1 : IsDot(i) /\ IsDot(j) => i = j
  BY <1>1, <1>4, <1>5, NumberIs
<1>6. CASE ~IsFloat(src, p)
  <2>1. KindOf(Cut(p, w)) = "int"
    <3>1. IsNumber(Cut(p, w)) /\ ~\E i \in DOMAIN Cut(p, w) : Cut(p, w)[i] = "."
      BY <1>1, <1>3, <1>4, NumberIs
    <3>2. QED
      BY <1>3, <1>4, <3>1
  <2>2. ASSUME NEW e \in Ends(p), e > w PROVE ~IsNumber(Cut(p, e))
    <3> SUFFICES ASSUME IsNumber(Cut(p, e)) PROVE FALSE
      OBVIOUS
    <3>1. w \in p .. e - 1 /\ e \in Nat
      BY <1>1, <1>3, <1>5, <2>2
    <3>2. IsDot(w)
      BY <1>3, <1>5, <3>1
    <3>3. w # e - 1
      BY <1>5, <3>2
    <3>4. w + 1 \in p .. e - 1 /\ w + 1 # w
      BY <1>1, <1>3, <3>1, <3>3
    <3>5. Ch(src, w + 1) \notin Digits
      BY <1>6, <3>2 DEF IsFloat, IsDot, w
    <3>6. IsDot(w + 1)
      BY <1>5, <3>4, <3>5
    <3>7. QED
      BY <1>5, <3>1, <3>2, <3>4, <3>6
  <2>3. NotBehind(p, w)
    BY <1>4, <2>2 DEF NotBehind
  <2>4. KindOf(Cut(p, w)) # "none"
    BY <2>1
  <2>5. LongestEnd(p) = w
    BY <1>1, <1>3, <2>3, <2>4, Longest
  <2>6. QED
    BY <1>6, <2>1, <2>5 DEF w
<1>7. CASE IsFloat(src, p)
  <2> DEFINE f == WholeEnd(src, w + 1)
  <2>1. Ch(src, w) = "." /\ Ch(src, w + 1) \in Digits
    BY <1>7 DEF IsFloat, w
  <2>2. w + 1 \in 1 .. Len(src) /\ w + 1 \in 1 .. Len(src) + 1
    BY <1>1, <1>2, <1>3, <2>1, ChOf
  <2>3. /\ f \in Ends(p) /\ f \in Nat /\ f > w + 1
        /\ Ch(src, f) \notin Digits /\ \A i \in w + 1 .. f - 1 : Ch(src, i) \in Digits
    <3>1. /\ f \in (w + 1) + 1 .. Len(src) + 1
          /\ Ch(src, f) \notin Digits /\ \A i \in w + 1 .. f - 1 : Ch(src, i) \in Digits
      BY <1>2, <2>1, <2>2, RunIs DEF WholeEnd
    <3> HIDE DEF f
    <3>2. QED
      BY <1>1, <1>3, <3>1 DEF Ends
  <2> HIDE DEF f
  <2>4. KindOf(Cut(p, f)) = "float"
    <3>1. w \in p + 1 .. f - 2 /\ IsDot(w)
      BY <1>1, <1>3, <2>1, <2>3 DEF IsDot
    <3>2. \A i \in p .. f - 1 : i # w => i \in p .. w - 1 \/ i \in w + 1 .. f - 1
      BY <1>1, <1>3, <2>3
    <3>3. \A i \in p .. f - 1 : i # w => Ch(src, i) \in Digits
      BY <1>3, <2>3, <3>2
    <3>4. IsNumber(Cut(p, f)) /\ \E i \in DOMAIN Cut(p, f) : Cut(p, f)[i] = "."
      BY <1>1, <1>4, <2>3, <3>1, <3>3, NumberIs
    <3>5. QED
      BY <1>4, <2>3, <3>4
  <2>5. ASSUME NEW e \in Ends(p), e > f PROVE ~IsNumber(Cut(p, e))
    <3> SUFFICES ASSUME IsNumber(Cut(p, e)) PROVE FALSE
      OBVIOUS
    <3>1. w \in p .. e - 1 /\ f \in p .. e - 1 /\ w # f
      BY <1>1, <1>3, <1>5, <2>3, <2>5
    <3>2. IsDot(w) /\ IsDot(f)
      BY <1>5, <2>1, <2>3, <3>1 DEF IsDot
    <3>3. QED
      BY <1>5, <3>1, <3>2
  <2>6. NotBehind(p, f)
    BY <1>4, <2>5 DEF NotBehind
  <2>7. KindOf(Cut(p, f)) # "none"
    BY <2>4
  <2>8. LongestEnd(p) = f
    BY <1>1, <2>3, <2>6, <2>7, Longest
  <2>9. QED
    BY <1>7, <2>4, <2>8 DEF w, f
<1>8. QED
  BY <1>6, <1>7

\* An operator of two characters is read as one.
LEMMA OperatorLongest ==
  ASSUME IsText(src), NEW p \in 1 .. Len(src), Ch(src, p) \notin Letters \cup Digits \cup Quotes
  PROVE  LET c == Ch(src, p)
         IN  IF <<c, Ch(src, p + 1)>> \in Operators
               THEN LongestEnd(p) = p + 2 /\ KindOf(Cut(p, p + 2)) = "operator"
             ELSE IF <<c>> \in Operators THEN LongestEnd(p) = p + 1 /\ KindOf(Cut(p, p + 1)) = "operator"
             ELSE LongestEnd(p) = p
<1> DEFINE c == Ch(src, p)
           d == Ch(src, p + 1)
<1>1. p \in Nat \ {0} /\ Len(src) \in Nat /\ p \in 1 .. Len(src) + 1 /\ p \in Nat /\ p + 1 \in Nat /\ p + 2 \in Nat
  BY DEF IsText
<1>2. p + 1 \in Ends(p)
  BY <1>1 DEF Ends
<1>3. <<c, d>> \in Operators => p + 2 \in Ends(p)
  <2> SUFFICES ASSUME <<c, d>> \in Operators PROVE p + 2 \in Ends(p)
    OBVIOUS
  <2>1. d # "eof"
    BY OperatorsAre
  <2>2. p + 1 \in 1 .. Len(src)
    BY <1>1, <2>1, ChOf
  <2>3. QED
    BY <1>1, <2>2 DEF Ends
<1>4. ASSUME NEW e \in Ends(p)
      PROVE  /\ e \in Nat /\ e > p
             /\ KindOf(Cut(p, e)) = IF Cut(p, e) \in Operators THEN "operator" ELSE "none"
             /\ Len(Cut(p, e)) = e - p
             /\ e = p + 1 => Cut(p, e) = <<c>>
             /\ e = p + 2 => Cut(p, e) = <<c, d>>
  <2> DEFINE s == Cut(p, e)
  <2>1. Spells(s, src, p, e) /\ e \in Nat /\ e > p
    BY <1>1, CutSpells
  <2> HIDE DEF s
  <2>2. KindOf(s) = IF s \in Operators THEN "operator" ELSE "none"
    BY <1>1, <2>1, KindOfIs
  <2>3. s \in Seq({Ch(src, i) : i \in Nat}) /\ Len(s) = e - p /\ \A i \in 1 .. e - p : s[i] = Ch(src, p + i - 1)
    BY <2>1 DEF Spells
  <2>4. e = p + 1 => s = <<c>>
    <3> SUFFICES ASSUME e = p + 1 PROVE s = <<c>>
      OBVIOUS
    <3>1. Len(s) = 1 /\ s[1] = c
      BY <1>1, <2>3
    <3>2. QED
      BY <2>3, <3>1
  <2>5. e = p + 2 => s = <<c, d>>
    <3> SUFFICES ASSUME e = p + 2 PROVE s = <<c, d>>
      OBVIOUS
    <3>1. Len(s) = 2 /\ s[1] = c /\ s[2] = d
      BY <1>1, <2>3
    <3>2. QED
      BY <2>3, <3>1
  <2>6. QED
    BY <2>1, <2>2, <2>3, <2>4, <2>5 DEF s
<1>5. ASSUME NEW e \in Ends(p), e > p + 2 PROVE KindOf(Cut(p, e)) = "none"
  <2>1. ~(Len(Cut(p, e)) \in 1 .. 2)
    <3>1. Len(Cut(p, e)) = e - p /\ e \in Nat
      BY <1>4
    <3>2. ~(e - p \in 1 .. 2)
      BY <1>1, <1>5, <3>1
    <3>3. QED
      BY <3>1, <3>2
  <2>2. Cut(p, e) \notin Operators
    BY <2>1, OperatorsAre
  <2>3. QED
    BY <1>4, <2>2
<1> HIDE DEF c, d
<1>6. CASE <<c, d>> \in Operators
  <2>1. KindOf(Cut(p, p + 2)) = "operator" /\ KindOf(Cut(p, p + 2)) # "none"
    BY <1>3, <1>4, <1>6
  <2>2. NotBehind(p, p + 2)
    BY <1>5 DEF NotBehind
  <2>3. LongestEnd(p) = p + 2
    BY <1>1, <1>3, <1>6, <2>1, <2>2, Longest
  <2>4. QED
    BY <1>6, <2>1, <2>3 DEF c, d
<1>7. CASE <<c, d>> \notin Operators /\ <<c>> \in Operators
  <2>1. KindOf(Cut(p, p + 1)) = "operator" /\ KindOf(Cut(p, p + 1)) # "none"
    BY <1>2, <1>4, <1>7
  <2>2. \A e \in Ends(p) : e > p + 1 => e = p + 2 \/ e > p + 2
    BY <1>1, <1>4
  <2>3. NotBehind(p, p + 1)
    BY <1>4, <1>5, <1>7, <2>2 DEF NotBehind
  <2>4. LongestEnd(p) = p + 1
    BY <1>1, <1>2, <2>1, <2>3, Longest
  <2>5. QED
    BY <1>7, <2>1, <2>4 DEF c, d
<1>8. CASE <<c, d>> \notin Operators /\ <<c>> \notin Operators
  <2>1. \A e \in Ends(p) : e = p + 1 \/ e = p + 2 \/ e > p + 2
    BY <1>1, <1>4
  <2>2. NotBehind(p, p)
    BY <1>4, <1>5, <1>8, <2>1 DEF NotBehind
  <2>3. LongestEnd(p) = p
    BY <1>1, <2>2, Longest
  <2>4. QED
    BY <1>8, <2>3 DEF c, d
<1>9. QED
  BY <1>6, <1>7, <1>8

-----------------------------------------------------------------------------
\* What is found at a place is the longest token that begins there.
Best(p, t) ==
  CASE t.kind = "eof"   -> p = Len(src) + 1
    [] t.kind = "error" -> LongestEnd(p) = p \/ BeginsString(src, p)
    [] OTHER -> t.end = LongestEnd(p) /\ t.kind = KindOf(Cut(p, t.end))

\* next_token, by one character of lookahead at a time, finds the longest token.
LEMMA ScanIsBest ==
  ASSUME IsText(src), NEW p \in 1 .. Len(src) + 1
  PROVE  Best(p, Scan(src, p))
<1> DEFINE t == Scan(src, p)
           c == Ch(src, p)
<1>1. Len(src) \in Nat /\ p \in Nat /\ "f" \in Letters
  BY DEF IsText, Letters
<1>2. c # "eof" => p \in 1 .. Len(src)
  BY <1>1, ChOf
<1>3. c = "eof" => p = Len(src) + 1
  BY <1>1, ChOf
<1>4. "eof" \notin Letters \cup Digits \cup Quotes
  BY DEF Letters, Digits, Quotes
<1>5. ASSUME NEW kind, kind \notin {"eof", "error"}, NEW end, Found(t, kind, end),
             LongestEnd(p) = end, KindOf(Cut(p, end)) = kind
      PROVE  Best(p, t)
  <2> HIDE DEF t
  <2> QED BY <1>5 DEF Best, Found
<1>6. ASSUME Found(t, "error", p), LongestEnd(p) = p \/ BeginsString(src, p) PROVE Best(p, t)
  <2> HIDE DEF t
  <2> QED BY <1>6 DEF Best, Found
<1>7. /\ c = "eof" => Found(t, "eof", p)
      /\ BeginsString(src, p) =>
           IF Ch(src, Closing(src, p + 1)) = "eof" THEN Found(t, "error", p)
           ELSE Found(t, "fstring", Closing(src, p + 1) + 1)
      /\ c \in Letters /\ ~BeginsString(src, p) =>
           Found(t, IF Cut(p, WordEnd(src, p)) \in Keywords THEN "keyword" ELSE "ident", WordEnd(src, p))
      /\ c \in Digits =>
           IF IsFloat(src, p) THEN Found(t, "float", WholeEnd(src, WholeEnd(src, p) + 1))
           ELSE Found(t, "int", WholeEnd(src, p))
      /\ c \in Quotes =>
           IF Ch(src, Closing(src, p)) = "eof" THEN Found(t, "error", p)
           ELSE Found(t, "string", Closing(src, p) + 1)
      /\ c \notin Letters \cup Digits \cup Quotes \cup {"eof"} =>
           IF <<c, Ch(src, p + 1)>> \in Operators THEN Found(t, "operator", p + 2)
           ELSE IF <<c>> \in Operators THEN Found(t, "operator", p + 1)
           ELSE Found(t, "error", p)
  BY <1>1, ScanIs DEF Cut
<1> HIDE DEF t
<1>8. CASE c = "eof"
  <2>1. Found(t, "eof", p)
    BY <1>7, <1>8
  <2>2. QED
    BY <1>3, <1>8, <2>1 DEF Best, Found, t
<1>9. CASE BeginsString(src, p)
  <2>1. c \in Letters
    BY <1>1, <1>9 DEF BeginsString
  <2>2. p \in 1 .. Len(src)
    BY <1>2, <1>4, <2>1
  <2> DEFINE z == Closing(src, p + 1)
  <2>3. IF Ch(src, z) = "eof" THEN Found(t, "error", p) ELSE Found(t, "fstring", z + 1)
    BY <1>9, <1>7
  <2>4. Ch(src, z) # "eof" => LongestEnd(p) = z + 1 /\ KindOf(Cut(p, z + 1)) = "fstring"
    BY <1>9, <2>2, FStringLongest
  <2> HIDE DEF z
  <2>5. QED
    BY <1>5, <1>6, <1>9, <2>3, <2>4 DEF t
<1>10. CASE c \in Letters /\ ~BeginsString(src, p)
  <2> DEFINE w == WordEnd(src, p)
             kind == IF Cut(p, w) \in Keywords THEN "keyword" ELSE "ident"
  <2>1. p \in 1 .. Len(src)
    BY <1>2, <1>4, <1>10
  <2>2. Found(t, kind, w)
    BY <1>10, <1>7
  <2>3. LongestEnd(p) = w /\ KindOf(Cut(p, w)) = kind
    BY <1>10, <2>1, WordLongest
  <2>4. kind \notin {"eof", "error"}
    OBVIOUS
  <2> HIDE DEF w, kind
  <2>5. QED
    BY <1>5, <2>2, <2>3, <2>4 DEF t
<1>11. CASE c \in Digits
  <2> DEFINE w == WholeEnd(src, p)
             f == WholeEnd(src, w + 1)
  <2>1. p \in 1 .. Len(src)
    BY <1>2, <1>4, <1>11
  <2>2. IF IsFloat(src, p) THEN Found(t, "float", f) ELSE Found(t, "int", w)
    BY <1>11, <1>7
  <2>3. IF IsFloat(src, p) THEN LongestEnd(p) = f /\ KindOf(Cut(p, f)) = "float"
        ELSE LongestEnd(p) = w /\ KindOf(Cut(p, w)) = "int"
    BY <1>11, <2>1, NumberLongest
  <2> HIDE DEF w, f
  <2>4. QED
    BY <1>5, <2>2, <2>3 DEF t
<1>12. CASE c \in Quotes
  <2> DEFINE z == Closing(src, p)
  <2>1. p \in 1 .. Len(src)
    BY <1>2, <1>4, <1>12
  <2>2. IF Ch(src, z) = "eof" THEN Found(t, "error", p) ELSE Found(t, "string", z + 1)
    BY <1>12, <1>7
  <2>3. IF Ch(src, z) = "eof" THEN LongestEnd(p) = p
        ELSE LongestEnd(p) = z + 1 /\ KindOf(Cut(p, z + 1)) = "string"
    BY <1>12, <2>1, StringLongest
  <2> HIDE DEF z
  <2>4. QED
    BY <1>5, <1>6, <2>2, <2>3 DEF t
<1>13. CASE c \notin Letters \cup Digits \cup Quotes \cup {"eof"}
  <2> DEFINE pair == <<c, Ch(src, p + 1)>> \in Operators
             single == <<c>> \in Operators
  <2>1. p \in 1 .. Len(src)
    BY <1>2, <1>13
  <2>2. IF pair THEN Found(t, "operator", p + 2) ELSE IF single THEN Found(t, "operator", p + 1)
        ELSE Found(t, "error", p)
    BY <1>13, <1>7
  <2>3. IF pair THEN LongestEnd(p) = p + 2 /\ KindOf(Cut(p, p + 2)) = "operator"
        ELSE IF single THEN LongestEnd(p) = p + 1 /\ KindOf(Cut(p, p + 1)) = "operator"
        ELSE LongestEnd(p) = p
    BY <1>13, <2>1, OperatorLongest
  <2> HIDE DEF pair, single
  <2>4. QED
    BY <1>5, <1>6, <2>2, <2>3 DEF t
<1>14. QED
  BY <1>8, <1>9, <1>10, <1>11, <1>12, <1>13 DEF t

\* A place and the token that next_token finds from it.
TokenFrom(place, t) == PlaceOK(src, place) /\ t = NextToken(src, place)
\* Where next_token finds its token from place, and where it leaves off.
Begin(place) == Moved(src, place, SkipBlanks(src, place.pos))
Behind(place) == Moved(src, Begin(place), Scan(src, Begin(place).pos).end)

\* skip_whitespace_and_comments stays in the text and passes over nothing else.
LEMMA SkipsGap ==
  ASSUME IsText(src), NEW p \in 1 .. Len(src) + 1
  PROVE  SkipBlanks(src, p) \in p .. Len(src) + 1 /\ IsGap(p, SkipBlanks(src, p))
<1> DEFINE e == SkipBlanks(src, p)
<1>1. Len(src) \in Nat /\ p \in Nat \ {0} /\ p \in Nat /\ DOMAIN src = 1 .. Len(src)
  BY DEF IsText
<1>2. /\ e \in Nat /\ e >= p /\ Ch(src, e) \notin Blanks /\ ~BeginsComment(src, e)
      /\ \A i \in p .. e - 1 : Passed(src, p, i)
  BY <1>1, SkipBlanksIs
<1> HIDE DEF e
<1>3. ASSUME NEW i \in p .. e - 1 PROVE Ch(src, i) # "eof" /\ Ignored(p, i)
  <2>1. Passed(src, p, i)
    BY <1>2, <1>3
  <2>2. i \in Nat /\ i >= p
    BY <1>1, <1>2
  <2>3. CASE Ch(src, i) \in Blanks
    <3>1. Ch(src, i) # "eof"
      BY <2>3 DEF Blanks
    <3>2. Ch(src, i) = src[i]
      BY <1>1, <2>2, <3>1, ChOf
    <3>3. QED
      BY <2>3, <3>1, <3>2 DEF Ignored
  <2>4. CASE \E j \in p .. i : /\ BeginsComment(src, j)
                               /\ \A k \in j .. i : Ch(src, k) \notin {"\n", "eof"}
    <3>1. PICK j \in p .. i : BeginsComment(src, j) /\ \A k \in j .. i : Ch(src, k) \notin {"\n", "eof"}
      BY <2>4
    <3>2. \A k \in j .. i : k \in Nat /\ Ch(src, k) = src[k]
      <4>1. \A k \in j .. i : k \in Nat
        BY <1>1, <2>2, <3>1
      <4>2. QED
        BY <3>1, <4>1, ChOf
    <3>3. \A k \in j .. i : src[k] # "\n"
      BY <3>1, <3>2
    <3>4. i \in j .. i
      BY <1>1, <2>2, <3>1
    <3>5. Ch(src, i) # "eof"
      BY <3>1, <3>4
    <3>6. Ignored(p, i)
      BY <3>1, <3>3 DEF Ignored, BeginsComment
    <3>7. QED
      BY <3>5, <3>6
  <2>5. QED
    BY <2>1, <2>3, <2>4 DEF Passed
<1>4. e \in p .. Len(src) + 1
  BY <1>1, <1>2, <1>3, InText
<1>5. e \in DOMAIN src => ~Ignored(e, e)
  <2>1. e \in DOMAIN src => Ch(src, e) = src[e]
    BY DEF Ch
  <2>2. \A j \in e .. e : j = e
    BY <1>2
  <2>3. QED
    BY <1>2, <2>1, <2>2 DEF Ignored, BeginsComment
<1>6. IsGap(p, e)
  BY <1>3, <1>5 DEF IsGap
<1>7. QED
  BY <1>4, <1>6 DEF e

\* next_token starts, and leaves off, at a place whose line and column are right.
LEMMA PlacesOK ==
  ASSUME IsText(src), NEW place, PlaceOK(src, place)
  PROVE  /\ PlaceOK(src, Begin(place)) /\ IsGap(place.pos, Begin(place).pos)
         /\ PlaceOK(src, Behind(place)) /\ Behind(place).pos = Scan(src, Begin(place).pos).end
<1> DEFINE p == place.pos
           e == SkipBlanks(src, p)
           b == Begin(place)
           z == Scan(src, b.pos).end
<1>1. p \in 1 .. Len(src) + 1
  BY DEF PlaceOK
<1>2. e \in p .. Len(src) + 1 /\ IsGap(p, e)
  BY <1>1, SkipsGap
<1>3. PlaceOK(src, b) /\ b.pos = e
  BY <1>2, MovedIs DEF Begin
<1> HIDE DEF b, p, e
<1>4. b.pos \in 1 .. Len(src) + 1
  BY <1>3 DEF PlaceOK
<1>5. z \in b.pos .. Len(src) + 1
  BY <1>4, ScanInText
<1> HIDE DEF z
<1>6. PlaceOK(src, Moved(src, b, z)) /\ Moved(src, b, z).pos = z
  BY <1>3, <1>5, MovedIs
<1>7. QED
  BY <1>2, <1>3, <1>6 DEF Behind, b, z, p, e

\* The parts of a token that next_token finds.
LEMMA PartsOfToken ==
  ASSUME NEW place, NEW t, t = NextToken(src, place)
  PROVE  LET s == Scan(src, Begin(place).pos)
             at == IF t.kind = "operator" THEN Behind(place) ELSE Begin(place)
         IN  /\ t.kind = s.kind /\ t.start = Begin(place).pos /\ t.next = Behind(place)
             /\ t.line = at.line /\ t.col = at.col
BY DEF NextToken, Begin, Behind

\* The token is the longest at its place, and the gap in front of it is one.
LEMMA TokenIsBest ==
  ASSUME IsText(src), NEW place, NEW t, TokenFrom(place, t)
  PROVE  IsLongest(t) /\ IsGap(place.pos, t.start) /\ PlaceOK(src, t.next)
<1> DEFINE p == Begin(place).pos
           s == Scan(src, p)
<1>1. PlaceOK(src, place)
  BY DEF TokenFrom
<1>2. t.kind = s.kind /\ t.start = p /\ t.next = Behind(place)
  BY PartsOfToken DEF TokenFrom
<1>3. /\ PlaceOK(src, Begin(place)) /\ IsGap(place.pos, p)
      /\ PlaceOK(src, Behind(place)) /\ Behind(place).pos = s.end
  BY <1>1, PlacesOK
<1>4. p \in 1 .. Len(src) + 1
  BY <1>3 DEF PlaceOK
<1>5. Best(p, s)
  BY <1>4, ScanIsBest
<1> HIDE DEF p, s
<1>6. BeginsString(src, p) => src[p] = "f" /\ src[p + 1] \in Quotes
  <2> SUFFICES ASSUME BeginsString(src, p) PROVE src[p] = "f" /\ src[p + 1] \in Quotes
    OBVIOUS
  <2>1. Ch(src, p) = "f" /\ Ch(src, p + 1) \in Quotes /\ "eof" \notin Quotes
    BY DEF BeginsString, Quotes
  <2>2. Ch(src, p) = src[p] /\ Ch(src, p + 1) = src[p + 1]
    BY <2>1 DEF Ch
  <2>3. QED
    BY <2>1, <2>2
<1>7. IsLongest(t)
  BY <1>2, <1>3, <1>5, <1>6 DEF IsLongest, Best, Cut
<1>8. QED
  BY <1>2, <1>3, <1>7

-----------------------------------------------------------------------------
\* A right line and column are those that the line breaks in front give.
LEMMA PlaceIsLocated ==
  ASSUME IsText(src), NEW place, PlaceOK(src, place)
  PROVE  LET p == place.pos
             breaks == {i \in 1 .. p - 1 : src[i] = "\n"}
         IN  /\ place.line = 1 + Cardinality(breaks)
             /\ \A i \in 1 .. p - 1 : place.col = p - i <=> (i \in breaks /\ \A j \in breaks : j <= i)
<1> DEFINE p == place.pos
           breaks == {i \in 1 .. p - 1 : src[i] = "\n"}
<1>1. p \in Nat \ {0} /\ p <= Len(src) + 1 /\ Len(src) \in Nat
  BY DEF PlaceOK, IsText
<1>2. breaks = BreaksBefore(src, p)
  <2>1. \A i \in 1 .. p - 1 : i \in DOMAIN src
    BY <1>1 DEF IsText
  <2>2. QED
    BY <2>1 DEF BreaksBefore, Ch
<1>3. breaks \subseteq 1 .. p - 1
  OBVIOUS
<1> HIDE DEF p, breaks
<1>4. place.line = 1 + Cardinality(breaks) /\ ColumnOK(src, p, place.col)
  BY <1>2 DEF PlaceOK, p
<1>5. ASSUME NEW i \in 1 .. p - 1
      PROVE  place.col = p - i <=> (i \in breaks /\ \A j \in breaks : j <= i)
  <2>1. CASE breaks = {}
    <3>1. place.col = p
      BY <1>2, <1>4, <2>1 DEF ColumnOK
    <3>2. p # p - i
      BY <1>1
    <3>3. QED
      BY <2>1, <3>1, <3>2
  <2>2. CASE breaks # {}
    <3>1. PICK k \in breaks : place.col = p - k /\ \A j \in breaks : j <= k
      BY <1>2, <1>4, <2>2 DEF ColumnOK
    <3>2. k \in Nat /\ i \in Nat /\ \A j \in breaks : j \in Nat
      BY <1>1, <1>3
    <3>3. place.col = p - i <=> i = k
      BY <1>1, <3>1, <3>2
    <3>4. (i \in breaks /\ \A j \in breaks : j <= i) <=> i = k
      BY <3>1, <3>2
    <3>5. QED
      BY <3>3, <3>4
  <2>3. QED
    BY <2>1, <2>2
<1>6. QED
  BY <1>4, <1>5 DEF p, breaks

\* A token of the text: next_token has found it from a place with the right line and column.
TokenOfText(t) == \E place : TokenFrom(place, t)

\* The inductive invariant: both tokens of the parser are tokens of the text.
TokensInv ==
  /\ WindowOK /\ IsText(src)
  /\ TokenOfText(lex.current) /\ TokenOfText(saved.current)

\* The token behind a token of the text is one, and begins its search where that one ends.
LEMMA AfterIsOfText ==
  ASSUME IsText(src), NEW t, TokenOfText(t)
  PROVE  IsLongest(t) /\ TokenFrom(t.next, TokenAfter(src, t))
<1>1. PICK place : TokenFrom(place, t)
  BY DEF TokenOfText
<1>2. IsLongest(t) /\ PlaceOK(src, t.next)
  BY <1>1, TokenIsBest
<1>3. QED
  BY <1>2 DEF TokenFrom, TokenAfter

\* The first token is found from the first line and column.
LEMMA FirstIsOfText ==
  ASSUME IsText(src)
  PROVE  TokenFrom(Place(1, 1, 1), FirstToken(src))
<1> DEFINE place == Place(1, 1, 1)
<1>1. BreaksBefore(src, 1) = {}
  BY DEF BreaksBefore
<1>2. Cardinality({}) = 0
  BY FS_EmptySet
<1>3. place.pos = 1 /\ place.line = 1 /\ place.col = 1 /\ 1 \in 1 .. Len(src) + 1
  BY DEF Place, IsText
<1> HIDE DEF place
<1>4. PlaceOK(src, place)
  BY <1>1, <1>2, <1>3 DEF PlaceOK, ColumnOK
<1>5. QED
  BY <1>4 DEF TokenFrom, FirstToken, place

\* lexer_init finds the first token of the text.
LEMMA InitTokens == Init => TokensInv
<1> SUFFICES ASSUME Init PROVE TokensInv
  OBVIOUS
<1>1. IsText(src)
  BY TextsAssumption DEF Init, IsText
<1>2. lex.current = FirstToken(src) /\ saved = lex
  BY DEF Init
<1>3. TokenOfText(FirstToken(src))
  BY <1>1, FirstIsOfText DEF TokenOfText
<1>4. QED
  BY <1>1, <1>2, <1>3, InitWindow DEF TokensInv

\* Every operation leaves tokens of the text in the window and in the copy of it.
LEMMA NextTokens == TokensInv /\ [Next]_lvars => TokensInv'
<1> SUFFICES ASSUME TokensInv, [Next]_lvars PROVE TokensInv'
  OBVIOUS
<1>1. WindowOK'
  BY NextWindow DEF TokensInv
<1>2. src' = src
  BY DEF Next, Advance, Peek, Save, Restore, lvars
<1>3. \A t : TokenOfText(t) => TokenOfText(t)'
  BY <1>2 DEF TokenOfText, TokenFrom, PlaceOK, NextToken
<1>4. CASE Advance
  <2>1. lex'.current = TokenAfter(src, lex.current)
    BY <1>4, AdvanceWindow DEF TokensInv
  <2>2. TokenOfText(TokenAfter(src, lex.current))
    BY AfterIsOfText DEF TokensInv, TokenOfText
  <2>3. TokenOfText(lex'.current) /\ saved' = saved
    BY <1>4, <2>1, <2>2 DEF Advance
  <2>4. QED
    BY <1>1, <1>2, <2>3 DEF TokensInv, TokenOfText, TokenFrom, IsText
<1>5. CASE Peek
  <2>1. lex'.current = lex.current /\ saved' = saved
    BY <1>5, PeekWindow DEF TokensInv, Peek
  <2>2. QED
    BY <1>1, <1>2, <2>1 DEF TokensInv, TokenOfText, TokenFrom, IsText
<1>6. CASE Save \/ Restore \/ UNCHANGED lvars
  <2>1. lex' \in {lex, saved} /\ saved' \in {lex, saved}
    BY <1>6 DEF Save, Restore, lvars
  <2>2. TokenOfText(lex'.current) /\ TokenOfText(saved'.current)
    BY <2>1 DEF TokensInv
  <2>3. QED
    BY <1>1, <1>2, <2>2 DEF TokensInv, TokenOfText, TokenFrom, IsText
<1>7. QED
  BY <1>4, <1>5, <1>6 DEF Next

\* The current token, and the one put aside, are always tokens of the text.
LEMMA TokensInvariant == Spec => []TokensInv
BY InitTokens, NextTokens, PTL DEF Spec

\* Of every text the lexer finds the longest tokens, and passes over nothing but blanks and
\* comments in front of them.
THEOREM TokensAreOfText == Spec => []TokensOfText
<1>1. TokensInv => TokensOfText
  <2> SUFFICES ASSUME TokensInv PROVE TokensOfText
    OBVIOUS
  <2> DEFINE t == lex.current
             after == TokenAfter(src, t)
             first == FirstToken(src)
  <2>1. IsText(src) /\ TokenOfText(t)
    BY DEF TokensInv
  <2> HIDE DEF t
  <2>2. IsLongest(t) /\ TokenFrom(t.next, after)
    BY <2>1, AfterIsOfText
  <2>3. TokenFrom(Place(1, 1, 1), first)
    BY <2>1, FirstIsOfText
  <2> HIDE DEF after, first
  <2>4. IsLongest(after) /\ IsGap(t.next.pos, after.start)
    BY <2>1, <2>2, TokenIsBest
  <2>5. IsGap(1, first.start)
    <3>1. Place(1, 1, 1).pos = 1
      BY DEF Place
    <3>2. QED
      BY <2>1, <2>3, <3>1, TokenIsBest
  <2>6. QED
    BY <2>2, <2>4, <2>5 DEF TokensOfText, t, after, first
<1>2. QED
  BY <1>1, TokensInvariant, PTL

\* Of every text each token has the line and the column of its first character, and an
\* operator those of the character behind it.
THEOREM TokensAreLocated == Spec => []Located
<1>1. TokensInv => Located
  <2> SUFFICES ASSUME TokensInv PROVE Located
    OBVIOUS
  <2> DEFINE t == lex.current
             at(place) == IF t.kind = "operator" THEN Behind(place) ELSE Begin(place)
  <2>1. IsText(src) /\ \E place : TokenFrom(place, t)
    BY DEF TokensInv, TokenOfText
  <2>2. PICK place : TokenFrom(place, t)
    BY <2>1
  <2>3. PlaceOK(src, at(place))
    BY <2>1, <2>2, PlacesOK DEF TokenFrom
  <2>4. t.line = at(place).line /\ t.col = at(place).col
        /\ at(place).pos = IF t.kind = "operator" THEN t.next.pos ELSE t.start
    BY <2>2, PartsOfToken DEF TokenFrom
  <2> DEFINE a == at(place)
  <2> HIDE DEF at
  <2>5. /\ a.line = 1 + Cardinality({i \in 1 .. a.pos - 1 : src[i] = "\n"})
        /\ \A i \in 1 .. a.pos - 1 :
             a.col = a.pos - i <=>
               /\ i \in {k \in 1 .. a.pos - 1 : src[k] = "\n"}
               /\ \A j \in {k \in 1 .. a.pos - 1 : src[k] = "\n"} : j <= i
    BY <2>1, <2>3, PlaceIsLocated
  <2>6. QED
    BY <2>4, <2>5 DEF Located
<1>2. QED
  BY <1>1, TokensInvariant, PTL
=============================================================================
