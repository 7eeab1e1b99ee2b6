---------------------------- MODULE TokenCursor ----------------------------
(***************************************************************************)
(* What the parser is promised of the lexer's interface (frontend/lexer.h):*)
(* a cursor over the tokens of a text, which can be marked and put back.   *)
(* Looking ahead does not move it.                                         *)
(***************************************************************************)
CONSTANTS
  Texts,
  First(_),      \* the first token of a text
  After(_, _)    \* the token behind a token

VARIABLES text, token, mark

Init ==
  /\ text \in Texts
  /\ token = First(text)
  /\ mark = First(text)

Advance ==
  /\ token' = After(text, token)
  /\ UNCHANGED <<text, mark>>

Mark ==
  /\ mark' = token
  /\ UNCHANGED <<text, token>>

PutBack ==
  /\ token' = mark
  /\ UNCHANGED <<text, mark>>

Next == Advance \/ Mark \/ PutBack
Spec == Init /\ [][Next]_<<text, token, mark>>
=============================================================================
