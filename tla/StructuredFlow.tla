--------------------------- MODULE StructuredFlow ---------------------------
(***************************************************************************)
(* What the control statements of the language mean: the order in which    *)
(* the parts of a function are executed, as a continuation - the           *)
(* statements and loops that are still to come, innermost first.           *)
(*                                                                         *)
(* A statement is a record whose `op` says what it is and whose `at` is    *)
(* its place in the program, a path from the root:                         *)
(*   act                    an expression, an assignment, a call           *)
(*   if (then, else)        while, dowhile (body)                          *)
(*   for (body)             all forms of for: init, test, body, incr       *)
(*   forever (body)         for (init; ; incr)                             *)
(*   switch, match (cases)  cases: [default, body, at]                     *)
(*   block, using (body)    break, continue, return, label, goto (name)    *)
(* What is observed is an event: the kind of step, its place, and the      *)
(* number of ways to go on from it.                                        *)
(***************************************************************************)
EXTENDS Naturals, Sequences, SequencesExt

Event(kind, at, ways) == [kind |-> kind, at |-> at, ways |-> ways]

Loops == {"while", "dowhile", "for", "forever"}

\* Frames of a continuation: a statement to do, a loop whose body is running, a
\* loop whose condition is next, a match whose i-th case is next, the end of a using.
Frame(f, s, i) == [frame |-> f, stmt |-> s, case |-> i]
Do(stmts) == [i \in DOMAIN stmts |-> Frame("do", stmts[i], 0)]

Proper(s)   == SelectSeq(s.cases, LAMBDA c : ~c.default)
Default(s)  == FoldLeft(LAMBDA b, c : IF c.default THEN c.body ELSE b, <<>>, s.cases)

\* The lists of statements directly inside s.
Inside(s) ==
  CASE s.op = "if" -> {s.then, s.else}
    [] s.op \in Loops \cup {"block", "using"} -> {s.body}
    [] s.op \in {"switch", "match"} -> {s.cases[i].body : i \in DOMAIN s.cases}
    [] OTHER -> {}

\* What follows label `name` in stmts, given what follows stmts: a set of at most
\* one continuation.
RECURSIVE AfterLabel(_, _, _)
AfterLabel(stmts, name, rest) ==
  UNION {
    LET s  == stmts[i]
        k  == Do(SubSeq(stmts, i + 1, Len(stmts))) \o rest
        in == CASE s.op \in Loops   -> <<Frame("loop", s, 0)>> \o k
                [] s.op = "using"   -> <<Frame("exit", s, 0)>> \o k
                [] OTHER            -> k
    IN  (IF s.op = "label" /\ s.name = name THEN {k} ELSE {})
        \cup UNION {AfterLabel(b, name, in) : b \in Inside(s)}
    : i \in DOMAIN stmts}

\* Leaving the frames of k up to the innermost loop: the end of a using on the way
\* comes first.  Outside a loop break and continue have no effect.
Enclosing(k) == SelectInSeq(k, LAMBDA f : f.frame = "loop")
Leave(jump, k) ==
  LET n == Enclosing(k)
      exits == SelectSeq(SubSeq(k, 1, n), LAMBDA f : f.frame = "exit")
  IN  IF n = 0 THEN k
      ELSE exits \o SubSeq(k, IF jump = "break" THEN n + 1 ELSE n, Len(k))

\* The continuation at its next event: frames that do nothing by themselves are
\* resolved.  body is the function's.
RECURSIVE Settle(_, _)
Settle(body, k) ==
  IF k = <<>> THEN k
  ELSE LET s == Head(k).stmt  rest == Tail(k) IN
    CASE Head(k).frame = "do" /\ s.op = "block"   -> Settle(body, Do(s.body) \o rest)
      [] Head(k).frame = "do" /\ s.op = "label"   -> Settle(body, rest)
      [] Head(k).frame = "do" /\ s.op = "dowhile" ->
           Settle(body, Do(s.body) \o <<Frame("loop", s, 0)>> \o rest)
      [] Head(k).frame = "do" /\ s.op = "match" ->
           Settle(body, <<Frame("case", s, 1)>> \o rest)
      [] Head(k).frame = "do" /\ s.op \in {"break", "continue"} ->
           Settle(body, Leave(s.op, rest))
      [] Head(k).frame = "do" /\ s.op = "goto" ->
           Settle(body, CHOOSE c \in AfterLabel(body, s.name, <<>>) : TRUE)
      [] Head(k).frame = "test" /\ s.op = "forever" ->
           Settle(body, Do(s.body) \o <<Frame("loop", s, 0)>> \o rest)
      [] Head(k).frame = "case" /\ Head(k).case > Len(Proper(s)) ->
           Settle(body, Do(Default(s)) \o rest)
      [] OTHER -> k

NextEvent(k) ==
  IF k = <<>> THEN Event("ret", <<>>, 0)
  ELSE LET f == Head(k)  s == f.stmt
           tested == f.frame = "test" \/ s.op \in {"while", "dowhile", "if"} IN
    CASE tested -> Event("test", s.at, 2)
      [] ~tested /\ f.frame = "loop" -> Event("incr", s.at, 1)
      [] f.frame = "exit"   -> Event("exit", s.at, 1)
      [] f.frame = "case"   -> Event("test", Proper(s)[f.case].at, 2)
      [] s.op = "act"       -> Event("act", s.at, 1)
      [] f.frame = "do" /\ s.op = "using" -> Event("enter", s.at, 1)
      [] s.op = "switch"    -> Event("switch", s.at, Len(Proper(s)) + 1)
      [] s.op = "return"    -> Event("ret", s.at, 0)
      [] OTHER              -> Event("init", s.at, 1)

\* What is left when the next event has gone way w.
Step(k, w) ==
  LET f == Head(k)  s == f.stmt  rest == Tail(k)
      round == Do(s.body) \o <<Frame("loop", s, 0)>> \o rest
      tested == f.frame = "test" \/ s.op \in {"while", "dowhile"}
  IN CASE tested -> IF w = 1 THEN round ELSE rest
       [] ~tested /\ s.op \in {"for", "forever"} -> <<Frame("test", s, 0)>> \o rest
       [] f.frame = "case" ->
            IF w = 1 THEN Do(Proper(s)[f.case].body) \o rest
            ELSE <<Frame("case", s, f.case + 1)>> \o rest
       [] f.frame = "exit" \/ s.op = "act" -> rest
       [] f.frame = "do" /\ s.op = "using" -> Do(s.body) \o <<Frame("exit", s, 0)>> \o rest
       [] s.op = "if"    -> Do(IF w = 1 THEN s.then ELSE s.else) \o rest
       [] s.op = "switch" ->
            Do(IF w <= Len(Proper(s)) THEN Proper(s)[w].body ELSE Default(s)) \o rest
=============================================================================
