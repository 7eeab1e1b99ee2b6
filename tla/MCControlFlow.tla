--------------------------- MODULE MCControlFlow ---------------------------
\* The programs that are run through ControlFlow.
EXTENDS ControlFlow

Stmt(op, p) == [op |-> op, at |-> p]
Act(p)      == Stmt("act", p)
In(op, p, b)   == [op |-> op, at |-> p, body |-> b]
If(p, b, c)    == [op |-> "if", at |-> p, then |-> b, else |-> c]
Cases(op, p, bs, d) ==
  [op |-> op, at |-> p,
   cases |-> [i \in DOMAIN bs |-> [at |-> p \o <<i>>, body |-> bs[i], default |-> i = d]]]

\* Lists without nesting.
Simple(p) ==
  LET a == Act(p \o <<1>>)
      J(op) == Stmt(op, p \o <<2>>)
  IN  {<<>>, <<a>>, <<a, J("break")>>, <<a, J("continue")>>, <<J("return")>>,
       <<J("break"), Act(p \o <<3>>)>>}

\* One statement around the lists Inner(p).
Around(p, Inner(_), Else(_)) ==
  {In(op, p, b) : op \in {"while", "dowhile", "for", "forever", "block", "using"},
                  b \in Inner(p \o <<1>>)}
  \cup {If(p, b, c) : b \in Inner(p \o <<1>>), c \in Else(p \o <<2>>)}
  \cup {Cases(op, p, <<b, c>>, d) : op \in {"switch", "match"}, d \in {0, 1, 2},
                                    b \in Inner(p \o <<1, 1>>), c \in Else(p \o <<2, 1>>)}

Short(p) == {<<>>, <<Act(p)>>, <<Stmt("break", p)>>}

Then(S, p) == {<<s, Act(p)>> : s \in S}

Nested(p) == Then(Around(p \o <<1>>, Simple, Short), p \o <<2>>)

\* A loop, and in it any statement with simple lists, followed by an action.
Structured ==
  {<< <<In(op, <<1>>, b), Act(<<2>>)>> >> :
      op \in {"while", "dowhile", "for", "forever"}, b \in Nested(<<1>>)}

\* Any statement with a statement in it.
Deep ==
  {<<b>> : b \in Then(Around(<<1>>, Nested, Short), <<2>>)}

\* Two functions with one label each: lists of three pieces, one of which holds
\* the label and two may jump to it; a goto never follows its label directly, as
\* that is a loop without an event.
Goto(l, p)  == [op |-> "goto", at |-> p, name |-> l]
Label(l, p) == [op |-> "label", at |-> p, name |-> l]

Labelled(l, p) ==
  {Label(l, p),
   In("for", p, <<Act(p \o <<1>>), Label(l, p \o <<2>>), Act(p \o <<3>>)>>),
   In("while", p, <<Label(l, p \o <<1>>), Act(p \o <<2>>), Stmt("continue", p \o <<3>>)>>)}

Jumping(l, p) ==
  {Act(p), Goto(l, p), If(p, <<Goto(l, p \o <<1>>)>>, <<>>),
   In("while", p, <<Act(p \o <<1>>), Goto(l, p \o <<2>>)>>)}

Piece(l, p, n) == IF p[2] = n THEN Labelled(l, p) ELSE Jumping(l, p)

WithLabel(l, f) ==
  {b \in UNION {{<<x, y, z>> : x \in Piece(l, <<f, 1>>, n), y \in Piece(l, <<f, 2>>, n),
                               z \in Piece(l, <<f, 3>>, n)} : n \in 1..3} :
     \A i \in 1..2 : ~(b[i].op = "label" /\ b[i + 1].op = "goto")}

Skip(l, f) == <<Goto(l, <<f, 1>>), Act(<<f, 2>>), Label(l, <<f, 3>>)>>

TwoFunctions == {<<Skip("l", 1), b>> : b \in WithLabel("m", 2)}

MCPrograms == {p \in Structured \cup Deep \cup TwoFunctions : Sound(p)}
=============================================================================
