------------------------------- MODULE Syntax -------------------------------
(***************************************************************************)
(* Tokens and syntax trees of penguinC (frontend/ast.h, frontend/ast.c),   *)
(* and how a tree is written down: the reference that Parser is compared   *)
(* with.                                                                   *)
(*                                                                         *)
(* A token is its spelling; tokens that the parser treats alike have one   *)
(* representative.  A node has a kind, the tokens of its names, operator   *)
(* and flags, and its children; types of declarations are their names, a   *)
(* sequence of tokens, as in the code.                                     *)
(***************************************************************************)
EXTENDS Naturals, SequencesExt

Names == {"a", "b", "T", "to", "generics", "dispatch", "dynamic"}   \* TOK_IDENT
TypeWords == Names \cup {"int", "const", "struct"}
Literals == {"1", "'s'"}
AssignOps == {"=", "+="}
PrefixOps == {"-", "~", "*", "++", "--"}

\* The binary operators that group to the left, by their level.
Or == 3   And == 4   Comparison == 5   Ranges == 6   Additive == 7   Multiplicative == 8
OpsAt(level) ==
  CASE level = Or             -> {"||"}
    [] level = And            -> {"&&"}
    [] level = Comparison     -> {"==", "<", ">"}
    [] level = Additive       -> {"+", "-"}
    [] level = Multiplicative -> {"*", "/"}
LeftLevels == {Or, And, Comparison, Additive, Multiplicative}

Assignment == 1   Ternary == 2   Power == 9   Unary == 10   Postfix == 11   Primary == 12

Node(kind, text, kids) == [kind |-> kind, text |-> text, kids |-> kids]
Leaf(kind, text) == Node(kind, text, <<>>)
NoNode == Leaf("none", <<>>)
Block(stmts) == Node("block", <<>>, stmts)

-----------------------------------------------------------------------------
\* Sequences of tokens with a comma between them.
Commas(parts) ==
  FoldLeft(LAMBDA s, part : IF s = <<>> THEN part ELSE s \o <<",">> \o part, <<>>, parts)
Optional(condition, ts) == IF condition THEN ts ELSE <<>>

\* The level of an expression: operators bind their operands of a higher level.
LevelOf(e) ==
  CASE e.kind = "assign"  -> Assignment
    [] e.kind = "ternary" -> Ternary
    [] e.kind = "range"   -> Ranges
    [] e.kind = "binary"  ->
         IF e.text = <<"**">> THEN Power ELSE CHOOSE level \in LeftLevels : e.text[1] \in OpsAt(level)
    [] e.kind = "unary"   -> IF e.text[2] = "prefix" THEN Unary ELSE Postfix
    [] e.kind \in {"call", "index", "member", "tuple_field"} -> Postfix
    [] OTHER -> Primary

\* e.to<T>(...): the method to of the member to of e, with T as its first argument.
IsTo(e) == e.kind = "call" /\ Len(e.kids) > 1 /\ e.kids[2].kind = "generic"

-----------------------------------------------------------------------------
\* How a program is written besides: with semicolons and braces wherever they may stand,
\* or without those that may be left out.
Full == [semicolons |-> TRUE, braces |-> TRUE]
Styles == [semicolons : BOOLEAN, braces : BOOLEAN]

\* An expression where one of the given level or a higher one may stand, or a statement.
RECURSIVE Written(_, _, _)
Whole == 0
Expr(e) == Written(e, Assignment, Full)
Stmt(s, style) == Written(s, Whole, style)

ExprText(e, level) ==
  LET W(i, l) == Written(e.kids[i], l, Full)
      List(kids) == Commas([i \in DOMAIN kids |-> Expr(kids[i])])
      own == LevelOf(e)
      bare ==
        CASE e.kind = "assign"  -> W(1, Ternary) \o e.text \o W(2, Assignment)
          [] e.kind = "ternary" ->
               W(1, Or) \o <<"?">> \o W(2, Assignment) \o <<":">> \o W(3, Ternary)
          [] e.kind = "range"   -> W(1, Additive) \o <<"..">> \o W(2, Additive)
          [] e.kind = "binary"  -> IF own = Power
                                     THEN W(1, Unary) \o e.text \o W(2, Power)
                                     ELSE W(1, own) \o e.text \o W(2, own + 1)
          [] e.kind = "unary"   -> IF own = Unary THEN <<e.text[1]>> \o W(1, Unary)
                                                  ELSE W(1, Postfix) \o <<e.text[1]>>
          [] e.kind = "pair"    -> W(1, Primary) \o <<"=">> \o W(2, Assignment)
          [] IsTo(e)            -> Written(e.kids[1].kids[1].kids[1], Postfix, Full) \o <<".", "to", "<">>
                                   \o e.kids[2].text \o <<">", "(">>
                                   \o List(SubSeq(e.kids, 3, Len(e.kids))) \o <<")">>
          [] e.kind = "call" /\ ~IsTo(e) -> W(1, Postfix) \o <<"(">> \o List(Tail(e.kids)) \o <<")">>
          [] e.kind = "index"   -> W(1, Postfix) \o <<"[">> \o W(2, Assignment) \o <<"]">>
          [] e.kind \in {"member", "tuple_field"} -> W(1, Postfix) \o <<".">> \o e.text
          [] e.kind = "tuple"   -> <<"(">> \o List(e.kids) \o <<")">>
          [] e.kind = "array"   -> <<"[">> \o List(e.kids) \o <<"]">>
          [] e.kind = "init"    -> <<"{">> \o List(e.kids) \o <<"}">>
          [] e.kind = "new"     -> <<"new">> \o e.text \o <<"(">> \o List(e.kids) \o <<")">>
          [] e.kind = "sizeof"  -> <<"sizeof", "(">> \o e.text \o <<")">>
          [] e.kind = "super"   -> <<"super", ".">> \o e.text \o <<"(">> \o List(e.kids) \o <<")">>
          [] e.kind = "fstring" ->
               <<"f\"">> \o FlattenSeq([i \in DOMAIN e.kids |->
                   IF e.kids[i].kind = "text" THEN e.kids[i].text
                   ELSE <<"{">> \o W(i, Assignment) \o <<"}">>]) \o <<"\"">>
          [] OTHER -> e.text
  IN  IF own < level THEN <<"(">> \o bare \o <<")">> ELSE bare

-----------------------------------------------------------------------------
Semicolon(style) == Optional(style.semicolons, <<";">>)

\* The modifiers, type and name of a declared variable are its text.
VarDecl(text, init) == Node("var", text, init)
Declared(d) == d.text \o (IF d.kids = <<>> THEN <<>> ELSE <<"=">> \o Expr(d.kids[1]))

Param(p) == p.text
Params(ps) == Commas([i \in DOMAIN ps |-> Param(ps[i])])

RECURSIVE IfElse(_, _)

Body(block, style) ==
  <<"{">> \o FlattenSeq([i \in DOMAIN block.kids |-> Stmt(block.kids[i], style)]) \o <<"}">>

\* A branch of an if, without braces where that is a matter of style: one statement, and
\* not another if.
Branch(block, style) ==
  IF ~style.braces /\ Len(block.kids) = 1 /\ block.kids[1].kind # "if"
    THEN Stmt(block.kids[1], style)
    ELSE Body(block, style)

IfElse(s, style) ==
  LET else == Last(s.kids)
  IN  <<"if">> \o Expr(s.kids[1]) \o Branch(s.kids[2], style)
      \o (IF Len(s.kids) < 3 THEN <<>>
          ELSE <<"else">> \o (IF else.kind = "if" THEN IfElse(else, style) ELSE Branch(else, style)))

\* A case with its body in braces, or after a colon.
Case(c, style) ==
  LET head == <<"case">> \o (IF c.text = <<"default">> THEN <<"*">> ELSE Expr(c.kids[1]))
      body == Body(Last(c.kids), style)
  IN  head \o (IF style.braces THEN body ELSE <<":">> \o SubSeq(body, 2, Len(body) - 1))

Func(f, style) == f.text \o <<"(">> \o Params(Front(f.kids)) \o <<")">> \o Body(Last(f.kids), style)

Member(m, style) == IF m.kind = "func" THEN Func(m, style) ELSE m.text \o Semicolon(style)

\* The name that an import is known by is followed by what it takes from it.
Import(d, style) ==
  <<"#", "import">> \o d.text
  \o FlattenSeq([i \in DOMAIN d.kids |->
       CASE d.kids[i].kind = "submodule" -> <<".">> \o d.kids[i].text
         [] d.kids[i].kind = "wildcard"  -> <<".", "*">>
         [] d.kids[i].kind = "selected"  ->
              <<".", "(">> \o Commas([j \in DOMAIN d.kids[i].text |-> <<d.kids[i].text[j]>>]) \o <<")">>
         [] d.kids[i].kind = "alias"     -> <<"as">> \o d.kids[i].text])
  \o Semicolon(style)

Decorator(d) ==
  <<"@">> \o d.text
  \o (IF d.kids = <<>> THEN <<>>
      ELSE <<"(">> \o Commas([i \in DOMAIN d.kids |-> Expr(d.kids[i])]) \o <<")">>)

\* A statement, or a declaration at the top of a file.
StmtText(s, style) ==
  LET K(i) == s.kids[i]
      end  == Semicolon(style)
      cases == Tail(s.kids)
      MatchCase(c, st) ==
        <<"case">> \o (IF c.text = <<"default">> THEN <<"*">>
                       ELSE IF c.kids[1].kind = "in"
                         THEN Expr(c.kids[1].kids[1]) \o <<"in">> \o Expr(c.kids[1].kids[2])
                         ELSE Expr(c.kids[1])) \o Body(Last(c.kids), st)
      OrNothing(e) == CASE e = NoNode -> <<>> [] e.kind = "var" -> Declared(e) [] OTHER -> Expr(e)
      List(Op(_, _)) == FlattenSeq([i \in DOMAIN s.kids |-> Op(s.kids[i], style)])
      Fields(f, st) == f.text \o Semicolon(st)
      Value(v, st) == Expr(v) \o <<",">>
  IN  CASE s.kind = "return"   -> <<"return">> \o (IF s.kids = <<>> THEN <<>> ELSE Expr(K(1))) \o end
        [] s.kind = "if"       -> IfElse(s, style)
        [] s.kind = "switch"   -> <<"switch", "(">> \o Expr(K(1)) \o <<")", "{">>
                                   \o FlattenSeq([i \in DOMAIN cases |-> Case(cases[i], style)]) \o <<"}">>
        [] s.kind = "match"    -> <<"match", "(">> \o Expr(K(1)) \o <<")", "{">>
                                   \o FlattenSeq([i \in DOMAIN cases |-> MatchCase(cases[i], style)]) \o <<"}">>
        [] s.kind = "for"      -> <<"for">> \o s.text \o <<"in">> \o Expr(K(1)) \o Body(K(2), style)
        [] s.kind = "for_c"    -> <<"for", "(">> \o OrNothing(K(1)) \o <<";">> \o OrNothing(K(2))
                                   \o <<";">> \o OrNothing(K(3)) \o <<")">> \o Body(K(4), style)
        [] s.kind = "while"    -> <<"while">> \o Expr(K(1)) \o Body(K(2), style)
        [] s.kind = "do"       -> <<"do">> \o Body(K(1), style) \o <<"while", "(">> \o Expr(K(2))
                                   \o <<")">> \o end
        [] s.kind = "using"    -> <<"using", "(">> \o Expr(K(1))
                                   \o Optional(s.text # <<>>, <<"as">> \o s.text) \o <<")">> \o Body(K(2), style)
        [] s.kind = "unsafe"   -> <<"unsafe">> \o Body(K(1), style)
        [] s.kind \in {"break", "continue"} -> <<s.kind>> \o end
        [] s.kind = "goto"     -> <<"goto">> \o s.text \o end
        [] s.kind = "label"    -> s.text \o <<":">>
        [] s.kind = "typedef"  -> <<"typedef">> \o s.text \o end
        [] s.kind = "var"      -> Declared(s) \o end
        [] s.kind \in {"struct", "union"} -> <<s.kind>> \o s.text \o <<"{">> \o List(Fields) \o <<"}">>
        [] s.kind = "enum"     -> <<"enum">> \o s.text \o <<"{">> \o List(Value) \o <<"}">>
        [] s.kind = "func"     -> Func(s, style)
        [] s.kind = "class"    -> <<"class">> \o s.text \o <<"{">> \o List(Member) \o <<"}">>
        [] s.kind = "import"   -> Import(s, style)
        [] s.kind = "link"     -> <<"#", "link">> \o s.text \o end
        [] s.kind = "decorated" ->
             FlattenSeq([i \in DOMAIN Front(s.kids) |-> Decorator(s.kids[i])]) \o Stmt(Last(s.kids), style)
        [] OTHER -> Expr(s) \o end

Written(n, level, style) == IF level = Whole THEN StmtText(n, style) ELSE ExprText(n, level)
=============================================================================
