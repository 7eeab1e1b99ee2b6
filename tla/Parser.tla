------------------------------- MODULE Parser -------------------------------
(***************************************************************************)
(* The parser (frontend/parser.c): one operator for each of its functions, *)
(* from a place in the tokens to a node (or a list of nodes) and the place *)
(* behind it.  error_at exits: the place is then 0, where there is no token*)
(* that anything accepts.                                                  *)
(*                                                                         *)
(* The program is written down from a tree (Syntax), or is any sequence of *)
(* tokens; each step parses one declaration of it, as parse_program does.  *)
(***************************************************************************)
EXTENDS Syntax

CONSTANTS
  Families,     \* what is parsed:
  Programs(_)   \* the programs of each family, [source, style, tokens]

VARIABLES
  program,
  pos,       \* the current token
  decls,     \* the declarations of the tree so far
  status     \* "parsing", "accepted" or "rejected"

pvars == <<program, pos, decls, status>>

-----------------------------------------------------------------------------
Result(node, p) == [node |-> node, p |-> p]
Error == Result(NoNode, 0)

Cur(ts, p) == IF p \in DOMAIN ts THEN ts[p] ELSE IF p = 0 THEN "error" ELSE "eof"
Adv(ts, p) == IF p \in DOMAIN ts THEN p + 1 ELSE p
Peek(ts, p) == Cur(ts, Adv(ts, p))
Expect(ts, p, t) == IF Cur(ts, p) = t THEN Adv(ts, p) ELSE 0
ExpectIdent(ts, p) == IF Cur(ts, p) \in Names THEN Adv(ts, p) ELSE 0
Match(ts, p, t) == IF Cur(ts, p) = t THEN Adv(ts, p) ELSE p

\* The node of a result in another one, with the place behind the token t.
Then(ts, r, t, node) == Result(node, Expect(ts, r.p, t))

RECURSIVE
  Parse(_, _, _), TypeArgs(_, _, _), TupleTypes(_, _, _), Stars(_, _, _), LeftRest(_, _, _),
  ListRest(_, _, _), PostfixRest(_, _), FStringParts(_, _, _), ClosingBrace(_, _, _),
  ParseIf(_, _), Items(_, _, _), ParamsRest(_, _), Skip(_, _, _),
  Decorators(_, _), DecoratorArgs(_, _), DottedName(_, _), NamesRest(_, _)

\* The functions that call each other, by a rule: a level of expressions, a list in braces
\* or one of the others.
Type == 0   Statement == 20   CaseBody == 21   TopDecl == 22
Stmts == 13   CaseList == 14   MatchList == 15   FieldList == 16   ValueList == 17   MemberList == 18
ParseType(ts, p) == Parse(Type, ts, p)
ParseExpr(ts, p) == Parse(Assignment, ts, p)
ParseStmt(ts, p) == Parse(Statement, ts, p)
ParseBlock(ts, p) == LET stmts == Parse(Stmts, ts, p) IN Result(Block(stmts.node), stmts.p)

-----------------------------------------------------------------------------
\* type_node_name: the base and the names of the arguments, in one static buffer; the name
\* of an argument that is generic itself is written over what the buffer holds.
TypeName(n) ==
  CASE n.kind = "ident"   -> n.text
    [] n.kind = "generic" ->
         IF \E i \in DOMAIN n.kids : n.kids[i].kind = "generic"
           THEN <<"garbled">>
           ELSE n.text \o <<"<">>
                \o Commas([i \in DOMAIN n.kids |-> IF n.kids[i].kind = "ident" THEN n.kids[i].text ELSE <<>>])
                \o <<">">>
    [] OTHER -> <<>>

\* while (match(TOK_STAR)): the place, and the name with a star for each.
Stars(ts, p, name) ==
  IF Cur(ts, p) = "*" THEN Stars(ts, Adv(ts, p), Append(name, "*")) ELSE Result(name, p)

\* The arguments of a generic type, from behind the < to behind the >.
TypeArgs(ts, p, args) ==
  IF Cur(ts, p) \in {">", "eof", "error"} THEN Then(ts, Result(args, p), ">", args)
  ELSE LET t == ParseType(ts, p)
       IN  IF Cur(ts, t.p) = "," THEN TypeArgs(ts, Adv(ts, t.p), Append(args, t.node))
           ELSE Then(ts, t, ">", Append(args, t.node))

TupleTypes(ts, p, name) ==
  LET t == ParseType(ts, p)
      longer == name \o <<",">> \o TypeName(t.node)
  IN  IF Cur(ts, t.p) = "," THEN TupleTypes(ts, Adv(ts, t.p), longer)
      ELSE Then(ts, t, ")", Append(longer, ")"))

TypeAt(ts, p) ==
  LET next == Adv(ts, p)
      t    == Cur(ts, p)
  IN CASE t = "borrow" ->
            LET inner == ParseType(ts, Match(ts, next, "mut"))
            IN  Result(Node("borrow", <<>>, <<inner.node>>), inner.p)
       [] t = "(" ->
            LET first == ParseType(ts, next)
                tuple == TupleTypes(ts, Adv(ts, first.p), <<"(">> \o TypeName(first.node))
                named == Stars(ts, tuple.p, tuple.node)
            IN  IF Cur(ts, first.p) = "," THEN Result(Leaf("ident", named.node), named.p)
                ELSE Result(first.node, Stars(ts, Expect(ts, first.p, ")"), <<>>).p)
       [] t \in TypeWords ->
            LET dotted == Cur(ts, next) = "." /\ Peek(ts, next) \in Names
                name   == <<t>> \o Optional(dotted, <<".", Peek(ts, next)>>)
                after  == IF dotted THEN Adv(ts, Adv(ts, next)) ELSE next
                args   == TypeArgs(ts, Adv(ts, after), <<>>)
                named  == Stars(ts, after, name)
            IN  IF Cur(ts, after) = "<"
                  THEN Result(Node("generic", name, args.node), Stars(ts, args.p, <<>>).p)
                  ELSE Result(Leaf("ident", named.node), named.p)
       [] OTHER -> Error

-----------------------------------------------------------------------------
\* if (!cur_is(close)) { expression, while match(TOK_COMMA) expression } expect(close)
ListRest(ts, r, close) ==
  LET e == ParseExpr(ts, Adv(ts, r.p))
  IN  IF Cur(ts, r.p) = "," THEN ListRest(ts, Result(Append(r.node, e.node), e.p), close)
      ELSE Then(ts, r, close, r.node)
ExprList(ts, p, close) ==
  LET e == ParseExpr(ts, p)
  IN  IF Cur(ts, p) = close THEN Result(<<>>, Adv(ts, p))
      ELSE ListRest(ts, Result(<<e.node>>, e.p), close)

\* The tokens of an f-string between its quotes.
ClosingBrace(raw, i, depth) ==
  IF i > Len(raw) THEN 0
  ELSE LET d == depth + (CASE raw[i] = "{" -> 1 [] raw[i] = "}" -> 0 - 1 [] OTHER -> 0)
       IN  IF d = 0 THEN i ELSE ClosingBrace(raw, i + 1, d)
FStringParts(raw, i, parts) ==
  LET closing == ClosingBrace(raw, i + 1, 1)
      e == ParseExpr(SubSeq(raw, i + 1, closing - 1), 1)
  IN  CASE i > Len(raw) \/ Cur(raw, i) = "}" -> Result(parts, 1)
        [] raw[i] = "{" -> IF closing = 0 \/ e.p = 0 THEN Error
                           ELSE FStringParts(raw, closing + 1, Append(parts, e.node))
        [] parts # <<>> /\ Last(parts).kind = "text" ->
             FStringParts(raw, i + 1, Append(Front(parts), Leaf("text", Append(Last(parts).text, raw[i]))))
        [] OTHER -> FStringParts(raw, i + 1, Append(parts, Leaf("text", <<raw[i]>>)))
ParseFString(ts, p) ==
  LET quotes == {q \in DOMAIN ts : q > p /\ ts[q] = "\""}
      q == CHOOSE q \in quotes : \A r \in quotes : q <= r
      parts == FStringParts(SubSeq(ts, p + 1, q - 1), 1, <<>>)
  IN  IF quotes = {} \/ parts.p = 0 THEN Error
      ELSE IF Len(parts.node) = 1 /\ parts.node[1].kind = "text"
        THEN Result(Leaf("lit", parts.node[1].text), q + 1)
        ELSE Result(Node("fstring", <<>>, parts.node), q + 1)

ParsePrimary(ts, p) ==
  LET t    == Cur(ts, p)
      next == Adv(ts, p)
      List(kind, close) == LET r == ExprList(ts, next, close) IN Result(Node(kind, <<>>, r.node), r.p)
  IN CASE t \in Literals -> Result(Leaf("lit", <<t>>), next)
       [] t \in Names \cup {"int"} -> Result(Leaf("ident", <<t>>), next)
       [] t = "self" -> Result(Leaf("self", <<t>>), next)
       [] t = "super" ->
            LET args == ExprList(ts, Expect(ts, Adv(ts, Adv(ts, next)), "("), ")")
            IN  IF Cur(ts, next) = "." THEN Result(Node("super", <<Peek(ts, next)>>, args.node), args.p)
                ELSE Result(Leaf("self", <<"self">>), next)
       [] t = "f\"" -> ParseFString(ts, p)
       [] t = "(" ->
            LET e == ParseExpr(ts, next)
                tuple == ListRest(ts, Result(<<e.node>>, e.p), ")")
            IN  IF Cur(ts, e.p) = "," THEN Result(Node("tuple", <<>>, tuple.node), tuple.p)
                ELSE Then(ts, e, ")", e.node)
       [] t = "{" -> List("init", "}")
       [] t = "[" -> List("array", "]")
       [] t = "new" ->
            LET after == Adv(ts, next)
                types == TypeArgs(ts, Adv(ts, after), <<>>)
                generic == Cur(ts, after) = "<"
                args == ExprList(ts, Expect(ts, IF generic THEN types.p ELSE after, "("), ")")
            IN  IF Cur(ts, next) \notin TypeWords THEN Error
                ELSE Result(Node("new", TypeName(IF generic THEN Node("generic", <<Cur(ts, next)>>, types.node)
                                                 ELSE Leaf("ident", <<Cur(ts, next)>>)), args.node), args.p)
       [] t = "sizeof" ->
            LET name == Expect(ts, next, "(")
            IN  IF Cur(ts, name) \notin TypeWords THEN Error
                ELSE Result(Leaf("sizeof", <<Cur(ts, name)>>), Expect(ts, Adv(ts, name), ")"))
       [] OTHER -> Error

\* Calls, members, indices and the ++ and -- that follow a primary expression.  e.to<T>
\* becomes a call with T as its first argument.
PostfixRest(ts, e) ==
  LET t    == Cur(ts, e.p)
      next == Adv(ts, e.p)
      ToOf(x) == Node("member", <<"to">>, <<x>>)
  IN CASE t = "(" ->
            LET args == ExprList(ts, next, ")")
            IN  PostfixRest(ts, Result(Node("call", <<>>, <<e.node>> \o args.node), args.p))
       [] t = "." /\ Cur(ts, next) = "1" ->
            PostfixRest(ts, Result(Node("tuple_field", <<"1">>, <<e.node>>), Adv(ts, next)))
       [] t = "." /\ Cur(ts, next) = "to" /\ Peek(ts, next) = "<" ->
            LET type  == ParseType(ts, Adv(ts, Adv(ts, next)))
                after == Expect(ts, type.p, ">")
                args  == IF Cur(ts, after) = "(" THEN ExprList(ts, Adv(ts, after), ")")
                                                 ELSE Result(<<>>, after)
                call  == Node("call", <<>>, <<ToOf(ToOf(e.node)), Leaf("generic", TypeName(type.node))>>
                                            \o args.node)
            IN  PostfixRest(ts, Result(call, args.p))
       [] t = "." /\ Cur(ts, next) # "eof" ->
            PostfixRest(ts, Result(Node("member", <<Cur(ts, next)>>, <<e.node>>), Adv(ts, next)))
       [] t = "[" ->
            LET index == ParseExpr(ts, next)
            IN  PostfixRest(ts, Then(ts, index, "]", Node("index", <<>>, <<e.node, index.node>>)))
       [] t \in {"++", "--"} ->
            PostfixRest(ts, Result(Node("unary", <<t, "postfix">>, <<e.node>>), next))
       [] t = "." -> Error
       [] OTHER -> e

\* Mutant: the right operand takes the rest of its level.
LeftRestToTheRight(ts, left, level) ==
  LET right == Parse(level, ts, Adv(ts, left.p))
  IN  IF Cur(ts, left.p) \in OpsAt(level)
        THEN Result(Node("binary", <<Cur(ts, left.p)>>, <<left.node, right.node>>), right.p)
        ELSE left

\* left op right op right ...
LeftRest(ts, left, level) ==
  LET op == Cur(ts, left.p)
      right == Parse(level + 1, ts, Adv(ts, left.p))
  IN  IF op \in OpsAt(level)
        THEN LeftRest(ts, Result(Node("binary", <<op>>, <<left.node, right.node>>), right.p), level)
        ELSE left

\* parse_assignment, parse_ternary, parse_or, ..., parse_unary: one level calls the next.
LevelAt(level, ts, p) ==
  LET At(q, l) == Parse(l, ts, q)
      \* One operand, or two with an operator of ops between them.
      Once(l, ops, kind, r) ==
        LET left == At(p, l)
            right == At(Adv(ts, left.p), r)
            op == Cur(ts, left.p)
        IN  IF op \in ops
              THEN Result(Node(kind, IF kind = "range" THEN <<>> ELSE <<op>>, <<left.node, right.node>>), right.p)
              ELSE left
  IN CASE level = Assignment -> Once(Ternary, AssignOps, "assign", Assignment)
       [] level = Ternary ->
            LET cond == At(p, Or)
                yes  == At(Adv(ts, cond.p), Assignment)
                no   == At(Expect(ts, yes.p, ":"), Ternary)
            IN  IF Cur(ts, cond.p) = "?"
                  THEN Result(Node("ternary", <<>>, <<cond.node, yes.node, no.node>>), no.p)
                  ELSE cond
       [] level \in LeftLevels -> LeftRest(ts, At(p, level + 1), level)
       [] level = Ranges -> Once(Additive, {".."}, "range", Additive)
       [] level = Power  -> Once(Unary, {"**"}, "binary", Power)
       [] level = Unary  ->
            LET operand == At(Adv(ts, p), Unary)
            IN  IF Cur(ts, p) \in PrefixOps
                  THEN Result(Node("unary", <<Cur(ts, p), "prefix">>, <<operand.node>>), operand.p)
                  ELSE PostfixRest(ts, ParsePrimary(ts, p))

-----------------------------------------------------------------------------
TypeWord(ts, p) == Cur(ts, p) \in TypeWords     \* is_ident_like_type

\* A statement with or without braces around it: the branch of an if.
Branch1(ts, p) ==
  LET s == ParseStmt(ts, p)
  IN  IF Cur(ts, p) = "{" THEN ParseBlock(ts, p) ELSE Result(Block(<<s.node>>), s.p)

\* A part that may be missing: it is, when the token at its place is one of ends.
ExprOr(ts, p, ends) == IF Cur(ts, p) \in ends THEN Result(NoNode, p) ELSE ParseExpr(ts, p)

\* Skip the tokens of a set.
Skip(ts, p, set) == IF Cur(ts, p) \in set THEN Skip(ts, Adv(ts, p), set) ELSE p

\* Mutant: what follows a statement is skipped.
SemiSkipping(ts, r) == Result(r.node, IF Cur(ts, r.p) = "}" THEN r.p ELSE Adv(ts, r.p))

\* Mutant: the semicolon is expected.
SemiExpected(ts, r) == Result(r.node, Expect(ts, r.p, ";"))

Semi(ts, r) == Result(r.node, Match(ts, r.p, ";"))
InParens(ts, p) == LET e == ParseExpr(ts, Expect(ts, p, "(")) IN Then(ts, e, ")", e.node)

ParseReturn(ts, p) ==
  LET value == ExprOr(ts, Adv(ts, p), {";", "}"})
  IN  Semi(ts, Result(Node("return", <<>>, IF value.node = NoNode THEN <<>> ELSE <<value.node>>), value.p))

ParseIf(ts, p) ==
  LET cond == ParseExpr(ts, Adv(ts, p))
      yes  == Branch1(ts, cond.p)
      after == Adv(ts, yes.p)
      no   == IF Cur(ts, after) = "if" THEN ParseIf(ts, after) ELSE Branch1(ts, after)
  IN  IF Cur(ts, yes.p) = "else"
        THEN Result(Node("if", <<>>, <<cond.node, yes.node, no.node>>), no.p)
        ELSE Result(Node("if", <<>>, <<cond.node, yes.node>>), yes.p)

\* After default, its colon is gone when the body is looked for: only braces will do.
ParseCase(ts, p) ==
  LET default == Cur(ts, p) = "default"
      after == IF default THEN Expect(ts, Adv(ts, p), ":") ELSE Expect(ts, p, "case")
      star  == ~default /\ Cur(ts, after) = "*"
      value == IF default \/ star THEN Result(NoNode, Match(ts, after, "*")) ELSE ParseExpr(ts, after)
      bodyAt == IF default THEN after ELSE value.p
      stmts == Parse(CaseBody, ts, Adv(ts, bodyAt))
      body  == IF Cur(ts, bodyAt) = ":" THEN Result(Block(stmts.node), stmts.p) ELSE ParseBlock(ts, bodyAt)
  IN  IF default \/ star THEN Result(Node("case", <<"default">>, <<body.node>>), body.p)
      ELSE Result(Node("case", <<>>, <<value.node, body.node>>), body.p)

ParseMatchCase(ts, p) ==
  LET after == Expect(ts, p, "case")
      star  == Cur(ts, after) = "*"
      first == ParseExpr(ts, after)
      range == ParseExpr(ts, Adv(ts, first.p))
      pattern == IF Cur(ts, first.p) = "in"
                   THEN Result(Node("in", <<>>, <<first.node, range.node>>), range.p) ELSE first
      body  == ParseBlock(ts, IF star THEN Adv(ts, after) ELSE pattern.p)
  IN  IF star THEN Result(Node("case", <<"default">>, <<body.node>>), body.p)
      ELSE Result(Node("case", <<>>, <<pattern.node, body.node>>), body.p)

\* parse_switch and parse_match.
ParseCases(ts, p, kind, list) ==
  LET e == InParens(ts, Adv(ts, p))
      cases == Parse(list, ts, e.p)
  IN  Result(Node(kind, <<>>, <<e.node>> \o cases.node), cases.p)

\* [=] value, behind the name of a variable.
Declare(ts, p, text) ==
  LET name == ExpectIdent(ts, p)
      init == ParseExpr(ts, Adv(ts, name))
      declared == Append(text, Cur(ts, p))
  IN  IF Cur(ts, name) = "=" THEN Result(VarDecl(declared, <<init.node>>), init.p)
      ELSE Result(VarDecl(declared, <<>>), name)
\* [shared] [mut] type name [= value]
ParseVar(ts, p) ==
  LET mut  == Match(ts, p, "shared")
      type == ParseType(ts, Match(ts, mut, "mut"))
      flags == Optional(mut # p, <<"shared">>) \o Optional(Cur(ts, mut) = "mut", <<"mut">>)
  IN  Declare(ts, type.p, flags \o TypeName(type.node))

\* parse_for, parse_for_c_style: an initialisation that begins with a word that may be a
\* type is a declaration.
ParseFor(ts, p) ==
  LET open == Adv(ts, p)
      isDecl == Cur(ts, Adv(ts, open)) \in TypeWords \cup {"shared", "mut"}
      init == IF isDecl THEN ParseVar(ts, Adv(ts, open)) ELSE ExprOr(ts, Adv(ts, open), {";"})
      cond == ExprOr(ts, Expect(ts, init.p, ";"), {";"})
      update == ExprOr(ts, Expect(ts, cond.p, ";"), {")"})
      body == ParseBlock(ts, Expect(ts, update.p, ")"))
      iter == ParseExpr(ts, Expect(ts, ExpectIdent(ts, open), "in"))
      block == ParseBlock(ts, iter.p)
  IN  IF Cur(ts, open) = "("
        THEN Result(Node("for_c", <<>>, <<init.node, cond.node, update.node, body.node>>), body.p)
        ELSE Result(Node("for", <<Cur(ts, open)>>, <<iter.node, block.node>>), block.p)

ParseWhile(ts, p) ==
  LET cond == ParseExpr(ts, Adv(ts, p))
      body == ParseBlock(ts, cond.p)
  IN  Result(Node("while", <<>>, <<cond.node, body.node>>), body.p)

ParseDoWhile(ts, p) ==
  LET body == ParseBlock(ts, Adv(ts, p))
      cond == InParens(ts, Expect(ts, body.p, "while"))
  IN  Semi(ts, Result(Node("do", <<>>, <<body.node, cond.node>>), cond.p))

ParseUsing(ts, p) ==
  LET resource == ParseExpr(ts, Expect(ts, Adv(ts, p), "("))
      named == Cur(ts, resource.p) = "as"
      name  == Adv(ts, resource.p)
      body  == ParseBlock(ts, Expect(ts, IF named THEN ExpectIdent(ts, name) ELSE resource.p, ")"))
  IN  Result(Node("using", Optional(named, <<Cur(ts, name)>>), <<resource.node, body.node>>), body.p)

ParseUnsafe(ts, p) ==
  LET body == ParseBlock(ts, Adv(ts, p)) IN Result(Node("unsafe", <<>>, <<body.node>>), body.p)

ParseTypedef(ts, p) ==
  LET type == ParseType(ts, Adv(ts, p))
  IN  Semi(ts, Result(Leaf("typedef", Append(TypeName(type.node), Cur(ts, type.p))), ExpectIdent(ts, type.p)))

-----------------------------------------------------------------------------
ParseField(ts, p) ==
  LET type == ParseType(ts, p)
  IN  Semi(ts, Result(VarDecl(Append(TypeName(type.node), Cur(ts, type.p)), <<>>), ExpectIdent(ts, type.p)))

ParseEnumValue(ts, p) ==
  LET name  == ExpectIdent(ts, p)
      value == ParseExpr(ts, Adv(ts, name))
      ident == Leaf("ident", <<Cur(ts, p)>>)
      r == IF Cur(ts, name) = "=" THEN Result(Node("pair", <<>>, <<ident, value.node>>), value.p)
           ELSE Result(ident, name)
  IN  Result(r.node, Match(ts, r.p, ","))

\* parse_struct_decl, parse_union_decl and parse_enum_decl.
ParseFields(ts, p, kind, list) ==
  LET name  == Adv(ts, p)
      items == Parse(list, ts, ExpectIdent(ts, name))
  IN  Semi(ts, Result(Node(kind, <<Cur(ts, name)>>, items.node), items.p))

ParseParam(ts, p) ==
  LET type == ParseType(ts, Match(ts, p, "borrow"))
      text == Optional(Cur(ts, p) = "borrow", <<"borrow">>) \o TypeName(type.node)
  IN  Result(Leaf("param", Append(text, Cur(ts, type.p))), ExpectIdent(ts, type.p))
ParamsRest(ts, r) ==
  LET param == ParseParam(ts, Adv(ts, r.p))
  IN  IF Cur(ts, r.p) = "," THEN ParamsRest(ts, Result(Append(r.node, param.node), param.p)) ELSE r
ParseParamList(ts, p) ==
  LET first == ParseParam(ts, p)
  IN  IF Cur(ts, p) = ")" THEN Result(<<>>, p) ELSE ParamsRest(ts, Result(<<first.node>>, first.p))

\* A method, whose name may be any token and whose first parameter is self, or a field.
ParseMember(ts, p) ==
  LET type == ParseType(ts, p)
      text == Append(TypeName(type.node), Cur(ts, type.p))
      open == Adv(ts, type.p)
      self == Expect(ts, Adv(ts, open), "self")
      params == ParseParamList(ts, Match(ts, self, ","))
      body == ParseBlock(ts, Expect(ts, params.p, ")"))
      method == Node("func", text, <<Leaf("param", <<"self">>)>> \o params.node \o <<body.node>>)
  IN  IF ~TypeWord(ts, p) THEN Error
      ELSE IF Cur(ts, open) = "(" THEN Result(method, body.p)
      ELSE Semi(ts, Result(VarDecl(text, <<>>), open))

\* The fields and the methods of a class are kept in two lists.
ParseClass(ts, p) ==
  LET name == Adv(ts, p)
      after == ExpectIdent(ts, name)
      parent == Adv(ts, after)
      extends == Cur(ts, after) = "extends"
      members == Parse(MemberList, ts, IF extends THEN ExpectIdent(ts, parent) ELSE after)
      Of(kind) == SelectSeq(members.node, LAMBDA m : m.kind = kind)
  IN  Result(Node("class", <<Cur(ts, name)>> \o Optional(extends, <<"extends", Cur(ts, parent)>>),
                  Of("var") \o Of("func")), members.p)

ParseFunc(ts, p) ==
  LET type == ParseType(ts, p)
      params == ParseParamList(ts, Expect(ts, ExpectIdent(ts, type.p), "("))
      body == ParseBlock(ts, Expect(ts, params.p, ")"))
  IN  Result(Node("func", Append(TypeName(type.node), Cur(ts, type.p)), params.node \o <<body.node>>), body.p)

-----------------------------------------------------------------------------
Modifiers == {"static", "const"}

\* A declaration whose type is in parentheses or has a module's name in front, or an
\* expression.
ParseTupleVarOrExpr(ts, p) ==
  LET type  == ParseType(ts, p)
      third == Adv(ts, Adv(ts, p))
      dotted == Peek(ts, p) = "." /\ Cur(ts, third) \in Names /\ Peek(ts, third) \in Names \cup {"*"}
  IN CASE Cur(ts, p) = "(" ->
            IF type.p = 0 THEN Error
            ELSE IF Cur(ts, type.p) \in Names THEN ParseVar(ts, p) ELSE ParseExpr(ts, p)
       [] TypeWord(ts, p) /\ dotted -> ParseVar(ts, p)
       [] OTHER -> ParseExpr(ts, p)

\* parse_var_decl_or_expr: what begins like a declaration is tried as one.  The type is not
\* given back when no name follows it, except in parentheses.
ParseVarOrExpr(ts, start) ==
  LET p == Skip(ts, start, Modifiers)
      name  == Adv(ts, Match(ts, Adv(ts, p), "mut"))
      value == ParseExpr(ts, Expect(ts, name, "="))
      borrowed == <<"borrow">> \o Optional(Peek(ts, p) = "mut", <<"mut">>)
      type  == ParseType(ts, p)
  IN CASE Cur(ts, p) = "typedef" -> ParseTypedef(ts, p)
       [] Cur(ts, p) \in {"shared", "mut"} -> Semi(ts, ParseVar(ts, p))
       [] Cur(ts, p) = "borrow" ->
            IF Cur(ts, Match(ts, Adv(ts, p), "mut")) \notin Names THEN Error
            ELSE Semi(ts, Result(VarDecl(Append(borrowed, Cur(ts, Match(ts, Adv(ts, p), "mut"))),
                                         <<value.node>>), value.p))
       [] TypeWord(ts, p) /\ Peek(ts, p) \in Names \cup {"*", "<"} ->
            Semi(ts, IF Cur(ts, type.p) \in Names THEN ParseVar(ts, p) ELSE ParseTupleVarOrExpr(ts, type.p))
       [] OTHER -> Semi(ts, ParseTupleVarOrExpr(ts, p))

StmtAt(ts, p) ==
  LET t == Cur(ts, p)
      next == Adv(ts, p)
  IN CASE t \in Names /\ Cur(ts, next) = ":" -> Result(Leaf("label", <<t>>), Adv(ts, next))
       [] t = "return" -> ParseReturn(ts, p)
       [] t = "if"     -> ParseIf(ts, p)
       [] t = "switch" -> ParseCases(ts, p, "switch", CaseList)
       [] t = "match"  -> ParseCases(ts, p, "match", MatchList)
       [] t = "for"    -> ParseFor(ts, p)
       [] t = "while"  -> ParseWhile(ts, p)
       [] t = "do"     -> ParseDoWhile(ts, p)
       [] t = "using"  -> ParseUsing(ts, p)
       [] t = "unsafe" -> ParseUnsafe(ts, p)
       [] t \in {"struct", "union"} -> ParseFields(ts, p, t, FieldList)
       [] t = "enum"   -> ParseFields(ts, p, "enum", ValueList)
       [] t = "class"  -> ParseClass(ts, p)
       [] t \in {"break", "continue"} -> Semi(ts, Result(Leaf(t, <<>>), next))
       [] t = "goto"   -> Semi(ts, Result(Leaf("goto", <<Cur(ts, next)>>), ExpectIdent(ts, next)))
       [] OTHER        -> ParseVarOrExpr(ts, p)

\* while (!cur_is(TOK_RBRACE) && !cur_is(TOK_EOF)) ...
Items(ts, r, list) ==
  LET item ==
        CASE list \in {Stmts, CaseBody} -> ParseStmt(ts, r.p)
          [] list = CaseList   -> ParseCase(ts, r.p)
          [] list = MatchList  -> ParseMatchCase(ts, r.p)
          [] list = FieldList  -> ParseField(ts, r.p)
          [] list = ValueList  -> ParseEnumValue(ts, r.p)
          [] list = MemberList -> ParseMember(ts, r.p)
      ends == {"}", "eof", "error"} \cup (IF list = CaseBody THEN {"case", "default"} ELSE {})
  IN  IF Cur(ts, r.p) \in ends THEN r
      ELSE Items(ts, Result(Append(r.node, item.node), item.p), list)

\* The statements, cases, fields or members between braces.
Braced(ts, r) == Then(ts, r, "}", r.node)

-----------------------------------------------------------------------------
\* parse_dotted_name: from the last name of it.
DottedName(ts, r) ==
  LET dot == Adv(ts, r.p)
  IN  IF Cur(ts, r.p) = "." /\ Cur(ts, dot) \in Names
        THEN DottedName(ts, Result(r.node \o <<".", Cur(ts, dot)>>, Adv(ts, dot)))
        ELSE r

NamesRest(ts, r) ==
  LET name == Adv(ts, r.p)
  IN  IF Cur(ts, r.p) = ","
        THEN NamesRest(ts, Result(Append(r.node, Cur(ts, name)), ExpectIdent(ts, name)))
        ELSE Then(ts, r, ")", r.node)

\* The import node so far with one more part.
With(r, part, p) == Result([r.node EXCEPT !.kids = Append(@, part)], p)

\* as alias
ImportAlias(ts, r) ==
  LET alias == Adv(ts, r.p)
  IN  IF Cur(ts, r.p) = "as" THEN With(r, Leaf("alias", <<Cur(ts, alias)>>), ExpectIdent(ts, alias)) ELSE r

\* [.](name, name)
ImportSelected(ts, r, open) ==
  LET first == Adv(ts, open)
      names == IF Cur(ts, first) = ")" THEN Result(<<>>, Adv(ts, first))
               ELSE NamesRest(ts, Result(<<Cur(ts, first)>>, ExpectIdent(ts, first)))
  IN  IF Cur(ts, open) = "(" THEN With(r, Leaf("selected", names.node), names.p)
      ELSE Result(r.node, open)

\* .* and then the others
ImportNames(ts, r) ==
  LET wild == IF Cur(ts, r.p) = "." /\ Peek(ts, r.p) = "*"
                THEN With(r, Leaf("wildcard", <<>>), Adv(ts, Adv(ts, r.p))) ELSE r
      Rest(w) == ImportSelected(ts, w, IF Cur(ts, w.p) = "." /\ Peek(ts, w.p) = "(" THEN Adv(ts, w.p) ELSE w.p)
  IN  Semi(ts, ImportAlias(ts, Rest(wild)))

\* A name behind a path is a submodule only before one of a few tokens; before others it is
\* part of the path, and its spelling is read after it was freed.
ImportSubmodule(ts, r) ==
  LET sub == Adv(ts, r.p)
      joined == DottedName(ts, Result(<<>>, r.p))
  IN  IF Cur(ts, r.p) # "." \/ Cur(ts, sub) \notin Names THEN r
      ELSE IF Peek(ts, sub) \in {"as", ".", "(", ";", "eof"}
        THEN With(r, Leaf("submodule", <<Cur(ts, sub)>>), Adv(ts, sub))
        ELSE Result([r.node EXCEPT !.text = @ \o <<".", "freed">> \o Tail(Tail(joined.node))], joined.p)

\* parse_import_directive, up to the reading of the module (Headers).
ParseImport(ts, p) ==
  LET name == DottedName(ts, Result(<<Cur(ts, p)>>, ExpectIdent(ts, p)))
  IN CASE Cur(ts, p) = "'s'" -> ImportNames(ts, ImportSubmodule(ts, Result(Leaf("import", <<"'s'">>), Adv(ts, p))))
       [] Cur(ts, p) \in Names -> ImportNames(ts, Result(Leaf("import", name.node), name.p))
       [] OTHER -> Error

ParseLink(ts, p) ==
  Semi(ts, Result(Leaf("link", <<Cur(ts, p)>>), Expect(ts, p, "'s'")))

\* The arguments of a decorator: key = value, or an expression.
DecoratorArgs(ts, r) ==
  LET key == Cur(ts, r.p) \in Names /\ Peek(ts, r.p) = "="
      at  == Adv(ts, Adv(ts, r.p))
      value == IF Cur(ts, at) \in Names \cup {"static"} THEN Result(Leaf("ident", <<Cur(ts, at)>>), Adv(ts, at))
               ELSE ParseExpr(ts, at)
      arg == IF key THEN Result(Node("pair", <<>>, <<Leaf("ident", <<Cur(ts, r.p)>>), value.node>>), value.p)
             ELSE ParseExpr(ts, r.p)
      args == Append(r.node, arg.node)
  IN  IF Cur(ts, r.p) \in {")", "eof", "error"} THEN Then(ts, r, ")", r.node)
      ELSE IF Cur(ts, arg.p) = "," THEN DecoratorArgs(ts, Result(args, Adv(ts, arg.p)))
      ELSE Then(ts, arg, ")", args)
ParseDecorator(ts, p) ==
  LET name  == Adv(ts, p)
      after == ExpectIdent(ts, name)
      args  == IF Cur(ts, after) = "(" THEN DecoratorArgs(ts, Result(<<>>, Adv(ts, after)))
               ELSE Result(<<>>, after)
  IN  Result(Node("decorator", <<Cur(ts, name)>>, args.node), args.p)
Decorators(ts, r) ==
  LET d == ParseDecorator(ts, r.p)
  IN  IF Cur(ts, r.p) = "@" THEN Decorators(ts, Result(Append(r.node, d.node), d.p)) ELSE r

\* The type parameters and the dispatch that @generics gives a function or a class: the
\* last such decorator counts, and an argument that is no name is called T.
Generics(decorators) ==
  LET those == SelectSeq(decorators, LAMBDA d : d.text = <<"generics">>)
      args  == Last(those).kids
      isDispatch(a) == a.kind = "pair" /\ a.kids[1].text = <<"dispatch">>
      names == SelectSeq(args, LAMBDA a : ~isDispatch(a))
      modes == SelectSeq(args, isDispatch)
      dynamic == \E i \in DOMAIN modes : modes[i].kids[2] = Leaf("ident", <<"dynamic">>)
  IN  IF those = <<>> THEN <<>>
      ELSE [i \in DOMAIN names |-> IF names[i].kind = "ident" THEN names[i].text[1] ELSE "T"]
           \o <<IF dynamic THEN "dynamic" ELSE "static">>

ParseDecorated(ts, p) ==
  LET ds   == Decorators(ts, Result(<<>>, p))
      decl == Parse(TopDecl, ts, ds.p)
      generics == IF decl.node.kind = "struct" THEN <<>> ELSE Generics(ds.node)
  IN  IF decl.node.kind \notin {"func", "struct", "class"} THEN Error
      ELSE Result(Node("decorated", generics, Append(ds.node, decl.node)), decl.p)

\* parse_top_level: a type and a name are a variable before =, ; or , and a function
\* otherwise; the type is one token, or in parentheses.
TopLevelAt(ts, start) ==
  LET t == Cur(ts, start)
      next == Adv(ts, start)
      p == Skip(ts, start, {"static"})
      name  == Adv(ts, p)
      type  == ParseType(ts, p)
      isVar == Cur(ts, name) \in Names /\ Peek(ts, name) \in {"=", ";", ","}
      named == Cur(ts, type.p) \in Names
  IN CASE t = "@" -> ParseDecorated(ts, start)
       [] t = "#" /\ Cur(ts, next) = "import" -> ParseImport(ts, Adv(ts, next))
       [] t = "#" /\ Cur(ts, next) = "link"   -> ParseLink(ts, Adv(ts, next))
       [] t \in {"struct", "union"} -> ParseFields(ts, start, t, FieldList)
       [] t = "enum"    -> ParseFields(ts, start, "enum", ValueList)
       [] t = "class"   -> ParseClass(ts, start)
       [] t = "typedef" -> ParseTypedef(ts, start)
       [] t \in {"shared", "mut"} -> Semi(ts, ParseVar(ts, start))
       [] t # "struct" /\ TypeWord(ts, p) /\ isVar  -> Semi(ts, ParseVar(ts, p))
       [] t # "struct" /\ TypeWord(ts, p) /\ ~isVar -> ParseFunc(ts, p)
       [] Cur(ts, p) = "(" /\ named /\ Peek(ts, type.p) = "(" -> ParseFunc(ts, p)
       [] Cur(ts, p) = "(" /\ named /\ Peek(ts, type.p) \in {"=", ";"} -> Semi(ts, ParseVar(ts, p))
       [] OTHER -> Error

Parse(rule, ts, p) ==
  CASE rule = Type      -> TypeAt(ts, p)
    [] rule = Statement -> StmtAt(ts, p)
    [] rule = TopDecl   -> TopLevelAt(ts, p)
    [] rule = CaseBody  -> Items(ts, Result(<<>>, p), CaseBody)
    [] rule \in Stmts .. MemberList -> Braced(ts, Items(ts, Result(<<>>, Expect(ts, p, "{")), rule))
    [] OTHER            -> LevelAt(rule, ts, p)

-----------------------------------------------------------------------------
Init ==
  /\ \E family \in Families : program \in Programs(family)
  /\ pos = 1
  /\ decls = <<>>
  /\ status = "parsing"

\* parse_program puts the next declaration in the tree, or error_at exits.
ParseDecl(decl) ==
  /\ decl.p # 0
  /\ pos' = decl.p
  /\ decls' = Append(decls, decl.node)
  /\ UNCHANGED <<program, status>>

Reject(decl) ==
  /\ decl.p = 0
  /\ status' = "rejected"
  /\ UNCHANGED <<program, pos, decls>>

ParseTopLevel ==
  /\ status = "parsing"
  /\ pos <= Len(program.tokens)
  /\ \E decl \in {Parse(TopDecl, program.tokens, pos)} : ParseDecl(decl) \/ Reject(decl)

Accept ==
  /\ status = "parsing"
  /\ pos > Len(program.tokens)
  /\ status' = "accepted"
  /\ UNCHANGED <<program, pos, decls>>

Next == ParseTopLevel \/ Accept
Spec == Init /\ [][Next]_pvars /\ WF_pvars(Next)

-----------------------------------------------------------------------------
\* The blocks in a tree, and those of its nodes that are statements.
RECURSIVE Blocks(_)
Blocks(n) ==
  (IF n.kind = "block" THEN {n} ELSE {}) \cup UNION {Blocks(n.kids[i]) : i \in DOMAIN n.kids}

FirstToken(s) == Cur(Stmt(s, Full), 1)
\* An expression statement that begins like a declaration.
LooksDeclared(s) ==
  \E ts \in {Stmt(s, Full)} :
      /\ s.kind # "var"
      /\ \/ ts[1] = "("
         \/ ts[1] \in TypeWords /\ ts[2] \in {"*", "<"}
         \/ ts[1] \in TypeWords /\ ts[2] = "." /\ Len(ts) > 3 /\ ts[3] \in Names /\ ts[4] = "*"
\* The initialisation of a for that is an expression but begins with a name.
InitByName(s) == s.kind = "for_c" /\ s.kids[1].kind \notin {"none", "var"} /\ FirstToken(s.kids[1]) \in TypeWords

\* A case whose value begins with a star, as the default does.
CaseByStar(s) ==
  /\ s.kind \in {"switch", "match"}
  /\ \E i \in 2 .. Len(s.kids) :
       s.kids[i].text = <<>> /\ FirstToken(IF s.kids[i].kids[1].kind = "in" THEN s.kids[i].kids[1].kids[1]
                                                                      ELSE s.kids[i].kids[1]) = "*"

\* What the parser takes for something else.
Misleading(n) ==
  \E b \in Blocks(n) : \E i \in DOMAIN b.kids :
    LooksDeclared(b.kids[i]) \/ InitByName(b.kids[i]) \/ CaseByStar(b.kids[i])

\* An expression at the end of a statement goes on with one of these.
Joins == {"(", "[", "*", "-", ".", "++", "--"}
EndsInExpr(s) ==
  \/ s.kind \in {"return", "var"} /\ s.kids # <<>>
  \/ LevelOf(s) < Primary \/ s.kind \in {"ident", "lit"}
IsPath(s) == s.kind = "ident" \/ (s.kind = "member" /\ s.kids[1].kind = "ident")
Joined(s, t) ==
  \/ EndsInExpr(s) /\ FirstToken(t) \in Joins
  \/ s = Leaf("return", <<>>)
  \/ IsPath(s) /\ FirstToken(t) \in Names
\* A return without a value, in front of what is no statement.
BareReturn(stmts) == stmts # <<>> /\ Last(stmts) = Leaf("return", <<>>)
\* Without semicolons or braces a part of n would be taken for a part of what is before it.
Ambiguous(n) ==
  \E b \in Blocks(n) : \E i \in DOMAIN b.kids :
    LET s == b.kids[i]
        bodies == {s.kids[j] : j \in 2 .. Len(s.kids)}
        caseBodies == {Last(s.kids[j].kids) : j \in 2 .. Len(s.kids)}
    IN  \/ i < Len(b.kids) /\ Joined(s, b.kids[i + 1])
        \/ /\ s.kind = "if"
           /\ \E body \in bodies : /\ body.kind = "block" /\ Len(body.kids) = 1
                                   /\ \/ FirstToken(body.kids[1]) \in Joins \cup {"{"}
                                      \/ BareReturn(body.kids)
        \/ s.kind = "switch" /\ \E body \in caseBodies : BareReturn(body.kids)

\* The same for the declarations of a program.
DeclsAmbiguous ==
  \E i \in DOMAIN program.source :
    LET d == program.source[i]
        next == IF i = Len(program.source) THEN "eof" ELSE FirstToken(program.source[i + 1])
    IN  \/ d.kind = "var" /\ d.kids = <<>> /\ d.text[1] \notin {"shared", "mut"}
        \/ d.kind \in {"var", "import"} /\ next = "("
        \/ d.kind = "import" /\ d.kids # <<>> /\ Last(d.kids).kind = "submodule" /\ next # "eof"

Finished == status # "parsing"
AsWritten == status = "accepted" /\ decls = program.source
IsWritten == program.source # <<>>
InSource(Bad(_)) == \E i \in DOMAIN program.source : Bad(program.source[i])

\* A program that is written down from a tree, with all semicolons and braces, is parsed to
\* that tree: operators bind and group as their levels say, in every place an expression may
\* have.  Not so for statements that look like declarations to parse_var_decl_or_expr.
RoundTrip ==
  Finished /\ IsWritten /\ program.style = Full /\ ~InSource(Misleading) => AsWritten

\* Leaving out semicolons, and the braces of branches and cases, changes nothing, unless the
\* next statement begins with a token that the expression in front of it can go on with
\* (match(TOK_SEMICOLON) in parse_return, parse_var_decl_or_expr and the others).
SemicolonsOptional ==
  Finished /\ IsWritten /\ program.style # Full /\ ~InSource(Misleading)
    /\ ~InSource(Ambiguous) /\ ~DeclsAmbiguous => AsWritten

\* The names and literals in a sequence of tokens, and in a tree.
Words(ts) == Len(SelectSeq(ts, LAMBDA t : t \in Names \cup Literals \cup {"int"}))
RECURSIVE WordsIn(_)
WordsIn(n) == Words(n.text) + FoldLeft(LAMBDA sum, kid : sum + WordsIn(kid), 0, n.kids)

WordsOfTree == FoldLeft(LAMBDA sum, decl : sum + WordsIn(decl), 0, decls)

\* A statement of the program that begins with a name and a star or <, as a type does.
BeginsLikeType ==
  \E i \in 1 .. Len(program.tokens) - 1 :
    /\ program.tokens[i] \in TypeWords
    /\ program.tokens[i + 1] \in {"*", "<"}
    /\ program.tokens[i - 1] \notin {"*", "=", "-", "<", "(", ",", "."}

\* No name or literal of an accepted program is missing in the tree, whatever the tokens
\* are: no path through the parser skips what it has read.
NothingLost ==
  status = "accepted" /\ ~BeginsLikeType => WordsOfTree = Words(program.tokens)
=============================================================================
