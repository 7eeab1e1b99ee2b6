------------------------------ MODULE MCParser ------------------------------
EXTENDS Parser

CONSTANTS
  Alphabet,  \* the tokens of the family "tokens",
  MaxTokens  \* and how many of them there are between the braces of a function

a == Leaf("ident", <<"a">>)
b == Leaf("ident", <<"b">>)
one == Leaf("lit", <<"1">>)

\* Every operator, applied to x and y.
Built(x, y) ==
  {Node("binary", <<op>>, <<x, y>>) : op \in {"||", "&&", "==", "+", "-", "*", "**"}} \cup
  {Node("assign", <<"=">>, <<x, y>>), Node("ternary", <<>>, <<x, y, one>>),
   Node("ternary", <<>>, <<one, x, y>>), Node("range", <<>>, <<x, y>>),
   Node("call", <<>>, <<x, y>>), Node("index", <<>>, <<x, y>>), Node("member", <<"b">>, <<x>>),
   Node("tuple_field", <<"1">>, <<x>>), Node("tuple", <<>>, <<x, y>>),
   Node("array", <<>>, <<x, y>>), Node("init", <<>>, <<x>>), Node("new", <<"T">>, <<x, y>>),
   Node("super", <<"b">>, <<x>>), Leaf("sizeof", <<"T">>), Leaf("self", <<"self">>),
   Node("call", <<>>, <<Node("member", <<"to">>, <<Node("member", <<"to">>, <<x>>)>>),
                        Leaf("generic", <<"int">>), y>>)} \cup
  {Node("unary", <<op, "prefix">>, <<x>>) : op \in {"-", "*", "++"}} \cup
  {Node("unary", <<"++", "postfix">>, <<x>>)} \cup
  {Node("fstring", <<>>, <<Leaf("text", <<"to">>), e>>) : e \in {z \in {x} : z.kind # "fstring"}}

Simple == Built(a, one)
Nested == UNION {Built(e, b) : e \in Simple} \cup UNION {Built(b, e) : e \in Simple}

-----------------------------------------------------------------------------
\* Every statement, with e as its expression and body as its block.
Return(e) == Node("return", <<>>, <<e>>)
Default(body) == Node("case", <<"default">>, <<body>>)
Statements(e, body) ==
  {e, Return(e), VarDecl(<<"mut", "int", "b">>, <<e>>), VarDecl(<<"T", "*", "b">>, <<e>>),
   VarDecl(<<"T", "<", "int", ">", "b">>, <<e>>), VarDecl(<<"T", ".", "a", "b">>, <<e>>),
   VarDecl(<<"(", "int", ",", "T", "*", ")", "b">>, <<e>>), VarDecl(<<"borrow", "mut", "b">>, <<e>>),
   VarDecl(<<"shared", "T", "b">>, <<>>),
   Node("if", <<>>, <<e, body>>), Node("if", <<>>, <<e, body, body>>),
   Node("if", <<>>, <<a, body, Node("if", <<>>, <<e, body>>)>>),
   Node("while", <<>>, <<e, body>>), Node("do", <<>>, <<body, e>>),
   Node("for", <<"a">>, <<e, body>>), Node("for_c", <<>>, <<NoNode, NoNode, e, body>>),
   Node("for_c", <<>>, <<VarDecl(<<"mut", "int", "b">>, <<one>>), e, NoNode, body>>),
   Node("for_c", <<>>, <<e, NoNode, NoNode, body>>),
   Node("using", <<"b">>, <<e, body>>), Node("using", <<>>, <<e, body>>), Node("unsafe", <<>>, <<body>>),
   Node("switch", <<>>, <<e, Node("case", <<>>, <<one, body>>), Node("case", <<>>, <<e, body>>),
                          Default(body)>>),
   Node("match", <<>>, <<e, Node("case", <<>>, <<Node("in", <<>>, <<a, e>>), body>>), Default(body)>>),
   Leaf("typedef", <<"int", "T">>), Node("struct", <<"T">>, <<VarDecl(<<"int", "*", "a">>, <<>>)>>),
   Node("enum", <<"T">>, <<a, Node("pair", <<>>, <<b, e>>)>>)} \cup
  {Leaf(kind, text) : <<kind, text>> \in
     {<<"return", <<>>>>, <<"break", <<>>>>, <<"continue", <<>>>>, <<"goto", <<"b">>>>, <<"label", <<"b">>>>}}

Function(stmts) == Node("func", <<"int", "a">>, <<Leaf("param", <<"borrow", "T", "*", "b">>), Block(stmts)>>)
Calls == Node("call", <<>>, <<a>>)

\* Every statement, alone and with another one before or after it.
Bodies ==
  {<<s>> : s \in UNION {Statements(e, Block(<<Calls>>)) : e \in Simple}} \cup
  {<<Node("if", <<>>, <<a, Block(<<s>>), Block(<<t>>)>>)>> :
     s \in Statements(b, Block(<<>>)), t \in Statements(one, Block(<<>>))} \cup
  {<<s, t>> : s \in Statements(a, Block(<<>>)), t \in Statements(b, Block(<<Return(one)>>))} \cup
  {<<s, t>> : s \in Statements(one, Block(<<>>)), t \in Statements(Node("unary", <<"-", "prefix">>, <<b>>), Block(<<>>))}

Method(name) == Node("func", <<"int", name>>, <<Leaf("param", <<"self">>), Leaf("param", <<"T", "b">>),
                                               Block(<<Return(Leaf("self", <<"self">>))>>)>>)
ClassT == Node("class", <<"T", "extends", "a">>, <<VarDecl(<<"int", "*", "b">>, <<>>), Method("new"), Method("b")>>)
Decorated(args, text, decl) == Node("decorated", text, <<Node("decorator", <<"generics">>, args), decl>>)
DispatchBy(word) == Node("pair", <<>>, <<Leaf("ident", <<"dispatch">>), Leaf("ident", <<word>>)>>)
Declarations ==
  {Function(<<>>), Node("func", <<"(", "int", ",", "T", ")", "a">>, <<Block(<<>>)>>), ClassT,
   Node("struct", <<"T">>, <<VarDecl(<<"int", "a">>, <<>>), VarDecl(<<"T", "*", "b">>, <<>>)>>),
   Node("union", <<"T">>, <<VarDecl(<<"T", ".", "a", "b">>, <<>>)>>), Node("enum", <<"T">>, <<a, b>>),
   Leaf("typedef", <<"T", "*", "b">>), VarDecl(<<"int", "a">>, <<>>), VarDecl(<<"int", "a">>, <<one>>),
   VarDecl(<<"mut", "T", "*", "a">>, <<one>>), VarDecl(<<"(", "int", ",", "T", ")", "a">>, <<one>>),
   Leaf("link", <<"'s'">>), Leaf("import", <<"a", ".", "b">>), Leaf("import", <<"'s'">>),
   Node("import", <<"'s'">>, <<Leaf("submodule", <<"b">>), Leaf("alias", <<"T">>)>>),
   Node("import", <<"a">>, <<Leaf("wildcard", <<>>)>>),
   Node("import", <<"a", ".", "b">>, <<Leaf("selected", <<"a", "b">>)>>),
   Node("decorated", <<>>, <<Leaf("decorator", <<"a">>), Node("decorator", <<"b">>, <<one, a>>), Function(<<>>)>>),
   Decorated(<<Leaf("ident", <<"T">>), DispatchBy("dynamic")>>, <<"T", "dynamic">>, ClassT),
   Decorated(<<DispatchBy("static"), Leaf("ident", <<"T">>), a>>, <<"T", "a", "static">>, Function(<<>>))}

-----------------------------------------------------------------------------
Program(source, style) == [source |-> source, style |-> style]
InFunction(stmts, style) == Program(<<Function(stmts)>>, style)
SeqsUpTo(set, n) == UNION {[1 .. k -> set] : k \in 0 .. n}

SourcesOf(family) ==
  CASE family = "expressions"  -> {InFunction(<<VarDecl(<<"mut", "int", "b">>, <<e>>)>>, Full) : e \in Nested}
    [] family = "statements"   -> {InFunction(body, style) : body \in Bodies, style \in Styles}
    [] family = "declarations" -> {Program(<<d, e>>, style) : d, e \in Declarations, style \in Styles}

MCPrograms(family) ==
  IF family = "tokens"
    THEN {[source |-> <<>>, style |-> Full, tokens |-> <<"int", "a", "(", ")", "{">> \o ts \o <<"}">>] :
            ts \in SeqsUpTo(Alphabet, MaxTokens)}
    ELSE {[source |-> p.source, style |-> p.style,
           tokens |-> FlattenSeq([i \in DOMAIN p.source |-> Stmt(p.source[i], p.style)])] :
            p \in SourcesOf(family)}
=============================================================================
