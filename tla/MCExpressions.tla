--------------------------- MODULE MCExpressions ---------------------------
EXTENDS Expressions

CharT == Plain("char")   F32 == Plain("f32")

MCFields == [Point |-> <<[name |-> "n", type |-> IntT], [name |-> "g", type |-> FloatT]>>]
MCVarTypes ==
  [x |-> IntT, y |-> FloatT, b |-> BoolT, c |-> CharT, r |-> F32, s |-> StringT,
   p |-> Pointer(IntT), w |-> Pointer(FloatT), a |-> Array(IntT), d |-> Array(FloatT),
   t |-> Tuple(<<IntT, FloatT>>), q |-> Plain("Point")]

\* Functions of the program, and of a header.
MCParams == [f |-> IntT, h |-> FloatT, k |-> StringT, l |-> CharT] @@
            ("m.f" :> IntT @@ "m.g" :> Plain("isize") @@ "m.h" :> FloatT @@ "m.k" :> StringT)

V(name) == Leaf("ident", <<name>>)
One == Leaf("int", <<"1">>)
Real == Leaf("float", <<"2.5">>)
Text == Leaf("string", <<"'s'">>)
Variables == {V(v) : v \in DOMAIN MCVarTypes}
Atoms == Variables \cup {One, Real, Text}
Simple == {V(v) : v \in {"x", "y", "b", "c", "r", "s"}} \cup {One, Real}

Bin(op, l, r) == Node("binary", <<op>>, <<l, r>>)
Un(op, e) == Node("unary", <<op, "prefix">>, <<e>>)
PostInc(e) == Node("unary", <<"++", "postfix">>, <<e>>)
Set(op, l, r) == Node("assign", <<op>>, <<l, r>>)
Choice(e1, e2, e3) == Node("ternary", <<>>, <<e1, e2, e3>>)
Index(o, i) == Node("index", <<>>, <<o, i>>)
Field(o, f) == Node("member", <<f>>, <<o>>)
Part(o, i) == Node("tuple_field", <<i>>, <<o>>)
List(es) == Node("array", <<>>, es)
Pair(e1, e2) == Node("tuple", <<>>, <<e1, e2>>)
Call(name, e) == Node("call", <<>>, <<V(name), e>>)
MCall(name, e) == Node("call", <<>>, <<Field(V("m"), name), e>>)
F(e) == Call("f", e)
To(e, target) ==
  Node("call", <<>>, <<Node("member", <<"to">>, <<Node("member", <<"to">>, <<e>>)>>), Leaf("generic", <<target>>)>>)
FText(es) == Node("fstring", <<>>, es)
Words == Leaf("text", <<"words">>)

Targets == {"string", "bool", "int", "i8", "i128", "float", "f32", "f64"}
Places == Variables \cup {Un("*", V("p")), Un("*", V("w")), Index(V("a"), One), Index(V("d"), V("x")),
                          Index(V("s"), One), Field(V("q"), "n"), Field(V("q"), "g"), Part(V("t"), 0), Part(V("t"), 1)}

\* Every operator, once.
Binaries(es) == {Bin(op, l, r) : op \in {"+", "/", "**", "<", "==", "&", "&&", "||"}, l \in es, r \in es}
Unaries == {Un(op, e) : op \in {"-", "~", "*"}, e \in Places \cup {One, Real, Text}} \cup
           UNION {{Un("++", e), Un("--", e), PostInc(e)} : e \in Places}
Assigns == {Set(op, l, e) : op \in {"=", "+=", "/="}, l \in Places, e \in Atoms}
Ternaries == {Choice(e, l, r) : e \in {V("b"), V("x"), Bin("<", V("x"), One)}, l \in Atoms, r \in Atoms}
Passed ==
  Atoms \cup {FText(<<Words>>), Index(V("d"), One), Choice(V("b"), V("y"), Real), F(V("x"))} \cup
  {Bin(op, l, r) : op \in {"+", "<"}, l \in Simple \cup {V("s"), Text}, r \in {V("x"), V("y"), V("c"), V("s"), Text}} \cup
  {Un("-", e) : e \in {V("x"), V("y"), V("r")}} \cup
  {To(e, target) : e \in {V("x"), V("y")}, target \in Targets \cup {"char"}} \cup
  {Bin("+", To(V("x"), target), V("x")) : target \in {"int", "string", "float"}}
Called ==
  {Call(name, e) : name \in {"f", "h", "k", "l"}, e \in Passed} \cup
  {MCall(name, e) : name \in {"f", "g", "h", "k"}, e \in Passed}
Others ==
  {Index(o, i) : o \in {V(v) : v \in {"a", "d", "s", "p", "x"}}, i \in Simple} \cup
  {To(e, target) : e \in Atoms \ {V("t")}, target \in Targets} \cup
  UNION {{FText(<<e>>), FText(<<Words, e>>), FText(<<e, Words, V("x")>>)} : e \in Simple \cup {Text}} \cup
  {FText(<<To(V("x"), "i128")>>), F(To(V("x"), "i128")), To(To(V("c"), "i128"), "string")} \cup
  UNION {{List(<<l, r>>), Pair(l, r), Part(Pair(l, r), 0), Part(Pair(l, r), 2)} : l \in Simple, r \in Simple}

\* Declarations and returns of every type.
Types == {MCVarTypes[v] : v \in DOMAIN MCVarTypes}
Given == Atoms \cup {List(<<One, V("x")>>), List(<<V("y"), Real>>), Pair(One, V("y")), Pair(V("y"), One),
                     Bin("+", V("x"), V("y")), Bin("+", V("s"), Text), Bin("**", V("x"), One), F(V("x")),
                     Index(V("a"), One), Index(V("d"), One), Choice(V("b"), V("x"), One), Part(V("t"), 1),
                     To(V("x"), "f32"), To(V("s"), "int"), FText(<<Words, V("y")>>), Set("=", V("x"), One)}
Initialized == {[stmt |-> "decl", type |-> Plain("Point"), expr |-> Node("init", <<>>, <<l, r>>)] :
                  l \in {One, V("b"), PostInc(V("x"))}, r \in {V("y"), V("x"), Set("=", V("y"), Real)}}

\* Effects inside of everything.
Effects == {PostInc(V("x")), Un("--", V("x")), Set("=", V("x"), F(V("x"))), Set("+=", Index(V("a"), V("x")), One),
            F(V("x")), Index(V("a"), PostInc(V("x"))), Set("=", Part(V("t"), 0), V("x")), Part(V("t"), 0),
            Set("=", Un("*", V("p")), V("x")), Field(V("q"), "n"), PostInc(Field(V("q"), "n")),
            Index(List(<<V("x"), PostInc(V("x"))>>), One), V("x")}
Conditions == {Bin("<", e, V("x")) : e \in Effects} \cup
              {Bin("&&", V("b"), Set("=", V("b"), Bin("<", F(V("x")), One))),
               Bin("||", Bin("==", PostInc(V("x")), One), Bin("<", V("x"), F(One)))}
Nested ==
  {Bin(op, l, r) : op \in {"-", "**"}, l \in Effects, r \in Effects} \cup
  {Bin(op, l, r) : op \in {"&&", "||"}, l \in Conditions, r \in Conditions} \cup
  {Choice(e, l, r) : e \in Conditions, l \in Effects, r \in {F(One), PostInc(V("x"))}} \cup
  {Set(op, l, r) : op \in {"=", "*="}, r \in Effects \cup {Choice(V("b"), F(One), V("x"))},
                   l \in {V("x"), Index(V("a"), PostInc(V("x"))), Field(V("q"), "n"), Part(V("t"), 0), Un("*", V("p"))}} \cup
  UNION {{Pair(l, r), FText(<<l, Words, r>>), List(<<One, l, r>>), Set("=", V("y"), Bin("+", Real, Bin("*", l, r)))} :
           l \in Effects, r \in Effects} \cup
  {MCall(name, e) : name \in {"f", "g"},
                    e \in Effects \cup {Bin("+", To(V("x"), "int"), PostInc(V("x"))), Bin("+", PostInc(V("x")), One)}} \cup
  {Call(name, e) : name \in {"h", "l"}, e \in {Bin("+", PostInc(V("x")), V("y")), Bin("-", PostInc(V("c")), V("c")),
                                               Set("=", V("c"), V("c")), Set("=", V("y"), Real)}} \cup
  {Bin("+", To(l, "f64"), r) : l \in Effects, r \in Effects}

MCPrograms(family) ==
  CASE family = "operators" -> {[stmt |-> "expr", type |-> IntT, expr |-> e] :
                                  e \in Binaries(Atoms) \cup Unaries \cup Assigns \cup Ternaries \cup Others \cup Called}
    [] family = "types"     -> Initialized \cup [stmt : {"decl", "return"}, type : Types, expr : Given]
    [] family = "effects"   -> [stmt : {"return"}, type : {IntT, FloatT, BoolT, StringT}, expr : Nested]
=============================================================================
