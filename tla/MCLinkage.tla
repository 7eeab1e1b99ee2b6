----------------------------- MODULE MCLinkage -----------------------------
(***************************************************************************)
(* Programs of one or two imports, some functions and a main of one or two *)
(* calls, for the model checker.                                           *)
(***************************************************************************)
EXTENDS Linkage

P(type) == [type |-> type, named |-> TRUE]
Ps(ts) == [i \in DOMAIN ts |-> P(ts[i])]

Link(object, plain) == [kind |-> "link", object |-> object, plain |-> plain, braces |-> <<>>, declares |-> FALSE]
Fn(name, params, symbol) ==
  [kind |-> "function", name |-> <<name>>, params |-> Ps(params), ret |-> "int", symbol |-> symbol,
   braces |-> <<>>, bodied |-> FALSE, declares |-> TRUE]
Body(name, params) == [Fn(name, params, <<>>) EXCEPT !.braces = <<"{">>, !.bodied = TRUE]
NextLine(name, params) == Fn(name, params, <<>>)
OneLine(name, params) == [Body(name, params) EXCEPT !.braces = <<"{", "}">>]
Other(braces) == [kind |-> "other", braces |-> braces, declares |-> FALSE]
Construct(braces) == [kind |-> "construct", braces |-> braces, declares |-> FALSE]
CallLine(braces) == [Fn("put", <<"int">>, <<>>) EXCEPT !.braces = braces, !.declares = FALSE]
Class(name, methods) ==
  [kind |-> "class", name |-> name, methods |-> methods, braces |-> <<"{">>, declares |-> FALSE]

-----------------------------------------------------------------------------
Header ==
  [kind |-> "ph", dir |-> "std/",
   lines |-> <<Link("io.o", FALSE), Link("m", TRUE),
               Class("File", <<Fn("enter", <<>>, <<"file_enter">>), Fn("write", <<"string">>, <<"file_write">>)>>),
               Fn("put", <<"string">>, <<"io_put">>), Fn("put", <<"int">>, <<"io_put_int">>),
               Fn("put", <<"float">>, <<"io_put_float">>), Fn("put", <<"char">>, <<"io_put_char">>),
               Fn("run", <<"long">>, <<"thread_run1">>), Fn("flush", <<>>, <<"flush">>)>>]

\* A function with two nested blocks, one after it, and a structure between them.
Source ==
  [kind |-> "pc", dir |-> "./",
   lines |-> <<Link("util.o", FALSE),
               Body("same", <<"bool">>), CallLine(<<"{">>), CallLine(<<>>), Other(<<"}">>), Other(<<"}">>),
               Construct(<<"{">>), Other(<<>>), Other(<<"}">>),
               Body("twice", <<"int">>), CallLine(<<>>), Other(<<"}">>)>>]

\* Styles that are not read as they are meant.
Compact ==
  [Source EXCEPT !.lines = <<OneLine("same", <<"bool">>), Body("twice", <<"int">>), Other(<<"}">>),
                             NextLine("last", <<"float">>), Other(<<"{">>), CallLine(<<>>), Other(<<"}">>)>>]

Import(file, module, alias, submodule, wildcard, selected) ==
  [kind |-> "import", file |-> file, module |-> module, alias |-> alias, submodule |-> submodule,
   wildcard |-> wildcard, selected |-> selected]
HeaderImports ==
  {Import(Header, "io", alias, "", FALSE, {}) : alias \in {"", "con"}}
    \cup {Import(Header, "io", "", "", TRUE, {}), Import(Header, "io", "", "", FALSE, {<<"put">>}),
          Import(Header, "io", "con", "", FALSE, {<<"flush">>}), Import(Header, "io", "", "con", FALSE, {})}
SourceImports == {Import(file, "util", alias, "", FALSE, {}) : file \in {Source, Compact}, alias \in {"", "con"}}

-----------------------------------------------------------------------------
Arg(form, type, of) == [form |-> form, type |-> type, of |-> of]
Literal(type)  == Arg("literal", type, <<>>)
Variable(type) == Arg("variable", type, <<>>)
Operator(op, left, right, type) == Arg("operator", type, [op |-> op, left |-> left, right |-> right])
PlainArgs == {Literal(t) : t \in {"int", "float", "string", "char", "bool"}}
                \cup {Variable(t) : t \in {"int", "long", "float", "string", "bool", "char", "i8", "f32", "int*"}}
OtherArgs ==
  {Arg("cast", "float", <<>>), Arg("fstring", "string", <<>>), Arg("function", "int", <<"work">>),
   Arg("call", "float", <<"area">>), Arg("call", "int", <<"flush">>),
   Operator("+", Literal("string"), Variable("int"), "string"),
   Operator("<", Variable("float"), Variable("float"), "bool"),
   Operator("*", Variable("int"), Literal("int"), "int")}

Call(scope, name, args) == [kind |-> "call", scope |-> scope, handle |-> FALSE, name |-> <<name>>, args |-> args]
Method(scope, name, args) == [Call(scope, name, args) EXCEPT !.handle = TRUE]
Function_(name, params, body) ==
  [kind |-> "function", name |-> <<name>>, params |-> params, ret |-> "int", body |-> body]
Main(body) == Function_("main", <<>>, body)

Scopes == {<<>>, <<"io">>, <<"con">>}
\* Every argument, under every form of import.
OfHeader ==
  {<<i, Main(<<Call(s, n, <<a>>)>>)>> :
      i \in HeaderImports, s \in Scopes, n \in {"put", "run"}, a \in PlainArgs \cup OtherArgs}
    \cup {<<i, Main(<<Call(s, "flush", <<>>), Call(s, "put", <<Arg("call", "int", <<"flush">>)>>)>>)>> :
            i \in HeaderImports, s \in Scopes}

\* Two imports; what the first call declares may be found by the second.
OfTwo ==
  {<<i, j, Main(<<Call(<<>>, "same", <<a>>), Call(s, n, <<b>>)>>)>> :
      i \in HeaderImports, j \in SourceImports, s \in Scopes, n \in {"same", "twice", "put"},
      a \in {Variable("bool")}, b \in {Literal("int"), Variable("bool"), Variable("float")}}
    \cup {<<i, j, Main(<<Call(s, "put", <<a>>)>>)>> :
            i \in HeaderImports, j \in HeaderImports, s \in Scopes, a \in {Literal("int"), Variable("char")}}

Methods ==
  {<<i, Main(<<Method(<<m, "File">>, n, args)>>)>> :
      i \in HeaderImports, m \in {"io", "con"}, n \in {"enter", "write"}, args \in {<<>>, <<Literal("string")>>}}
    \cup {<<i, Main(<<Call(<<m, "File">>, "write", <<Variable("int"), Literal("string")>>)>>)>> :
            i \in HeaderImports, m \in {"io", "con"}}

\* Overloads of the module, in front of the call or behind it.
Params == {<<>>, <<"int">>, <<"float">>, <<"bool">>, <<"i8">>, <<"int*">>, <<"string", "int">>}
Args   == {<<>>, <<Literal("string"), Literal("int")>>} \cup {<<a>> : a \in PlainArgs}
OfModule ==
  {<<Function_("area", p, <<>>), Function_("area", q, <<>>), Main(<<Call(<<>>, "area", args)>>)>> :
      p \in Params, q \in Params, args \in Args}
    \cup {<<Main(<<Call(<<>>, "area", args)>>), Function_("area", p, <<>>)>> : p \in Params, args \in Args}
    \cup {<<Function_("area", p, <<Call(<<>>, "area", args)>>), Main(<<>>)>> : p \in Params, args \in Args}

\* Overloads of the module next to imported ones.
OfBoth ==
  {<<i, Function_("put", p, <<>>), Main(<<Call(s, "put", <<a>>), Call(<<>>, "put", <<b>>)>>)>> :
      i \in {Import(Header, "io", "", "", TRUE, {}), Import(Header, "io", "", "", FALSE, {})}, p \in Params,
      s \in {<<>>, <<"io">>}, a \in {Literal("int"), Variable("i8")}, b \in {Variable("bool"), Literal("float")}}

\* Resources of two headers with classes; the second may have a class or a function of the name of the
\* first one's class.
Locks ==
  [kind |-> "ph", dir |-> "std/",
   lines |-> <<Fn("create", <<>>, <<"mutex_create">>),
               Class("Mutex", <<Fn("enter", <<>>, <<"mutex_enter">>), Fn("exit", <<>>, <<"mutex_exit">>)>>)>>]
Files ==
  [kind |-> "ph", dir |-> "std/",
   lines |-> <<Class("File", <<Fn("enter", <<>>, <<"file_enter">>), Fn("exit", <<>>, <<"file_close">>)>>),
               Fn("open", <<>>, <<"file_open">>)>>]
FilesAndLocks == [Files EXCEPT !.lines = Append(@, Class("Mutex", <<Fn("enter", <<>>, <<"other_enter">>)>>))]
FilesOfMutex  == [Files EXCEPT !.lines = Append(@, Fn("mutex", <<>>, <<"mutex_of">>))]
ImportsOf(file, module) ==
  {Import(file, module, alias, "", wildcard, {}) : alias \in {"", "con"}, wildcard \in BOOLEAN}
    \cup {Import(file, module, "", "sub", FALSE, {})}

Using(form, path) == [kind |-> "using", form |-> form, path |-> path]
Resources ==
  {Using("variable", p) : p \in {<<"Mutex">>, <<"File">>, <<"long">>, <<"mutex", "Mutex">>, <<"con", "Mutex">>, <<"sub", "File">>}}
    \cup {Using("call", p) : p \in {<<>>, <<"mutex">>, <<"files">>, <<"con">>, <<"sub">>}} \cup {Using("other", <<>>)}
OfUsing ==
  {<<i, j, Main(<<u>>)>> : i \in ImportsOf(Locks, "mutex"),
                           j \in UNION {ImportsOf(f, "files") : f \in {Files, FilesAndLocks, FilesOfMutex}}, u \in Resources}
    \cup {<<j, i, Main(<<u>>)>> : i \in ImportsOf(Locks, "mutex"),
                                  j \in UNION {ImportsOf(f, "files") : f \in {Files, FilesOfMutex}}, u \in Resources}

MCLowerOf == [Mutex |-> "mutex", File |-> "file"]

MCPrograms == OfUsing \cup OfHeader \cup OfTwo \cup Methods \cup OfModule \cup OfBoth
=============================================================================
