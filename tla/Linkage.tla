------------------------------ MODULE Linkage ------------------------------
(***************************************************************************)
(* How a call finds its function.  An import puts the functions of a file  *)
(* into the tables of the type checker (tc_import) and of the code         *)
(* generator (codegen_import), each by rules of its own; a declaration     *)
(* puts its function into both; and each of the two looks a call up in     *)
(* another way (tc_call, codegen_call).  The type checker reads all        *)
(* declarations before it reads a body, the code generator reads each body *)
(* where it stands.                                                        *)
(*                                                                         *)
(* A body is a sequence of calls and of using statements, in the order of  *)
(* their code.  The module of an import is its last segment.               *)
(* The scope of a call is <<>>, <<module>> or <<module, class>>, and handle *)
(* says that it is a method called on a variable.  An argument is [form,   *)
(* type, of], of being the operands or the function it is made of; a call  *)
(* that is an argument stands in the body, too, in front of the call it is *)
(* an argument of.                                                         *)
(* A using is of a variable, path its type, <<class>> or <<module, class>>; *)
(* of the result of a call, path its scope; or of another expression.      *)
(***************************************************************************)
EXTENDS Headers, FiniteSets

CONSTANTS
  Programs,
  LowerOf     \* names that have upper case letters, in lower case

ImportForms ==
  [kind : {"import"}, module : Parts, alias : Parts, submodule : Parts, wildcard : BOOLEAN,
   selected : SUBSET FullNames, file : FileForms]

IsSequence(s) == s \in Seq(ToSet(s))

IsCall(s) ==
  /\ s.kind = "call" /\ s.scope \in Seq(Parts) /\ Len(s.scope) <= 2
  /\ s.name \in FullNames /\ IsSequence(s.args)

IsUsing(s) ==
  /\ s.kind = "using" /\ s.form \in {"variable", "call", "other"} /\ s.path \in Seq(Parts)
  /\ s.form = "variable" => Len(s.path) \in {1, 2}

IsFunction(d) ==
  /\ d.kind = "function" /\ d.name \in FullNames /\ d.params \in Seq(KnownTypes)
  /\ IsSequence(d.body) /\ \A s \in ToSet(d.body) : IsCall(s) \/ IsUsing(s)

IsProgram(p) == IsSequence(p) /\ \A d \in ToSet(p) : d \in ImportForms \/ IsFunction(d)

ASSUME ProgramsAssumption == \A p \in Programs : IsProgram(p)

VARIABLES
  program,
  phase,      \* "declare", "check", "generate", "built", "rejected" or "failed"
  at,         \* the declaration that is read
  todo,       \* what of its body is still to be generated
  checker,    \* the type checker's functions and classes
  maps,       \* the names that imports gave to C functions, newest last
  types,      \* the types of functions by their names in the object file
  declared,   \* the functions of the LLVM module
  classes,    \* the code generator's classes
  links,      \* the object files to link
  called,     \* the calls that were generated
  held        \* the using statements, with what they call before and behind their bodies

vars == <<program, phase, at, todo, checker, maps, types, declared, classes, links, called, held>>

-----------------------------------------------------------------------------
(* What an import registers.                                               *)

RegisteredAs(imp) ==
  IF imp.submodule # "" THEN imp.submodule ELSE IF imp.alias # "" THEN imp.alias ELSE imp.module

Bare(imp) == imp.wildcard \/ imp.selected # {} \/ imp.file.kind = "pc"

\* The scopes that a function of the import can be called in.
ScopesOf(imp) ==
  LET registered == <<RegisteredAs(imp)>>
      alias == IF imp.alias = "" THEN <<>> ELSE <<<<imp.alias>>>>
      own   == IF imp.alias = "" \/ RegisteredAs(imp) = imp.module THEN <<>> ELSE <<<<imp.module>>>>
  IN  IF Bare(imp) THEN <<<<>>>> \o alias ELSE <<registered>> \o own

Key(scope, name) == FlattenSeq([i \in DOMAIN scope |-> <<scope[i], ".">>]) \o name

\* Mutant: all of the file is imported.
SelectedAll(imp) == EntriesOf(imp.file)

\* name_in_selected, name_in_selected_tc: classes are always imported.
Selected(imp) ==
  LET entries == EntriesOf(imp.file)
  IN  Picked(entries, {n \in DOMAIN entries : \/ entries[n].kind = "class"
                                             \/ imp.selected = {}
                                             \/ entries[n].orig \in imp.selected})
FunctionsOf(imp) == OfKind(Selected(imp), "function")
ClassesOf(imp)   == OfKind(Selected(imp), "class")

Map(key, symbol) == [key |-> key, symbol |-> symbol]

\* register_func_map: under the mangled name and under the plain one.
MapsOf(e, scopes) ==
  FlattenSeq([i \in DOMAIN scopes |->
    <<Map(Key(scopes[i], e.pc), e.symbol), Map(Key(scopes[i], e.orig), e.symbol)>>])

FunctionMaps(imp) == FlattenSeq([i \in DOMAIN FunctionsOf(imp) |-> MapsOf(FunctionsOf(imp)[i], ScopesOf(imp))])

\* The scopes of the import's classes: they are not registered under bare names.
ClassScopes(imp) ==
  <<RegisteredAs(imp)>> \o (IF imp.alias = "" \/ RegisteredAs(imp) = imp.module THEN <<>> ELSE <<imp.module>>)

\* The mangled name without its prefix and without a last letter that ends a type.
Trimmed(pc) ==
  LET name == Tail(pc)
  IN  IF Last(name) \in {"i", "f", "b", "s", "v", "p"} THEN Front(name) ELSE name

\* register_class_func_maps
MethodMaps(class, scope) ==
  FlattenSeq([i \in DOMAIN class.methods |->
    LET m == class.methods[i]
    IN  <<Map(Key(<<scope, class.name>>, m.pc), m.symbol), Map(Key(<<scope, class.name>>, Trimmed(m.pc)), m.symbol),
          Map(Key(<<scope, class.name>>, m.orig), m.symbol)>>])

ClassMaps(imp) ==
  LET InScope(scope) == FlattenSeq([i \in DOMAIN ClassesOf(imp) |-> MethodMaps(ClassesOf(imp)[i], scope)])
  IN  FlattenSeq([i \in DOMAIN ClassScopes(imp) |-> InScope(ClassScopes(imp)[i])])

FunctionType(e, known) == [params |-> MachineTypes(e.params, known), ret |-> MachineType(e.ret, known)]

\* The last one of an import that names a symbol decides on its type.
ImportedTypes(imp, known) ==
  LET all == FunctionsOf(imp) \o FlattenSeq([i \in DOMAIN ClassesOf(imp) |-> ClassesOf(imp)[i].methods])
  IN  [s \in {all[i].symbol : i \in DOMAIN all} |->
         FunctionType(all[Max({i \in DOMAIN all : all[i].symbol = s})], known)]

\* fn_type_push: the newest type of a name is the one that is found.
WithTypes(new) == [s \in DOMAIN types \cup DOMAIN new |-> IF s \in DOMAIN new THEN new[s] ELSE types[s]]

\* collect_link_paths
WithLinks(old, new) == FoldLeft(LAMBDA ls, l : IF Contains(ls, l) THEN ls ELSE Append(ls, l), old, new)

\* The lookup of a name that is not there.
Undefined == <<>>

\* func_map_lookup: the newest.
Lookup(key) ==
  LET found == {i \in DOMAIN maps : maps[i].key = key}
  IN  IF found = {} THEN Undefined ELSE maps[Max(found)].symbol

-----------------------------------------------------------------------------
(* The type checker.                                                       *)

Signature(name, params, known) == [name |-> name, params |-> KindsOf(params, known)]

\* tc_func_push: the first of two that differ in nothing but the result.
WithSignatures(old, new) ==
  FoldLeft(LAMBDA ss, s : IF Contains(ss, s) THEN ss ELSE Append(ss, s), old, new)

\* tc_import.  A class stands in front of the functions that use it.
CheckImport(imp) ==
  LET names == {ClassesOf(imp)[i].name : i \in DOMAIN ClassesOf(imp)}
      known == checker.classes \cup names
      SignaturesOf(e) == [i \in DOMAIN ScopesOf(imp) |-> Signature(Key(ScopesOf(imp)[i], e.orig), e.params, known)]
      new == FlattenSeq([i \in DOMAIN FunctionsOf(imp) |-> SignaturesOf(FunctionsOf(imp)[i])])
  IN  [functions |-> WithSignatures(checker.functions, new), classes |-> known]

CheckFunction(f) ==
  [checker EXCEPT !.functions = WithSignatures(@, <<Signature(f.name, f.params, checker.classes)>>)]

KindOfArg(arg) == IF arg.form = "function" THEN "function" ELSE KindOf(arg.type, checker.classes)

\* tc_call: of a bare name alone.  If no function of that name takes so many arguments
\* the call is accepted as it is.
Accepted(call) ==
  LET named == {s \in ToSet(checker.functions) : s.name = call.name}
      fit   == {s \in named : Len(s.params) = Len(call.args)}
  IN  \/ call.scope # <<>>
      \/ \E s \in fit : \A i \in DOMAIN call.args : Coercible(KindOfArg(call.args[i]), s.params[i])
      \/ fit = {} /\ named # {}

-----------------------------------------------------------------------------
(* The code generator.                                                     *)

MachineOfArg(arg) == IF arg.form = "function" THEN "pointer" ELSE MachineType(arg.type, classes)
MachineArgs(call) == [i \in DOMAIN call.args |-> MachineOfArg(call.args[i])]

LetterOfMachine ==
  [i1 |-> "b", i8 |-> "8", i16 |-> "6", i32 |-> "4", i128 |-> "Q", i64 |-> "2", double |-> "f",
   single |-> "F", pointer |-> "s", void |-> "2"]

\* Mutant: the letter is told from the machine type alone.
VariableLetterOfMachine(t) == LetterOfMachine[MachineType(t, classes)]

VariableLetter(t) ==
  CASE t \in DOMAIN LetterOf -> LetterOf[t]
    [] t \notin DOMAIN LetterOf /\ MachineType(t, classes) = "pointer" -> "p"
    [] OTHER -> "2"

CastLetter(t) == IF t \in {"i128", "u128", "isize", "usize"} THEN "2" ELSE VariableLetter(t)

\* An operator's letter is told from its left operand, of a + with a string from either.
OperatorLetter(op, left, right) ==
  LET joins   == /\ op = "+"
                 /\ \/ \E a \in {left, right} : a.form = "literal" /\ a.type = "string"
                    \/ left.form = "variable" /\ left.type = "string"
                    \/ left.form = "cast"
      machine == IF left.form = "variable" THEN MachineType(left.type, classes) ELSE "pointer"
  IN CASE joins                         -> "s"
       [] ~joins /\ machine = "double" -> "f"
       [] ~joins /\ machine = "single" -> "F"
       [] OTHER                         -> "2"

\* A call's letter is told from the C function that an import gave the name to.
CallLetter(name) ==
  LET symbol == Lookup(name)
  IN  IF symbol \in DOMAIN types THEN LetterOfMachine[types[symbol].ret] ELSE "2"

\* mangle_call_name
Guess(arg) ==
  CASE arg.form = "literal" /\ arg.type \in {"int", "float", "string"} -> LetterOf[arg.type]
    [] arg.form = "variable" -> VariableLetter(arg.type)
    [] arg.form = "operator" -> OperatorLetter(arg.of.op, arg.of.left, arg.of.right)
    [] arg.form = "call"     -> CallLetter(arg.of)
    [] arg.form = "cast"     -> CastLetter(arg.type)
    [] arg.form = "fstring"  -> "s"
    [] OTHER                 -> "2"
GuessedName(call) == Mangled(call.name, [i \in DOMAIN call.args |-> Guess(call.args[i])])

\* Mutant: the arguments are counted only.
ValidatesCount(call, symbol) == Len(call.args) = Len(types[symbol].params)

\* validate_call_args
Validates(call, symbol) == MachineArgs(call) = types[symbol].params

\* How well an overload fits: -1 if it does not.
Score(call, symbol) ==
  LET actual == MachineArgs(call)
      params == types[symbol].params
      fits   == \A i \in DOMAIN actual : actual[i] = params[i] \/ Narrower(actual[i], params[i])
  IN  IF Len(actual) # Len(params) \/ ~fits THEN -1
      ELSE FoldLeft(LAMBDA n, i : n + (IF actual[i] = params[i] THEN 3 ELSE 1), 0, [i \in DOMAIN actual |-> i])

\* The overloads with all parameters of one letter; the first of those that fit best.
BestOverload(call) ==
  LET tried  == [c \in 1..5 |-> Mangled(call.name, [i \in DOMAIN call.args |-> <<"i", "f", "s", "b", "c">>[c]])]
      scores == [c \in 1..5 |-> IF tried[c] \in declared THEN Score(call, tried[c]) ELSE -1]
      best(c) == scores[c] >= 0 /\ \A d \in 1..5 : scores[d] < scores[c] \/ (scores[d] = scores[c] /\ c <= d)
  IN  IF \E c \in 1..5 : best(c) THEN tried[CHOOSE c \in 1..5 : best(c)] ELSE Undefined

\* The first that is defined.
Either(a, b) == IF a # Undefined THEN a ELSE b

\* A bare name.  Only a function of the module by that very name is validated.
ResolveBare(call) ==
  LET guessed == GuessedName(call)
      mapped  == Either(Lookup(guessed), Lookup(call.name))
  IN CASE guessed \in declared              -> guessed
       [] guessed \notin declared /\ BestOverload(call) # Undefined -> BestOverload(call)
       [] OTHER -> IF call.name \in declared
                   THEN IF Validates(call, call.name) THEN call.name ELSE Undefined
                   ELSE mapped

\* module.function
ResolveQualified(call) ==
  LET plain == Lookup(Key(call.scope, call.name))
  IN  Either(Lookup(Key(call.scope, GuessedName(call))),
             IF plain # Undefined /\ Validates(call, plain) THEN plain ELSE Undefined)

\* module.class.method, or a method of a variable of that type.
ResolveMethod(call) ==
  LET plain   == Lookup(Key(call.scope, call.name))
      guessed == Lookup(Key(call.scope, GuessedName(call)))
  IN  Either(plain, IF call.handle THEN guessed
                    ELSE IF call.name \in declared THEN call.name ELSE Undefined)

Resolve(call) ==
  CASE Len(call.scope) = 0 -> ResolveBare(call)
    [] Len(call.scope) = 1 -> ResolveQualified(call)
    [] Len(call.scope) = 2 -> ResolveMethod(call)

RunsThread(symbol) == symbol \in {<<"thread_run">>, <<"thread_run1">>}

\* What is passed: the handle in front of a method's arguments, otherwise integers widened
\* to the parameters; a function for a thread to run goes as an integer.
Passed(call, symbol) ==
  LET actual  == MachineArgs(call)
      params  == types[symbol].params
      Widened(i) == IF i \in DOMAIN params /\ Narrower(actual[i], params[i]) THEN params[i] ELSE actual[i]
      Adapted(i) == IF i = 1 /\ call.args[i].form = "function" /\ RunsThread(symbol) THEN "i64" ELSE Widened(i)
  IN  IF Len(call.scope) = 2 THEN (IF call.handle THEN <<"i64">> ELSE <<>>) \o actual
      ELSE [i \in DOMAIN actual |-> Adapted(i)]

-----------------------------------------------------------------------------
(* A using statement: the class of its resource, found in the names that   *)
(* imports gave to functions, and the functions it calls by that class.    *)

NoClass == <<>>

\* strncasecmp
SameIgnoringCase(a, b) ==
  LET Lower(n) == IF n \in DOMAIN LowerOf THEN LowerOf[n] ELSE n IN Lower(a) = Lower(b)

\* The place in a name of a part between dots, or behind the last one, that is the class.
PlacesOf(class, key) ==
  {i \in 2 .. Len(key) : /\ key[i - 1] = "." /\ SameIgnoringCase(key[i], class)
                         /\ i < Len(key) => key[i + 1] = "."}

\* resolve_class_name: the part of the oldest name up to the class, by its parts between dots.
ClassNamed(class) ==
  LET found == {i \in DOMAIN maps : PlacesOf(class, maps[i].key) # {}}
      key   == maps[Min(found)].key
      place == Min(PlacesOf(class, key))
  IN  IF found = {} THEN NoClass ELSE [k \in 1 .. (place + 1) \div 2 |-> key[2 * k - 1]]

\* Names of methods: module, class and name.
OfClass(key) == Len(key) > 3 /\ key[2] = "." /\ key[4] = "."
FirstClass(found) ==
  LET key == maps[Min(found)].key IN IF found = {} THEN NoClass ELSE <<key[1], key[3]>>

\* Mutant: a call's module is not asked for.
FirstClassOfAny(module) == FirstClass({i \in DOMAIN maps : OfClass(maps[i].key)})

\* The first class of a module.
FirstClassOf(module) ==
  FirstClass({i \in DOMAIN maps : OfClass(maps[i].key) /\ maps[i].key[1] = module})

\* The class that codegen_using takes the resource for, by module and name.
ClassOf(resource) ==
  CASE resource.form = "variable" /\ Len(resource.path) = 2 -> resource.path
    [] resource.form = "variable" /\ Len(resource.path) = 1 -> ClassNamed(resource.path[1])
    [] resource.form = "call" /\ Len(resource.path) = 1     -> FirstClassOf(resource.path[1])
    [] OTHER -> NoClass

MethodOf(class, name) == IF class = NoClass THEN Undefined ELSE Lookup(Key(class, name))

-----------------------------------------------------------------------------
Init ==
  /\ program \in Programs
  /\ phase = "declare" /\ at = 1 /\ todo = <<>>
  /\ checker = [functions |-> <<>>, classes |-> {}]
  /\ maps = <<>> /\ types = <<>> /\ declared = {} /\ classes = {} /\ links = <<>>
  /\ called = <<>> /\ held = <<>>

Decl == program[at]

\* tc_program, first loop: a declaration is registered.
Declare ==
  /\ phase = "declare" /\ at <= Len(program)
  /\ checker' = IF Decl.kind = "import" THEN CheckImport(Decl) ELSE CheckFunction(Decl)
  /\ at' = at + 1
  /\ UNCHANGED <<program, phase, todo, maps, types, declared, classes, links, called, held>>

\* The calls of a body.
CallsOf(f) == OfKind(f.body, "call")

\* tc_program, second loop: the calls of a body; a using of any resource is accepted.  An error
\* ends the run of the compiler when all is checked.
Check ==
  /\ phase = "check" /\ at <= Len(program)
  /\ phase' = IF Decl.kind = "import" \/ \A call \in ToSet(CallsOf(Decl)) : Accepted(call)
              THEN "check" ELSE "rejected"
  /\ at' = at + 1
  /\ UNCHANGED <<program, todo, checker, maps, types, declared, classes, links, called, held>>

NextPhase ==
  /\ phase \in {"declare", "check", "generate"} /\ at > Len(program) /\ todo = <<>>
  /\ phase' = CASE phase = "declare" -> "check" [] phase = "check" -> "generate" [] OTHER -> "built"
  /\ at' = 1
  /\ UNCHANGED <<program, todo, checker, maps, types, declared, classes, links, called, held>>

\* codegen_import
GenerateImport ==
  /\ phase = "generate" /\ todo = <<>> /\ at <= Len(program) /\ Decl.kind = "import"
  /\ classes' = classes \cup {ClassesOf(Decl)[i].name : i \in DOMAIN ClassesOf(Decl)}
  /\ maps' = maps \o FunctionMaps(Decl) \o ClassMaps(Decl)
  /\ types' = WithTypes(ImportedTypes(Decl, classes'))
  /\ links' = WithLinks(links, LinksOf(Decl.file))
  /\ at' = at + 1
  /\ UNCHANGED <<program, phase, todo, checker, declared, called, held>>

ObjectName(f) == IF f.name = <<"main">> THEN f.name ELSE MangleName(f.name, f.params)

\* codegen_func_decl: a second function of the same name in the object file leaves the type of the first.
GenerateFunction ==
  /\ phase = "generate" /\ todo = <<>> /\ at <= Len(program) /\ Decl.kind = "function"
  /\ declared' = declared \cup {ObjectName(Decl)}
  /\ types' = IF ObjectName(Decl) \in declared THEN types
              ELSE WithTypes([s \in {ObjectName(Decl)} |-> FunctionType(Decl, classes)])
  /\ todo' = Decl.body
  /\ at' = at + 1
  /\ UNCHANGED <<program, phase, checker, maps, classes, links, called, held>>

\* codegen_call: the first error ends the compiler.
GenerateCall ==
  LET call   == Head(todo)
      symbol == Resolve(call)
  IN /\ phase = "generate" /\ todo # <<>> /\ call.kind = "call"
     /\ todo' = Tail(todo)
     /\ IF symbol = Undefined
        THEN phase' = "failed" /\ UNCHANGED <<declared, called>>
        ELSE /\ declared' = declared \cup {symbol}
             /\ called' = Append(called, [at |-> at - 1, call |-> call, symbol |-> symbol,
                                        passed |-> Passed(call, symbol), params |-> types[symbol].params])
             /\ UNCHANGED phase
     /\ UNCHANGED <<program, at, checker, maps, types, classes, links, held>>

\* codegen_using: enter, the body, exit.
GenerateUsing ==
  LET class == ClassOf(Head(todo))
  IN /\ phase = "generate" /\ todo # <<>> /\ Head(todo).kind = "using"
     /\ todo' = Tail(todo)
     /\ held' = Append(held, [at |-> at - 1, resource |-> Head(todo),
                             enter |-> MethodOf(class, <<"enter">>), exit |-> MethodOf(class, <<"exit">>)])
     /\ declared' = declared \cup ({MethodOf(class, <<"enter">>), MethodOf(class, <<"exit">>)} \ {Undefined})
     /\ UNCHANGED <<program, phase, at, checker, maps, types, classes, links, called>>

Next == Declare \/ Check \/ NextPhase \/ GenerateImport \/ GenerateFunction \/ GenerateCall \/ GenerateUsing

Spec == Init /\ [][Next]_vars

-----------------------------------------------------------------------------
(* What a call may reach: the functions of its name that stand in front of *)
(* it or above it, by the form of the imports.                             *)

Function(symbol, params, origin, given) == [symbol |-> symbol, params |-> params, origin |-> origin, given |-> given]

ImportedBy(imp, call) ==
  {Function(e.symbol, e.params, imp.file.kind, e.pc) :
     e \in {e \in ToSet(EntriesOf(imp.file)) :
             /\ e.kind = "function" /\ e.orig = call.name
             /\ imp.selected = {} \/ e.orig \in imp.selected
             /\ call.scope \in ToSet(ScopesOf(imp))}}

Visible(i, call) ==
  UNION {IF program[j].kind = "import" THEN ImportedBy(program[j], call)
         ELSE IF program[j].name = call.name /\ call.scope = <<>>
              THEN {Function(ObjectName(program[j]), program[j].params, "local", ObjectName(program[j]))} ELSE {}
         : j \in 1..i}

\* Arguments whose type is written down, and has a letter of its own.
Plain(call) ==
  \A i \in DOMAIN call.args :
    \/ call.args[i].form = "literal" /\ call.args[i].type \in {"int", "float", "string"}
    \/ call.args[i].form = "variable" /\ call.args[i].type \in DOMAIN LetterOf \cup Pointers

Exact(i, call) == {f \in Visible(i, call) : f.params = [a \in DOMAIN call.args |-> call.args[a].type]}

\* No two functions of the module have one name in the object file, f2() and f(int) say.
NoNameTwice ==
  \A i, j \in DOMAIN program :
    (program[i].kind = "function" /\ program[j].kind = "function" /\ ObjectName(program[i]) = ObjectName(program[j]))
      => i = j

\* The function is the module's own, or comes from a header as all others of its name, or has
\* no other of its name; and what the object file calls it was not the name of another function.
Certain(f, i, call) ==
  LET others == Visible(i, call) \ {f}
  IN  /\ f.given = MangleName(call.name, f.params) \/ others = {}
      /\ f.origin = "local" \/ others = {} \/ \A g \in others \cup {f} : g.origin = "ph"
      /\ \A g \in others : g.symbol \notin {f.symbol, call.name}

Ended == phase \in {"built", "rejected", "failed"}

\* The call that the compiler gave up at.
GivenUp(i, k) == phase = "failed" /\ i = at - 1 /\ k = Len(program[i].body) - Len(todo)

\* A call whose arguments have just the types of one visible function reaches that function, with
\* arguments as it takes them: the type checker and the code generator do not refuse it, and no
\* overload is taken in its place.  (tc_call, mangle_call_name, codegen_call)
ReachesExact ==
  (Ended /\ NoNameTwice) =>
    \A i \in DOMAIN program : program[i].kind = "function" =>
      \A k \in {k \in DOMAIN program[i].body : program[i].body[k].kind = "call"} :
        LET call == program[i].body[k]
            sure == {f \in Exact(i, call) : Certain(f, i, call)}
        IN  (Plain(call) /\ Len(call.scope) < 2 /\ Cardinality(Exact(i, call)) = 1) =>
              \A f \in sure :
                /\ Accepted(call)
                /\ ~GivenUp(i, k)
                /\ \A c \in ToSet(called) : (c.at = i /\ c.call = call) =>
                     c.symbol = f.symbol /\ c.passed = c.params

\* A call reaches only a function that its name stands for: one of an import that brings it in under
\* this name, or one of the module.  (codegen_import, codegen_call)
OnlyVisible ==
  NoNameTwice =>
    \A c \in ToSet(called) : Len(c.call.scope) < 2 =>
      \E f \in Visible(c.at, c.call) : f.symbol = c.symbol

\* A qualified call, and a bare one to a function of the module, pass arguments of the types that
\* the function takes: a function found by its plain name is validated, one found by its mangled name
\* has letters that stand for these types.  (validate_call_args, mangle_call_name)
WellTyped ==
  NoNameTwice =>
    \A c \in ToSet(called) :
      (/\ Plain(c.call)
       /\ \/ Len(c.call.scope) = 1
          \/ c.call.scope = <<>> /\ \E f \in Visible(c.at, c.call) : f.symbol = c.symbol /\ f.origin = "local")
      => c.passed = c.params

\* The depth after each line.
DepthsOf(lines) ==
  LET depth[n \in 0 .. Len(lines)] == IF n = 0 THEN 0 ELSE DepthAfter(depth[n - 1], lines[n].braces)
  IN  depth

\* A line in the body of a function, which begins at a declaring line and has not ended.
InBody(lines, i) ==
  \E d \in 1 .. i - 1 : lines[d].declares /\ \A k \in d .. i - 1 : DepthsOf(lines)[k] > 0

\* A function opens at the top, on the line of its name, and closes on a later one; what looks like
\* a function is one, or stands in the body of one, and so does a construct that is on one line with
\* its braces; and there are no classes.
PlainStyle(file) ==
  \A i \in DOMAIN file.lines :
    LET line == file.lines[i]
    IN  /\ line.kind # "class"
        /\ line.declares => /\ line.kind = "function" /\ line.bodied /\ line.braces = <<OpenBrace>>
                            /\ DepthsOf(file.lines)[i - 1] = 0
        /\ (line.kind = "function" /\ ~line.declares) => InBody(file.lines, i)
        /\ (line.kind = "construct" /\ Contains(line.braces, OpenBrace) /\ DepthsOf(file.lines)[i] = 0)
             => InBody(file.lines, i)

Declaring(lines) == Picked(lines, {n \in DOMAIN lines : lines[n].declares})

\* The functions that are read from a source file in plain style are those that are there; and each is
\* called by the symbol that the compiler gives it, unless it takes an integer of 64 bits, for which the
\* reader has letters of its own.  (parse_pc_file)
SourcesRead ==
  \A i \in DOMAIN program :
    (program[i].kind = "import" /\ program[i].file.kind = "pc" /\ PlainStyle(program[i].file)) =>
      LET there == Declaring(program[i].file.lines)
          read  == EntriesOf(program[i].file)
      IN  /\ [k \in DOMAIN read |-> read[k].orig] = [k \in DOMAIN there |-> there[k].name]
          /\ \A e \in ToSet(read) :
               ToSet(e.params) \cap {"int", "long", "i64", "u64"} = {} => e.symbol = MangleName(e.orig, e.params)

\* The imports among the first i declarations.
ImportsTo(i) == {program[j] : j \in {j \in 1 .. i : program[j].kind = "import"}}

\* A resource may be of a class: by the type of a variable, or as a class of the module whose function
\* is called.
MayBe(resource, class, scope) ==
  CASE resource.form = "variable" -> /\ Last(resource.path) = class.name
                                     /\ Len(resource.path) = 2 => resource.path[1] = scope
    [] resource.form = "call"     -> resource.path = <<scope>>
    [] OTHER                      -> FALSE

MethodSymbols(class, name) == {m.symbol : m \in {m \in ToSet(class.methods) : m.orig = name}}

\* What enters and leaves the classes that a resource may have.
ResourceClasses(i, resource) ==
  {[enter |-> MethodSymbols(class, <<"enter">>), exit |-> MethodSymbols(class, <<"exit">>)] :
     class \in UNION {{c \in ToSet(ClassesOf(imp)) : \E s \in ToSet(ClassScopes(imp)) : MayBe(resource, c, s)} :
                       imp \in ImportsTo(i)}}

\* No function or method has the name of a class, and no two classes have names that differ in case only.
ClassNamesApart ==
  \A imp, other \in ImportsTo(Len(program)) : \A c \in ToSet(ClassesOf(imp)) :
    LET Named(name) == Len(name) = 1 /\ SameIgnoringCase(name[1], c.name)
    IN  /\ \A f \in ToSet(FunctionsOf(other)) : ~Named(f.orig)
        /\ \A d \in ToSet(ClassesOf(other)) :
             /\ SameIgnoringCase(d.name, c.name) => d.name = c.name
             /\ \A m \in ToSet(d.methods) : ~Named(m.orig)

\* A using of a resource of one class calls what enters this class in front of its body and what leaves
\* it behind, however the module was imported and whatever else is: the write to a shared variable that
\* the type checker lets pass there happens under that lock.  (codegen_using, resolve_class_name)
UsingHolds ==
  ClassNamesApart =>
    \A h \in ToSet(held) : \A class \in ResourceClasses(h.at, h.resource) :
      ResourceClasses(h.at, h.resource) = {class} =>
        \A enter \in class.enter, exit \in class.exit :
          (class.enter = {enter} /\ class.exit = {exit}) => h.enter = enter /\ h.exit = exit
=============================================================================
