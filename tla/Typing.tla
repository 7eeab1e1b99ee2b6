------------------------------- MODULE Typing -------------------------------
(***************************************************************************)
(* The types of expressions as the type checker sees them                  *)
(* (frontend/typecheck.c), and as LLVM does (codegen/type.c).              *)
(*                                                                         *)
(* A type is a base and the types it is built from.  Expressions are trees *)
(* as the parser makes them (Syntax); e.to<T> is a call there.             *)
(***************************************************************************)
EXTENDS Integers, Syntax, Names

CONSTANTS
  VarTypes,   \* the type that each variable is declared with
  FieldsOf,   \* the fields of each structure, a sequence of [name, type]
  ParamOf     \* the type of the one parameter of each function; all return an int

Type(base, parts) == [base |-> base, parts |-> parts]
Plain(base) == Type(base, <<>>)
Pointer(t) == Type("pointer", <<t>>)
Array(t) == Type("array", <<t>>)
Tuple(ts) == Type("tuple", ts)

IntT == Plain("int")   FloatT == Plain("float")   BoolT == Plain("bool")   StringT == Plain("string")
Error == Plain("error")   Unknown == Plain("unknown")

\* The expressions that an expression is built from: of a call the arguments, and of e.to<T>
\* the member to of e.
Parts(n) ==
  CASE IsTo(n) -> n.kids[1].kids
    [] n.kind = "call" /\ ~IsTo(n) -> Tail(n.kids)
    [] OTHER -> SelectSeq(n.kids, LAMBDA k : k.kind # "text")

TargetOf(n) == n.kids[2].text[1]                \* the T of e.to<T>
IsQualified(n) == n.kids[1].kind = "member"     \* a call of a function of a module
Op(n) == n.text[1]

\* A function of the program goes by its name, one of a header by its module's and its own.
Callee(n) == IF IsQualified(n) THEN Op(n.kids[1].kids[1]) \o "." \o Op(n.kids[1]) ELSE Op(n.kids[1])
FieldIndex(s, field) == SelectInSeq(FieldsOf[s], LAMBDA f : f.name = field)

-----------------------------------------------------------------------------
(* The type checker.                                                       *)

\* resolve_tc_type: an array is no type that it knows.
RECURSIVE Kind(_)
Kind(t) ==
  CASE t.base = "array" -> Unknown
    [] t.base \in {"pointer", "tuple"} -> Type(t.base, [i \in DOMAIN t.parts |-> Kind(t.parts[i])])
    [] t.base \in DOMAIN FieldsOf -> t
    [] OTHER -> Plain(KindOf(t.base, {}))

IsNumeric(k) == k.base \in IntKinds \cup FloatKinds

\* is_coercible
RECURSIVE IsCoercible(_, _)
IsCoercible(from, to) ==
  \/ from = to
  \/ Error \in {from, to}
  \/ from.base # to.base /\ Coercible(from.base, to.base)
  \/ /\ from.base = "tuple" /\ to.base = "tuple"
     /\ Len(from.parts) = Len(to.parts)
     /\ \A i \in DOMAIN from.parts : IsCoercible(from.parts[i], to.parts[i])

\* What a function of the checker returns, and whether it reported an error itself.
Checks(kind, ok) == [kind |-> kind, ok |-> ok]
Wrong == Checks(Error, FALSE)
KindIf(condition, kind) == IF condition THEN Checks(kind, TRUE) ELSE Wrong

Arithmetic == {"+", "-", "*", "/", "%"}
Orders == {"<", ">", "<=", ">="}
Equalities == {"==", "!="}
BitOps == {"&", "|", "^", "<<", ">>"}
Logical == {"&&", "||"}

TcBinary(op, a, b) ==
  LET numeric == IsNumeric(a) /\ IsNumeric(b)
  IN CASE op \in Logical -> Checks(BoolT, {a, b} \subseteq {BoolT, Error})
       [] op \notin Logical /\ Error \in {a, b} -> Checks(Error, TRUE)
       [] OTHER ->
            CASE op \in Arithmetic ->
                   IF StringT \in {a, b} THEN KindIf(a = b /\ op = "+", StringT)
                   ELSE IF Unknown \in {a, b} THEN Checks(Unknown, TRUE)
                   ELSE KindIf(numeric, IF FloatT \in {a, b} THEN FloatT ELSE IntT)
              [] op = "**"          -> KindIf(numeric, FloatT)
              [] op \in Orders      -> KindIf(numeric, BoolT)
              [] op \in Equalities  -> KindIf(IsCoercible(a, b) \/ IsCoercible(b, a), BoolT)
              [] op \in BitOps      -> KindIf(numeric, IntT)

TcUnary(op, a) ==
  CASE op \in {"++", "--", "-"} -> Checks(a, IsNumeric(a) \/ a = Error)
    [] op = "~" -> Checks(IntT, a \in {IntT, Error})
    [] op = "*" -> IF a.base = "pointer" THEN Checks(a.parts[1], TRUE)
                   ELSE KindIf(a = Error, Unknown)

\* The checks of mut and shared are in Scopes.
TcAssign(op, target, value) ==
  LET Counts(k) == IsNumeric(k) \/ k \in {Unknown, Error}
  IN  KindIf((op = "=" \/ (Counts(target) /\ Counts(value))) /\ IsCoercible(value, target), value)

TcTernary(cond, a, b) ==
  Checks(IF Error \in {a, b} THEN Error ELSE IF a = b THEN a ELSE Unknown, cond \in {BoolT, Error})

TcMember(object, field) ==
  LET s == IF object.base = "pointer" THEN object.parts[1].base ELSE object.base
  IN  IF s \notin DOMAIN FieldsOf THEN Checks(Unknown, TRUE)
      ELSE KindIf(FieldIndex(s, field) > 0, Kind(FieldsOf[s][FieldIndex(s, field)].type))

\* The fields of a tuple are counted from 0.
TcTupleField(object, i) ==
  IF object.base # "tuple" \/ i >= Len(object.parts) THEN Wrong
  ELSE Checks(object.parts[i + 1], TRUE)

\* An own function takes an int and returns one; what a qualified one takes and returns is
\* not asked.
TcCall(n, arg) ==
  IF IsQualified(n) THEN Checks(Unknown, TRUE) ELSE Checks(IntT, IsCoercible(arg, Kind(ParamOf[Callee(n)])))

TcTo(target) == LET kind == Kind(Plain(target)) IN KindIf(kind # Unknown, kind)

\* tc_expr: the kind of an expression, and whether it is free of errors.  Of an array only
\* the first element is looked at, and an element of anything is an int.
RECURSIVE Checked(_)
Checked(n) ==
  LET parts == Parts(n)
      K(i) == Checked(parts[i]).kind
      own ==
        CASE n.kind = "int"     -> Checks(IntT, TRUE)
          [] n.kind = "float"   -> Checks(FloatT, TRUE)
          [] n.kind = "string"  -> Checks(StringT, TRUE)
          [] n.kind = "ident"   -> Checks(Kind(VarTypes[Op(n)]), TRUE)
          [] n.kind = "binary"  -> TcBinary(Op(n), K(1), K(2))
          [] n.kind = "unary"   -> TcUnary(Op(n), K(1))
          [] n.kind = "assign"  -> TcAssign(Op(n), K(1), K(2))
          [] n.kind = "ternary" -> TcTernary(K(1), K(2), K(3))
          [] n.kind = "member"  -> TcMember(K(1), Op(n))
          [] n.kind = "index"   -> Checks(IntT, TRUE)
          [] n.kind = "array"   -> Checks(K(1), TRUE)
          [] n.kind = "init"    -> Checks(Unknown, TRUE)
          [] n.kind = "tuple"   -> Checks(Tuple([i \in DOMAIN parts |-> K(i)]), TRUE)
          [] n.kind = "tuple_field" -> TcTupleField(K(1), Op(n))
          [] n.kind = "fstring" -> Checks(StringT, TRUE)
          [] n.kind = "call"    -> IF IsTo(n) THEN TcTo(TargetOf(n)) ELSE TcCall(n, K(1))
      seen == IF n.kind = "array" THEN {1} ELSE DOMAIN parts
  IN  Checks(own.kind, own.ok /\ \A i \in seen : Checked(parts[i]).ok)

\* A program is one statement: an expression, a declaration with its type, or a return in
\* a function of the type (tc_var_decl, tc_return).
IsAccepted(p) ==
  LET c == Checked(p.expr)
  IN  c.ok /\ (p.stmt = "expr" \/ IsCoercible(c.kind, Kind(p.type)))

-----------------------------------------------------------------------------
(* LLVM's types.  A pointer carries what it points to, which LLVM 20 does  *)
(* not know but the memory does.                                           *)

Ptr(t) == Type("ptr", <<t>>)
Struct(ts) == Type("struct", ts)
I1 == Plain("i1")   I8 == Plain("i8")   I64 == Plain("i64")
Double == Plain("double")   Single == Plain("single")

\* resolve_type
RECURSIVE Machine(_)
Machine(t) ==
  CASE t.base \in {"pointer", "array"} -> Ptr(Machine(t.parts[1]))
    [] t.base = "tuple"  -> Struct([i \in DOMAIN t.parts |-> Machine(t.parts[i])])
    [] t.base = "string" -> Ptr(I8)
    [] t.base \in DOMAIN FieldsOf -> Struct([i \in DOMAIN FieldsOf[t.base] |-> Machine(FieldsOf[t.base][i].type)])
    [] OTHER -> Plain(MachineOf[t.base])

MachineOfVar(v) == Machine(VarTypes[v])
IsInt(m) == m.base \in DOMAIN WidthOf
IsFloat(m) == m.base \in {"double", "single"}
IsPtr(m) == m.base = "ptr"
=============================================================================
