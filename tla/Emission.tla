------------------------------ MODULE Emission ------------------------------
(***************************************************************************)
(* The code of expressions (codegen/expr.c) and of the statements that     *)
(* hold one (codegen/stmt.c): basic blocks of instructions.                *)
(*                                                                         *)
(* The state of the builder goes from one operator to the next: the blocks *)
(* so far, the one that is built, and the operand that stands for the      *)
(* expression just generated.  The counts of ARC are in ArcCodegen.        *)
(***************************************************************************)
EXTENDS Typing

\* Values that are not computed: constants, the addresses of variables.
Term(op, args) == [op |-> op, args |-> args]
Atom(name) == Term(name, <<>>)

Constant(ty, name) == [ty |-> ty, reg |-> 0, term |-> Atom(name)]
Register(ty, reg) == [ty |-> ty, reg |-> reg, term |-> Atom("")]
Number(i) == Constant(I64, ToString(i))
Slot(v) == Constant(Ptr(MachineOfVar(v)), v)
NoOperand == Register(Plain("void"), 0)

Builder == [blocks |-> <<<<>>>>, cur |-> 1, count |-> 0, val |-> NoOperand, ok |-> TRUE]

\* LLVMBuild...: an instruction at the end of the block that is built, with the blocks or
\* the name it refers to.
Build(g, op, ty, args, to, name) ==
  [g EXCEPT !.count = @ + 1,
            !.blocks[g.cur] = Append(@, [op |-> op, ty |-> ty, args |-> args, to |-> to, name |-> name,
                                         reg |-> g.count + 1]),
            !.val = Register(ty, g.count + 1)]
Emit(g, op, ty, args) == Build(g, op, ty, args, <<>>, "")
CallOf(g, name, ty, args) == Build(g, "call", ty, args, <<>>, name)
Branches(g, args, to) == Build(g, "br", Plain("void"), args, to, "")
Phi(g, ty, args, from) == Build(g, "phi", ty, args, from, "")
Load(g, ty, from) == Emit(g, "load", ty, <<from>>)
Giving(g, v) == [g EXCEPT !.val = v]
Store(g, v, to) == Giving(Emit(g, "store", Plain("void"), <<v, to>>), v)
Append2(g) == [g EXCEPT !.blocks = @ \o <<<<>>, <<>>>>]
PositionAt(g, block) == [g EXCEPT !.cur = block]

\* A conversion to the type that a value has already is none.
Convert(g, op, v, ty) == IF v.ty = ty THEN Giving(g, v) ELSE Emit(g, op, ty, <<v>>)

RECURSIVE Gen(_, _, _)
CodegenExpr(n, g) == Gen("value", n, g)
GetLvalue(n, g) == Gen("place", n, g)

\* Expressions one after the other, and their operands.
GenAll(ns, g) ==
  FoldLeft(LAMBDA s, n : LET h == CodegenExpr(n, s.g) IN [g |-> h, vals |-> Append(s.vals, h.val)],
           [g |-> g, vals |-> <<>>], ns)

-----------------------------------------------------------------------------
IntOp ==
  "+" :> "add" @@ "-" :> "sub" @@ "*" :> "mul" @@ "/" :> "sdiv" @@ "%" :> "srem" @@
  "<" :> "slt" @@ ">" :> "sgt" @@ "<=" :> "sle" @@ ">=" :> "sge" @@ "==" :> "eq" @@ "!=" :> "ne" @@
  "&" :> "and" @@ "|" :> "or" @@ "^" :> "xor" @@ "<<" :> "shl" @@ ">>" :> "ashr"
FloatOp ==
  "+" :> "fadd" @@ "-" :> "fsub" @@ "*" :> "fmul" @@ "/" :> "fdiv" @@ "%" :> "frem" @@
  "<" :> "olt" @@ ">" :> "ogt" @@ "<=" :> "ole" @@ ">=" :> "oge" @@ "==" :> "oeq" @@ "!=" :> "one"

\* && and ||: the right operand in a block of its own.
GenLogical(n, g) ==
  LET left  == CodegenExpr(n.kids[1], g)
      rhs   == Len(left.blocks) + 1
      merge == rhs + 1
      split == Branches(Append2(left), <<left.val>>, IF Op(n) = "&&" THEN <<rhs, merge>> ELSE <<merge, rhs>>)
      right == CodegenExpr(n.kids[2], PositionAt(split, rhs))
  IN  Phi(PositionAt(Branches(right, <<>>, <<merge>>), merge), I1,
          <<Constant(I1, IF Op(n) = "&&" THEN "false" ELSE "true"), right.val>>, <<left.cur, right.cur>>)

\* codegen_binary: with a float on one side the other side is made one.
GenBinary(n, g) ==
  LET op == Op(n)
      left  == CodegenExpr(n.kids[1], g)
      right == CodegenExpr(n.kids[2], left)
      floats == {v \in {left.val, right.val} : IsFloat(v.ty)} # {}
      AsDouble(h, v) == IF floats /\ ~IsFloat(v.ty) THEN Emit(h, "sitofp", Double, <<v>>) ELSE Giving(h, v)
      l == AsDouble(right, left.val)
      r == AsDouble(l, right.val)
      pl == Convert(r, "sitofp", l.val, Double)
      pr == Convert(pl, "sitofp", r.val, Double)
      pow == CallOf(pr, "pow", Double, <<pl.val, pr.val>>)
  IN CASE op \in Logical -> GenLogical(n, g)
       [] op = "+" /\ IsPtr(left.val.ty) /\ IsPtr(right.val.ty) ->
            CallOf(right, "str_concat", Ptr(I8), <<left.val, right.val>>)
       [] op = "**" -> Convert(pow, "fptosi", pow.val, IF floats THEN l.val.ty ELSE I64)
       [] OTHER -> Emit(r, IF floats /\ op \in DOMAIN FloatOp THEN FloatOp[op] ELSE IntOp[op],
                        IF op \in Orders \cup Equalities THEN I1 ELSE l.val.ty, <<l.val, r.val>>)

\* codegen_unary: what ++ changes is an i64 unless it is a variable, and what a pointer
\* points to always is.
GenUnary(n, g) ==
  LET op == Op(n)
      operand == n.kids[1]
      place == GetLvalue(operand, g)
      ty  == IF operand.kind = "ident" THEN MachineOfVar(Op(operand)) ELSE I64
      old == Load(place, ty, place.val)
      new == Emit(old, IF op = "++" THEN "add" ELSE "sub", ty, <<old.val, Constant(ty, "1")>>)
      v   == CodegenExpr(operand, g)
  IN CASE op \in {"++", "--"} ->
            Giving(Store(new, new.val, place.val), IF n.text[2] = "prefix" THEN new.val ELSE old.val)
       [] op = "-" -> Emit(v, IF IsFloat(v.val.ty) THEN "fneg" ELSE "neg", v.val.ty, <<v.val>>)
       [] op = "~" -> Emit(v, "xor", v.val.ty, <<v.val, Constant(I64, "-1")>>)
       [] op = "*" -> Load(v, I64, v.val)

\* The element at an index, of the type that an array variable has, or an i64.
ElementType(object) ==
  IF object.kind = "ident" /\ VarTypes[Op(object)].base = "array"
    THEN Machine(VarTypes[Op(object)].parts[1]) ELSE I64
ElementPlace(n, g) ==
  LET object == CodegenExpr(n.kids[1], g)
      index  == CodegenExpr(n.kids[2], object)
  IN  Emit(index, "gep", Ptr(ElementType(n.kids[1])), <<object.val, index.val>>)

\* A field of a structure in a variable; a tuple's variable is never written so.
IsField(n) == n.kind = "member" /\ n.kids[1].kind = "ident" /\ VarTypes[Op(n.kids[1])].base \in DOMAIN FieldsOf
FieldPlace(base, struct, i, g) ==
  Emit(g, "gep", Ptr(struct.parts[i]), <<base, Constant(Plain("i32"), ToString(i - 1))>>)
MemberPlace(n, g) ==
  LET v == Op(n.kids[1])
  IN  FieldPlace(Slot(v), MachineOfVar(v), FieldIndex(VarTypes[v].base, Op(n)), g)

GenPlace(n, g) ==
  CASE n.kind = "ident" -> Giving(g, Slot(Op(n)))
    [] IsField(n) -> MemberPlace(n, g)
    [] n.kind = "unary" /\ Op(n) = "*" -> CodegenExpr(n.kids[1], g)
    [] n.kind = "index" -> ElementPlace(n, g)
    [] OTHER -> CodegenExpr(n, g)

\* codegen_assign: of a tuple the whole is read before the value and written after it, and
\* the operator is not asked.
CompoundOp == "+=" :> "add" @@ "-=" :> "sub" @@ "*=" :> "mul" @@ "/=" :> "sdiv"
WrapIf(condition, g) == IF condition THEN CallOf(g, "arc_wrap_string", Ptr(I8), <<g.val>>) ELSE g

GenTupleAssign(n, g) ==
  LET v == Op(n.kids[1].kids[1])
      old == Load(g, MachineOfVar(v), Slot(v))
      new == CodegenExpr(n.kids[2], old)
      tuple == Build(new, "insert", old.val.ty, <<old.val, new.val>>, <<>>, ToString(Op(n.kids[1])))
  IN  Giving(Store(tuple, tuple.val, Slot(v)), new.val)

\* Mutant: the value is generated before the place.
GenAssignValueFirst(n, g) ==
  LET value == CodegenExpr(n.kids[2], g)
      place == GetLvalue(n.kids[1], value)
      loaded == Load(place, value.val.ty, place.val)
      result == Emit(loaded, CompoundOp[Op(n)], loaded.val.ty, <<loaded.val, value.val>>)
  IN CASE n.kids[1].kind = "tuple_field" -> GenTupleAssign(n, g)
       [] n.kids[1].kind # "tuple_field" /\ Op(n) = "=" -> Store(place, value.val, place.val)
       [] OTHER -> Store(result, result.val, place.val)

GenAssign(n, g) ==
  LET target == n.kids[1]
      place == GetLvalue(target, g)
      value == CodegenExpr(n.kids[2], place)
      text  == WrapIf(n.kids[2].kind = "string" /\ target.kind = "ident" /\ VarTypes[Op(target)] = StringT, value)
      loaded == Load(value, value.val.ty, place.val)
      result == Emit(loaded, CompoundOp[Op(n)], loaded.val.ty, <<loaded.val, value.val>>)
  IN CASE target.kind = "tuple_field" -> GenTupleAssign(n, g)
       [] target.kind # "tuple_field" /\ Op(n) = "=" -> Store(text, text.val, place.val)
       [] OTHER -> Store(result, result.val, place.val)

GenTernary(n, g) ==
  LET cond  == CodegenExpr(n.kids[1], g)
      then  == Len(cond.blocks) + 1
      else  == then + 1
      split == Branches(Append2(cond), <<cond.val>>, <<then, else>>)
      merge == else + 1
      third == [split EXCEPT !.blocks = Append(@, <<>>)]
      tv == CodegenExpr(n.kids[2], PositionAt(third, then))
      ev == CodegenExpr(n.kids[3], PositionAt(Branches(tv, <<>>, <<merge>>), else))
  IN  Phi(PositionAt(Branches(ev, <<>>, <<merge>>), merge), tv.val.ty, <<tv.val, ev.val>>, <<tv.cur, ev.cur>>)

-----------------------------------------------------------------------------
\* codegen_auto_tostring, and e.to<string>, which knows f32 besides.
ToText(g, v, single) ==
  LET wide == Convert(g, IF v.ty = I1 THEN "zext" ELSE "sext", v, I64)
      long == Convert(g, "fpext", v, Double)
  IN CASE v.ty = I1 -> CallOf(wide, "bool_to_string", Ptr(I8), <<wide.val>>)
       [] v.ty # I1 /\ IsInt(v.ty) -> CallOf(wide, "int_to_string", Ptr(I8), <<wide.val>>)
       [] v.ty = Double \/ (single /\ v.ty = Single) ->
            CallOf(long, "float_to_string", Ptr(I8), <<long.val>>)
       [] OTHER -> Giving(g, v)

\* e.to<T>: the value is that of the member to of e, and so that of e.
GenTo(n, g) ==
  LET target == TargetOf(n)
      h  == CodegenExpr(n.kids[1].kids[1], g)
      v  == h.val
      ty == Machine(Plain(target))
      zero == Constant(IF IsInt(v.ty) THEN v.ty ELSE Double, "0")
      int  == CallOf(h, "parse_int", I64, <<v>>)
      real == CallOf(h, "parse_float", Double, <<v>>)
  IN CASE target = "string" -> ToText(h, v, TRUE)
       [] target = "bool" ->
            IF v.ty = I1 THEN h
            ELSE IF IsInt(v.ty) THEN Emit(h, "ne", I1, <<v, zero>>)
            ELSE IF IsFloat(v.ty) THEN Emit(h, "une", I1, <<v, zero>>)
            ELSE Giving(h, Constant(I1, "true"))
       [] IsInt(ty) /\ target # "bool" ->
            IF IsInt(v.ty) THEN Convert(h, IF Narrower(v.ty.base, ty.base) THEN "sext" ELSE "trunc", v, ty)
            ELSE IF IsFloat(v.ty) THEN Emit(h, "fptosi", ty, <<v>>)
            ELSE Convert(int, "trunc", int.val, ty)
       [] IsFloat(ty) ->
            IF <<v.ty, target>> \in {<<Double, "f64">>, <<Single, "f32">>} THEN h
            ELSE IF <<v.ty, target>> = <<Double, "f32">> THEN Emit(h, "fptrunc", ty, <<v>>)
            ELSE IF <<v.ty, target>> = <<Single, "f64">> THEN Emit(h, "fpext", ty, <<v>>)
            ELSE IF IsInt(v.ty) THEN Emit(h, "sitofp", ty, <<v>>)
            ELSE Convert(real, "fptrunc", real.val, ty)

\* codegen_fstring: the parts made strings and put behind each other.
GenFString(n, g) ==
  LET TextOf(part, h) ==
        IF part.kind = "text" THEN Giving(h, Constant(Ptr(I8), part.text[1]))
        ELSE LET e == CodegenExpr(part, h) IN ToText(e, e.val, FALSE)
      Joined(h, part) ==
        LET p == TextOf(part, h) IN CallOf(p, "str_concat", Ptr(I8), <<h.val, p.val>>)
  IN  FoldLeft(Joined, TextOf(Head(n.kids), g), Tail(n.kids))

\* codegen_array_lit: a first element that is no literal is generated for its type, and
\* again for its value.  The word with the length is left out.
FirstOf(n, g) ==
  IF n.kids[1].kind \in {"int", "float", "string"}
    THEN Giving(g, CodegenExpr(n.kids[1], Builder).val) ELSE CodegenExpr(n.kids[1], g)
GenArray(n, g) ==
  LET first == FirstOf(n, g)
      elem  == first.val.ty
      alloc == Emit(first, "alloc", Ptr(elem), <<>>)
      Fill(h, i) ==
        LET v == CodegenExpr(n.kids[i], h)
            p == Emit(v, "gep", Ptr(elem), <<alloc.val, Number(i - 1)>>)
        IN  Store(p, v.val, p.val)
  IN  Giving(FoldLeft(Fill, alloc, [i \in DOMAIN n.kids |-> i]), alloc.val)

GenTuple(n, g) ==
  LET all == GenAll(n.kids, g)
  IN  Emit(all.g, "tuple", Struct([i \in DOMAIN all.vals |-> all.vals[i].ty]), all.vals)

GenTupleField(n, g) ==
  LET object == CodegenExpr(n.kids[1], g)
      parts == object.val.ty.parts
  IN  Build(object, "extract", IF Op(n) < Len(parts) THEN parts[Op(n) + 1] ELSE I64, <<object.val>>, <<>>,
            ToString(Op(n)))

\* mangle_call_name: the letter that a call guesses from the form of an argument.  With a
\* string or a conversion in front a + is taken for a concatenation.
TakenForText(n) ==
  /\ Op(n) = "+"
  /\ \/ "string" \in {n.kids[1].kind, n.kids[2].kind}
     \/ n.kids[1].kind = "ident" /\ VarTypes[Op(n.kids[1])] = StringT
     \/ IsTo(n.kids[1])
ArgLetter(n) ==
  LET BaseOf(v) == VarTypes[Op(v)].base
      left == n.kids[1]
      isText == n.kind = "binary" /\ TakenForText(n)
  IN CASE n.kind \in {"string", "fstring"} \/ isText -> "s"
       [] n.kind = "float" -> "f"
       [] n.kind = "ident" -> IF BaseOf(n) \in DOMAIN LetterOf THEN LetterOf[BaseOf(n)] ELSE "p"
       [] n.kind \in {"binary", "unary"} /\ ~isText ->
            IF left.kind = "ident" /\ IsFloat(MachineOfVar(Op(left))) THEN LetterOf[BaseOf(left)] ELSE "2"
       [] IsTo(n) -> IF TargetOf(n) \in {"i128", "u128", "isize", "usize"} THEN "2" ELSE LetterOf[TargetOf(n)]
       [] OTHER -> "2"

ParamType(n) == Machine(ParamOf[Callee(n)])
ParamLetter(n) == LetterOf[ParamOf[Callee(n)].base]

\* A function is found by its name with the letter of its parameter; one of a header is
\* found by its plain name as well.
ByMangledName(n) == ArgLetter(n.kids[2]) = ParamLetter(n)

\* validate_call_args: the argument is generated for its type.
ValidateCallArgs(n, g) ==
  LET arg == CodegenExpr(n.kids[2], g) IN [arg EXCEPT !.ok = @ /\ arg.val.ty = ParamType(n)]

\* For a function of the program that is not found so five letters are tried, with an
\* argument of type ty.
AmongOverloads(n, ty) ==
  /\ ParamLetter(n) \in {"i", "f", "s", "b", "c"}
  /\ ty = ParamType(n) \/ (IsPtr(ty) /\ IsPtr(ParamType(n))) \/ Narrower(ty.base, ParamType(n).base)

\* codegen_call: an argument that was validated is generated once more, and an integer that
\* is too narrow is widened.
GenCall(n, g) ==
  LET tried == IF ~ByMangledName(n) /\ IsQualified(n) THEN ValidateCallArgs(n, g) ELSE g
      given == CodegenExpr(n.kids[2], tried)
      found == ByMangledName(n) \/ IsQualified(n) \/ AmongOverloads(n, given.val.ty)
      arg   == IF Narrower(given.val.ty.base, ParamType(n).base) THEN Emit(given, "sext", ParamType(n), <<given.val>>)
                                                             ELSE given
      call  == CallOf(arg, Callee(n), I64, <<arg.val>>)
  IN  [call EXCEPT !.ok = @ /\ found]

GenIndex(n, g) == LET p == ElementPlace(n, g) IN Load(p, ElementType(n.kids[1]), p.val)
GenMember(n, g) ==
  LET p == MemberPlace(n, g)
  IN  IF IsField(n) THEN Load(p, p.val.ty.parts[1], p.val) ELSE CodegenExpr(n.kids[1], g)

-----------------------------------------------------------------------------
(* Statements.                                                             *)

New == "new"   \* the variable that a declaration declares

\* Mutant: integers are converted only.
CoercionOfInts(from, to) ==
  IF IsInt(from) /\ IsInt(to) THEN IF Narrower(from.base, to.base) THEN "sext" ELSE "trunc" ELSE "none"

\* What a declaration converts its first value by, by the two types.
Coercion(from, to) ==
  CASE IsInt(from) /\ IsPtr(to)    -> "inttoptr"
    [] IsPtr(from) /\ IsInt(to)    -> "ptrtoint"
    [] IsInt(from) /\ IsInt(to)    -> IF Narrower(from.base, to.base) THEN "sext" ELSE "trunc"
    [] from = Double /\ IsInt(to)  -> "fptosi"
    [] IsInt(from) /\ to = Double  -> "sitofp"
    [] OTHER -> "none"

\* codegen_var_decl; the first element of an array is looked at a last time.
GenDeclare(p, g) ==
  LET ty == Machine(p.type)
      slot == Constant(Ptr(ty), New)
      init == CodegenExpr(p.expr, g)
      cast == Coercion(init.val.ty, ty)
      conv == IF cast = "none" THEN init ELSE Convert(init, cast, init.val, ty)
      text == WrapIf(p.expr.kind = "string" /\ p.type = StringT, conv)
      done == Store(text, text.val, slot)
      Fill(h, i) ==
        LET v == CodegenExpr(p.expr.kids[i], h)
            f == FieldPlace(slot, ty, i, v)
        IN  Store(f, v.val, f.val)
  IN CASE p.expr.kind = "init"  -> FoldLeft(Fill, g, [i \in DOMAIN p.expr.kids |-> i])
       [] p.expr.kind = "array" -> FirstOf(p.expr, done)
       [] OTHER -> done

-----------------------------------------------------------------------------
\* codegen_expr, with mode "value", get_lvalue, and the statements.
Gen(mode, n, g) ==
  CASE mode = "place"  -> GenPlace(n, g)
    [] mode = "expr"   -> CodegenExpr(n.expr, g)
    [] mode = "decl"   -> GenDeclare(n, g)
    [] mode = "return" -> LET v == CodegenExpr(n.expr, g) IN Emit(v, "ret", Machine(n.type), <<v.val>>)
    [] mode = "value"  ->
       CASE n.kind = "int"     -> Giving(g, Constant(I64, Op(n)))
         [] n.kind = "float"   -> Giving(g, Constant(Double, Op(n)))
         [] n.kind = "string"  -> Giving(g, Constant(Ptr(I8), Op(n)))
         [] n.kind = "ident"   -> Load(g, MachineOfVar(Op(n)), Slot(Op(n)))
         [] n.kind = "binary"  -> GenBinary(n, g)
         [] n.kind = "unary"   -> GenUnary(n, g)
         [] n.kind = "assign"  -> GenAssign(n, g)
         [] n.kind = "ternary" -> GenTernary(n, g)
         [] n.kind = "member"  -> GenMember(n, g)
         [] n.kind = "fstring" -> GenFString(n, g)
         [] n.kind = "array"   -> GenArray(n, g)
         [] n.kind = "index"   -> GenIndex(n, g)
         [] n.kind = "tuple"   -> GenTuple(n, g)
         [] n.kind = "tuple_field" -> GenTupleField(n, g)
         [] n.kind = "call"    -> IF IsTo(n) THEN GenTo(n, g) ELSE GenCall(n, g)

GenStmt(p) == Gen(p.stmt, p, Builder)
=============================================================================
