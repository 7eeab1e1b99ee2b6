---------------------------- MODULE Expressions ----------------------------
(***************************************************************************)
(* Programs of one statement through the type checker (Typing) and the     *)
(* code generator (Emission), and then as the machine runs them, next to   *)
(* the types and the meaning that the source has.                          *)
(*                                                                         *)
(* Values are terms: what is computed from what.  Which way a branch goes  *)
(* is open when it is taken first, and remembered for its condition.       *)
(***************************************************************************)
EXTENDS Emission

CONSTANTS
  Families,     \* what is compiled and run:
  Programs(_)   \* the programs of each family, [stmt, type, expr]

VARIABLES
  program,
  status,   \* "source", "rejected", "refused", "invalid", "running" or "done"
  code,     \* the basic blocks
  at,       \* the block and the place of the next instruction
  from,     \* the block before
  regs,     \* what the registers hold
  mem,      \* what was stored, by the term of the address
  calls,    \* the calls of functions, in order
  known     \* how conditions have turned out

evars == <<program, status, code, at, from, regs, mem, calls, known>>

-----------------------------------------------------------------------------
(* The types that an expression should have for its code to be valid.      *)

Odd == Plain("odd")

\* The common type of two operands.
Common(a, b) ==
  CASE a = b -> a
    [] a = Double /\ IsInt(b) -> Double
    [] b = Double /\ IsInt(a) -> Double
    [] OTHER -> Odd

\* How a value of one type is made one of another.
ConversionOf(a, b) ==
  CASE IsInt(a) /\ IsInt(b)     -> IF a = I1 THEN "zext" ELSE IF Narrower(a.base, b.base) THEN "sext" ELSE "trunc"
    [] IsInt(a) /\ IsFloat(b)   -> IF a = I1 THEN "uitofp" ELSE "sitofp"
    [] IsFloat(a) /\ IsInt(b)   -> "fptosi"
    [] a = Single /\ b = Double -> "fpext"
    [] a = Double /\ b = Single -> "fptrunc"
    [] OTHER -> "none"

If(condition, t) == IF condition THEN t ELSE Odd
FitsWord(t) == IsInt(t) /\ ~Narrower("i64", t.base)

StrictBinary(op, a, b) ==
  LET c == Common(a, b)
  IN CASE op \in Logical -> If(a = I1 /\ b = I1, I1)
       [] op = "**" -> IF IsInt(a) /\ IsInt(b) THEN I64 ELSE If(c = Double, Double)
       [] op \in Arithmetic -> IF op = "+" /\ IsPtr(a) /\ IsPtr(b) THEN If(a = Ptr(I8) /\ b = Ptr(I8), a)
                              ELSE If(IsInt(c) \/ IsFloat(c), c)
       [] op \in Orders     -> If(IsInt(c) \/ IsFloat(c), I1)
       [] op \in Equalities -> If(IsInt(c) \/ IsFloat(c) \/ (IsPtr(a) /\ IsPtr(b)), I1)
       [] op \in BitOps     -> If(IsInt(c), c)

StrictTo(t, target) ==
  LET ty == Machine(Plain(target))
  IN CASE target = "string" -> IF FitsWord(t) \/ IsFloat(t) THEN Ptr(I8) ELSE If(~IsInt(t), t)
       [] target = "bool"   -> If(t # Single, I1)
       [] IsInt(ty) /\ target # "bool" -> If(IsInt(t) \/ IsFloat(t) \/ (t = Ptr(I8) /\ FitsWord(ty)), ty)
       [] IsFloat(ty) -> If(IsInt(t) \/ t = Ptr(I8) \/ (IsFloat(t) /\ target \in {"f32", "f64"}), ty)

TextType(t) == IF FitsWord(t) \/ t = Double THEN Ptr(I8) ELSE If(~IsInt(t), t)

RECURSIVE Strict(_)

\* The type of what a place holds.
SlotType(n) ==
  LET Pointee(t) == IF IsPtr(t) THEN t.parts[1] ELSE Odd
  IN CASE n.kind = "ident" -> MachineOfVar(Op(n))
       [] n.kind = "unary" /\ Op(n) = "*" -> Pointee(Strict(n.kids[1]))
       [] IsField(n) \/ n.kind = "index" -> Strict(n)
       [] OTHER -> Pointee(Strict(n))

StrictUnary(n) ==
  LET op == Op(n)
      t  == Strict(n.kids[1])
      slot == SlotType(n.kids[1])
  IN CASE op \in {"++", "--"} -> If(slot = I64 \/ (n.kids[1].kind = "ident" /\ IsInt(slot)), slot)
       [] op = "-" -> If(IsInt(t) \/ IsFloat(t), t)
       [] op = "~" -> If(t = I64, t)
       [] op = "*" -> If(t = Ptr(I64), I64)

StrictAssign(n) ==
  LET value == Strict(n.kids[2])
      target == n.kids[1]
      slot == IF target.kind = "tuple_field" THEN Strict(target) ELSE SlotType(target)
  IN  If(value = slot /\ (Op(n) = "=" \/ target.kind = "tuple_field" \/ IsInt(value)), value)

Strict(n) ==
  LET parts == Parts(n)
      T(i) == Strict(parts[i])
      Proper == \A i \in DOMAIN parts : T(i) # Odd
  IN CASE n.kind = "int"    -> I64
       [] n.kind = "float"  -> Double
       [] n.kind = "string" -> Ptr(I8)
       [] n.kind = "ident"  -> MachineOfVar(Op(n))
       [] n.kind = "unary"  -> StrictUnary(n)
       [] n.kind = "assign" -> StrictAssign(n)
       [] n.kind = "init" -> Odd
       [] IsField(n) -> LET s == VarTypes[Op(n.kids[1])] IN Machine(s).parts[FieldIndex(s.base, Op(n))]
       [] OTHER ->
            IF ~Proper THEN Odd ELSE
            CASE n.kind = "binary"  -> StrictBinary(Op(n), T(1), T(2))
              [] n.kind = "ternary" -> If(T(1) = I1 /\ T(2) = T(3), T(2))
              [] n.kind = "member"  -> T(1)
              [] n.kind = "index"   -> If(T(1) = Ptr(ElementType(n.kids[1])) /\ IsInt(T(2)), ElementType(n.kids[1]))
              [] n.kind = "array"   -> If(\A i \in DOMAIN parts : T(i) = T(1), Ptr(T(1)))
              [] n.kind = "tuple"   -> Struct([i \in DOMAIN parts |-> T(i)])
              [] n.kind = "tuple_field" -> If(T(1).base = "struct" /\ Op(n) < Len(T(1).parts), T(1).parts[Op(n) + 1])
              [] n.kind = "fstring" ->
                   IF Len(n.kids) = 1 /\ parts # <<>> THEN TextType(T(1))
                   ELSE If(\A i \in DOMAIN parts : TextType(T(i)) = Ptr(I8), Ptr(I8))
              [] n.kind = "call"    -> IF IsTo(n) THEN StrictTo(T(1), TargetOf(n))
                                       ELSE If(T(1) = ParamType(n) \/ Narrower(T(1).base, ParamType(n).base), I64)

\* What a declaration may be given for another type, in either direction.
Converts(a, b) == IsInt(a) /\ (IsInt(b) \/ IsPtr(b) \/ b = Double)

StrictStmt(p) ==
  LET ty == Machine(p.type)
      t  == Strict(p.expr)
      kids == p.expr.kids
  IN CASE p.stmt = "expr"   -> t
       [] p.stmt = "return" -> If(t = ty, ty)
       [] p.stmt = "decl"   ->
            IF p.expr.kind = "init" THEN If(\A i \in DOMAIN kids : Strict(kids[i]) = ty.parts[i], ty)
            ELSE If(t # Odd /\ (t = ty \/ Converts(t, ty) \/ Converts(ty, t)), ty)

-----------------------------------------------------------------------------
(* LLVM: what the verifier asks of an instruction, and what the memory     *)
(* asks of a load and a store.                                             *)

IntInstrs == {"add", "sub", "mul", "sdiv", "srem", "and", "or", "xor", "shl", "ashr"}
FloatInstrs == {"fadd", "fsub", "fmul", "fdiv", "frem"}
IntCompares == {"slt", "sgt", "sle", "sge", "eq", "ne"}
FloatCompares == {"olt", "ogt", "ole", "oge", "oeq", "one", "une"}

Takes ==
  [pow |-> <<Double, Double>>, str_concat |-> <<Ptr(I8), Ptr(I8)>>, arc_wrap_string |-> <<Ptr(I8)>>,
   bool_to_string |-> <<I64>>, int_to_string |-> <<I64>>, float_to_string |-> <<Double>>,
   parse_int |-> <<Ptr(I8)>>, parse_float |-> <<Ptr(I8)>>] @@
  [name \in DOMAIN ParamOf |-> <<Machine(ParamOf[name])>>]

Predecessors(blocks, b) ==
  {c \in DOMAIN blocks : \E i \in DOMAIN blocks[c] : blocks[c][i].op = "br" /\ b \in ToSet(blocks[c][i].to)}

FitsIn(blocks, b, i) ==
  LET t == [k \in DOMAIN i.args |-> i.args[k].ty]
  IN CASE i.op \in IntInstrs   -> t[1] = t[2] /\ IsInt(t[1])
       [] i.op \in FloatInstrs -> t[1] = t[2] /\ IsFloat(t[1])
       [] i.op \in IntCompares -> (t[1] = t[2] /\ IsInt(t[1])) \/ (IsPtr(t[1]) /\ IsPtr(t[2]))
       [] i.op \in FloatCompares -> t[1] = t[2] /\ IsFloat(t[1])
       [] i.op = "neg"     -> IsInt(t[1])
       [] i.op = "fneg"    -> IsFloat(t[1])
       [] i.op = "load"    -> t[1] = Ptr(i.ty)
       [] i.op = "store"   -> t[2] = Ptr(t[1])
       [] i.op = "gep"     -> IsInt(t[2]) /\ (t[1] = i.ty \/ (IsPtr(t[1]) /\ t[1].parts[1].base = "struct"))
       [] i.op = "sitofp"  -> IsInt(t[1]) /\ IsFloat(i.ty)
       [] i.op = "fptosi"  -> IsFloat(t[1]) /\ IsInt(i.ty)
       [] i.op \in {"sext", "zext"} -> Narrower(t[1].base, i.ty.base)
       [] i.op = "trunc"   -> Narrower(i.ty.base, t[1].base)
       [] i.op = "fpext"   -> t[1] = Single /\ i.ty = Double
       [] i.op = "fptrunc" -> t[1] = Double /\ i.ty = Single
       [] i.op \in {"inttoptr", "ptrtoint"} -> TRUE
       [] i.op = "call"    -> t = Takes[i.name]
       [] i.op = "br"      -> t = <<>> \/ t[1] = I1
       [] i.op = "phi"     -> ToSet(t) = {i.ty} /\ ToSet(i.to) = Predecessors(blocks, b)
       [] i.op = "extract" -> t[1].base = "struct" /\ \E k \in DOMAIN t[1].parts : i.name = ToString(k - 1)
       [] i.op = "insert"  -> \E k \in DOMAIN t[1].parts : i.name = ToString(k - 1) /\ t[1].parts[k] = t[2]
       [] i.op = "ret"     -> t[1] = i.ty
       [] i.op \in {"alloc", "tuple"} -> TRUE

Verifies(blocks) ==
  \A b \in DOMAIN blocks : \A k \in DOMAIN blocks[b] : FitsIn(blocks, b, blocks[b][k])

-----------------------------------------------------------------------------
(* The machine.                                                            *)

Sense ==
  [add |-> "+", sub |-> "-", mul |-> "*", sdiv |-> "/", srem |-> "%", slt |-> "<", sgt |-> ">", sle |-> "<=",
   sge |-> ">=", eq |-> "==", ne |-> "!=", and |-> "&", or |-> "|", xor |-> "^", shl |-> "<<", ashr |-> ">>",
   fadd |-> "+", fsub |-> "-", fmul |-> "*", fdiv |-> "/", frem |-> "%", olt |-> "<", ogt |-> ">",
   ole |-> "<=", oge |-> ">=", oeq |-> "==", one |-> "!=", une |-> "!=", neg |-> "-", fneg |-> "-"]

Read(m, a) == IF a \in DOMAIN m THEN m[a] ELSE Term("value", <<a>>)
Write(m, a, v) == (a :> v) @@ m
BlockTerm(m) == Term("block", <<Atom(ToString(Cardinality({a \in DOMAIN m : a.op = "block"})))>>)

\* The value of an instruction, for its arguments a.
ResultOf(i, a, m) ==
  CASE i.op \in DOMAIN Sense -> Term(Sense[i.op], a)
    [] i.op = "call"  -> IF i.name = "arc_wrap_string" THEN a[1] ELSE Term(i.name, a)
    [] i.op = "load"  -> Read(m, a[1])
    [] i.op \in {"gep", "tuple"} -> Term(i.op, a)
    [] i.op = "alloc" -> BlockTerm(m)
    [] i.op = "phi"   -> a[CHOOSE k \in DOMAIN i.to : i.to[k] = from]
    [] i.op = "extract" -> a[1].args[CHOOSE k \in DOMAIN a[1].args : i.name = ToString(k - 1)]
    [] i.op = "insert"  ->
         Term("tuple", [k \in DOMAIN a[1].args |-> IF i.name = ToString(k - 1) THEN a[2] ELSE a[1].args[k]])
    [] OTHER -> Term(i.op, a \o <<Atom(i.ty.base)>>)

\* What variables hold before the program; a tuple is known by its parts.
InitialMemory ==
  LET tuples == {v \in DOMAIN VarTypes : VarTypes[v].base = "tuple"}
  IN  [a \in {Atom(v) : v \in tuples} |->
         Term("tuple", [k \in DOMAIN VarTypes[a.op].parts |-> Term("value", <<a, Atom(ToString(k - 1))>>)])]

Init ==
  /\ \E family \in Families : program \in Programs(family)
  /\ status = "source"
  /\ code = <<>> /\ at = <<1, 1>> /\ from = 0
  /\ regs = <<>> /\ mem = InitialMemory /\ calls = <<>> /\ known = <<>>

\* The compiler: the type checker, the code generator, LLVM's verifier.
Compile ==
  /\ status = "source"
  /\ IF ~IsAccepted(program) THEN status' = "rejected" /\ UNCHANGED code
     ELSE \E g \in {GenStmt(program)} :
            IF ~g.ok THEN status' = "refused" /\ UNCHANGED code
            ELSE /\ code' = g.blocks
                 /\ status' = IF Verifies(g.blocks) THEN "running" ELSE "invalid"
  /\ UNCHANGED <<program, at, from, regs, mem, calls, known>>

AtInstruction == status = "running" /\ at[2] <= Len(code[at[1]])
Instruction == code[at[1]][at[2]]
Operand(o) == IF o.reg = 0 THEN o.term ELSE regs[o.reg]
Arguments == [k \in DOMAIN Instruction.args |-> Operand(Instruction.args[k])]

Compute ==
  /\ AtInstruction
  /\ Instruction.op \notin {"br", "store"}
  /\ LET v == ResultOf(Instruction, Arguments, mem)
     IN  /\ regs' = (Instruction.reg :> v) @@ regs
         /\ calls' = IF Instruction.name \in DOMAIN ParamOf THEN Append(calls, v) ELSE calls
         \* a block is in the memory from its allocation
         /\ mem' = IF Instruction.op = "alloc" THEN Write(mem, v, v) ELSE mem
  /\ at' = [at EXCEPT ![2] = @ + 1]
  /\ UNCHANGED <<program, status, code, from, known>>

StoreValue ==
  /\ AtInstruction
  /\ Instruction.op = "store"
  /\ mem' = Write(mem, Arguments[2], Arguments[1])
  /\ at' = [at EXCEPT ![2] = @ + 1]
  /\ UNCHANGED <<program, status, code, from, regs, calls, known>>

Jump ==
  /\ AtInstruction
  /\ Instruction.op = "br" /\ Len(Instruction.to) = 1
  /\ at' = <<Instruction.to[1], 1>> /\ from' = at[1]
  /\ UNCHANGED <<program, status, code, regs, mem, calls, known>>

Decided == (Atom("true") :> TRUE) @@ (Atom("false") :> FALSE)

Branch2 ==
  /\ AtInstruction
  /\ Instruction.op = "br" /\ Len(Instruction.to) = 2
  /\ LET c == Arguments[1]
     IN  \E yes \in BOOLEAN :
           /\ c \in DOMAIN Decided => yes = Decided[c]
           /\ c \in DOMAIN known => yes = known[c]
           /\ at' = <<Instruction.to[IF yes THEN 1 ELSE 2], 1>>
           /\ known' = IF c \in DOMAIN Decided THEN known ELSE (c :> yes) @@ known
  /\ from' = at[1]
  /\ UNCHANGED <<program, status, code, regs, mem, calls>>

Finish ==
  /\ status = "running"
  /\ ~AtInstruction
  /\ status' = "done"
  /\ UNCHANGED <<program, code, at, from, regs, mem, calls, known>>

Next == Compile \/ Compute \/ StoreValue \/ Jump \/ Branch2 \/ Finish

Spec == Init /\ [][Next]_evars

-----------------------------------------------------------------------------
(* What a program means: operands from left to right, each once, made of   *)
(* one type where the operator needs it.                                   *)

Holds(condition) == condition \in DOMAIN (Decided @@ known) /\ (Decided @@ known)[condition]

AsType(v, a, b) == IF a = b THEN v ELSE Term(ConversionOf(a, b), <<v, Atom(b.base)>>)
AsText(v, t) ==
  CASE t = I1     -> Term("bool_to_string", <<AsType(v, t, I64)>>)
    [] IsInt(t) /\ t # I1 -> Term("int_to_string", <<AsType(v, t, I64)>>)
    [] IsFloat(t) -> Term("float_to_string", <<AsType(v, t, Double)>>)
    [] OTHER -> v
FieldOf(v, i) == Term("gep", <<Atom(v), Atom(ToString(i - 1))>>)
ElementOf(block, i) == Term("gep", <<block, Atom(ToString(i - 1))>>)
Put(s, a, v) == [s EXCEPT !.mem = Write(@, a, v), !.val = v]

\* An expression and those that it is built from.
RECURSIVE Within(_)
Within(n) == {n} \cup UNION {Within(Parts(n)[i]) : i \in DOMAIN Parts(n)}

\* A place or a value, after s: the memory, the calls so far, the value just computed, and
\* the types of the expressions of the program.
RECURSIVE Mean(_, _, _)
TypeIn(s, n) == s.types[n]
Value(n, s) == Mean("value", n, s)
Place(n, s) == Mean("place", n, s)
Values(ns, s) ==
  FoldLeft(LAMBDA r, n : LET v == Value(n, r.s) IN [s |-> v, vals |-> Append(r.vals, v.val)],
           [s |-> s, vals |-> <<>>], ns)

MeanBinary(n, s) ==
  LET op == Op(n)
      a == TypeIn(s, n.kids[1])   b == TypeIn(s, n.kids[2])
      l == Value(n.kids[1], s) r == Value(n.kids[2], l)
      Both(t) == <<AsType(l.val, a, t), AsType(r.val, b, t)>>
  IN CASE op \in Logical -> IF Holds(l.val) = (op = "&&") THEN r
                            ELSE Giving(l, Atom(IF op = "&&" THEN "false" ELSE "true"))
       [] op = "**" -> Giving(r, AsType(Term("pow", Both(Double)), Double, TypeIn(s, n)))
       [] op \notin Logical \cup {"**"} /\ IsPtr(a) ->
            Giving(r, Term(IF op = "+" THEN "str_concat" ELSE op, <<l.val, r.val>>))
       [] OTHER -> Giving(r, Term(op, Both(Common(a, b))))

MeanUnary(n, s) ==
  LET op == Op(n)
      p == Place(n.kids[1], s)
      old == Read(p.mem, p.val)
      new == Term(IF op = "++" THEN "+" ELSE "-", <<old, Atom("1")>>)
      v == Value(n.kids[1], s)
  IN CASE op \in {"++", "--"} -> Giving(Put(p, p.val, new), IF n.text[2] = "prefix" THEN new ELSE old)
       [] op = "-" -> Giving(v, Term("-", <<v.val>>))
       [] op = "~" -> Giving(v, Term("^", <<v.val, Atom("-1")>>))
       [] op = "*" -> Giving(v, Read(v.mem, v.val))

MeanAssign(n, s) ==
  LET target == n.kids[1]
      isTuple == target.kind = "tuple_field"
      p == Place(target, s)
      v == Value(n.kids[2], IF isTuple THEN s ELSE p)
      a == Atom(Op(target.kids[1]))
      binary == "+=" :> "+" @@ "-=" :> "-" @@ "*=" :> "*" @@ "/=" :> "/"
  IN CASE isTuple -> Giving(Put(v, a, [Read(v.mem, a) EXCEPT !.args[Op(target) + 1] = v.val]), v.val)
       [] ~isTuple /\ Op(n) = "=" -> Put(v, p.val, v.val)
       [] OTHER -> Put(v, p.val, Term(binary[Op(n)], <<Read(v.mem, p.val), v.val>>))

MeanArray(n, s) ==
  LET block == BlockTerm(s.mem)
      Fill(r, i) == LET v == Value(n.kids[i], r) IN Put(v, ElementOf(block, i), v.val)
  IN  Giving(FoldLeft(Fill, Put(s, block, block), [i \in DOMAIN n.kids |-> i]), block)

MeanTo(n, s) ==
  LET e == n.kids[1].kids[1]
      t == TypeIn(s, e)
      v == Value(e, s)
      target == TargetOf(n)
      ty == Machine(Plain(target))
      Parsed(name, wide) == AsType(Term(name, <<v.val>>), wide, ty)
  IN  Giving(v, CASE target = "string" -> AsText(v.val, t)
                  [] target = "bool"   -> IF t = I1 THEN v.val ELSE Term("!=", <<v.val, Atom("0")>>)
                  [] OTHER -> IF ~IsPtr(t) THEN AsType(v.val, t, ty)
                              ELSE IF IsInt(ty) THEN Parsed("parse_int", I64) ELSE Parsed("parse_float", Double))

MeanFString(n, s) ==
  LET Text(k, r) == IF k.kind = "text" THEN Giving(r, Atom(k.text[1]))
                    ELSE LET v == Value(k, r) IN Giving(v, AsText(v.val, TypeIn(s, k)))
      Join(r, k) == LET t == Text(k, r) IN Giving(t, Term("str_concat", <<r.val, t.val>>))
  IN  FoldLeft(Join, Text(Head(n.kids), s), Tail(n.kids))

MeanCall(n, s) ==
  LET v == Value(n.kids[2], s)
      c == Term(Callee(n), <<AsType(v.val, TypeIn(s, n.kids[2]), ParamType(n))>>)
  IN  Giving([v EXCEPT !.calls = Append(@, c)], c)

\* The place of an element or a field, or else the pointer that the expression is.
MeanPlace(n, s) ==
  LET all == Values(n.kids, s)
  IN CASE n.kind = "ident" -> Giving(s, Atom(Op(n)))
       [] IsField(n) -> LET v == Op(n.kids[1]) IN Giving(s, FieldOf(v, FieldIndex(VarTypes[v].base, Op(n))))
       [] n.kind = "unary" /\ Op(n) = "*" -> all.s
       [] n.kind = "index" -> Giving(all.s, Term("gep", all.vals))
       [] OTHER -> Value(n, s)

MeanDeclare(p, s) ==
  LET v == Value(p.expr, s)
      Fill(r, i) == LET k == Value(p.expr.kids[i], r) IN Put(k, FieldOf(New, i), k.val)
  IN  IF p.expr.kind = "init" THEN FoldLeft(Fill, s, [i \in DOMAIN p.expr.kids |-> i])
      ELSE Put(v, Atom(New), AsType(v.val, TypeIn(s, p.expr), Machine(p.type)))

Mean(mode, n, s) ==
  LET p == MeanPlace(n, s)
      all == Values(n.kids, s)
  IN CASE mode = "place" -> p
       [] mode = "decl"  -> MeanDeclare(n, s)
       [] mode \in {"expr", "return"} -> Value(n.expr, s)
       [] mode = "value" ->
          CASE n.kind \in {"int", "float", "string"} -> Giving(s, Atom(Op(n)))
            [] n.kind \in {"ident", "index"} \/ IsField(n) -> Giving(p, Read(p.mem, p.val))
            [] n.kind = "member" /\ ~IsField(n) -> all.s
            [] n.kind = "binary"  -> MeanBinary(n, s)
            [] n.kind = "unary"   -> MeanUnary(n, s)
            [] n.kind = "assign"  -> MeanAssign(n, s)
            [] n.kind = "ternary" ->
                 LET c == Value(n.kids[1], s) IN Value(n.kids[IF Holds(c.val) THEN 2 ELSE 3], c)
            [] n.kind = "fstring" -> MeanFString(n, s)
            [] n.kind = "array"   -> MeanArray(n, s)
            [] n.kind = "tuple"   -> Giving(all.s, Term("tuple", all.vals))
            [] n.kind = "tuple_field" -> Giving(all.s, all.vals[1].args[Op(n) + 1])
            [] n.kind = "call"    -> IF IsTo(n) THEN MeanTo(n, s) ELSE MeanCall(n, s)

Meaning(p) ==
  Mean(p.stmt, p, [mem |-> InitialMemory, calls |-> <<>>, val |-> Atom(""),
                   types |-> [n \in Within(p.expr) |-> Strict(n)]])

-----------------------------------------------------------------------------
(* Programs that do something else.                                        *)

HasEffects(n) ==
  \E k \in Within(n) : \/ k.kind \in {"assign", "array"}
                       \/ k.kind = "unary" /\ Op(k) \in {"++", "--"}
                       \/ k.kind = "call" /\ ~IsTo(k)

\* A bool is made a number with its bit as the sign, and a number a bool by its last bit.
BitLost(a, b) == a # b /\ (I1 \in {a, b} \/ IsPtr(a) \/ IsPtr(b))

Surprises(p) ==
  \/ p.stmt = "decl" /\ p.expr.kind # "init" /\ BitLost(Strict(p.expr), Machine(p.type))
  \/ \E n \in Within(p.expr) :
       CASE IsTo(n) -> LET t == Strict(n.kids[1].kids[1])
                       IN  IF IsPtr(t) THEN TargetOf(n) = "bool" ELSE t = I1 /\ TargetOf(n) \notin {"bool", "string"}
         [] n.kind = "call" /\ ~IsTo(n) ->
              BitLost(Strict(n.kids[2]), ParamType(n)) \/ (IsQualified(n) /\ ~ByMangledName(n) /\ HasEffects(n.kids[2]))
         [] n.kind = "assign" -> n.kids[1].kind = "tuple_field" /\ (Op(n) # "=" \/ HasEffects(n.kids[2]))
         [] n.kind = "index" -> Strict(n.kids[2]) = I1
         [] n.kind = "array" -> HasEffects(n.kids[1])
         [] OTHER -> FALSE

-----------------------------------------------------------------------------
(* Properties.                                                             *)

\* What the type checker accepts and the code generator does not refuse is valid LLVM exactly
\* when its types fit without a conversion that neither of them makes: the kinds of the one
\* (one for all integers, unknown for what it does not look at) stand for several types of
\* the other, so nothing is broken by a conversion, and nothing invalid slips through where
\* the types do fit.
CodeFits ==
  /\ status = "invalid" => StrictStmt(program) = Odd
  /\ status = "running" /\ regs = <<>> => StrictStmt(program) # Odd

\* A program ends with the variables, elements and fields it means to write holding the
\* values meant, having called the functions in the order meant, and returns the value
\* meant, whatever its conditions are: short circuits, branches, conversions, and places
\* that are computed before or after the value (expr.c).
SameValue ==
  status = "done" /\ ~Surprises(program) =>
    \E m \in {Meaning(program)} :
      /\ mem = m.mem
      /\ calls = m.calls
      /\ program.stmt = "return" => Operand(code[at[1]][at[2] - 1].args[1]) = m.val
=============================================================================
