---------------------------- MODULE ControlFlow ----------------------------
(***************************************************************************)
(* codegen/stmt.c: the basic blocks that codegen makes of the control      *)
(* statements, and their execution next to the meaning of the source       *)
(* (StructuredFlow).                                                       *)
(*                                                                         *)
(* A program is a sequence of functions, each a list of statements.  cg is *)
(* the state of code generation: the blocks so far, the one the builder    *)
(* stands at the end of, the targets of break and continue (0: none), the  *)
(* label table, which is never emptied, and the function.  A block is the  *)
(* list of its instructions; values and types are left out, and whether a  *)
(* condition holds is a choice.                                            *)
(***************************************************************************)
EXTENDS Naturals, FiniteSets, TLC, StructuredFlow

CONSTANT Programs

\* All lists of statements of a list, itself included.
RECURSIVE Lists(_)
Lists(stmts) ==
  {stmts} \cup UNION {UNION {Lists(b) : b \in Inside(stmts[i])} : i \in DOMAIN stmts}

Names(stmts, ops) ==
  UNION {{l[i].name : i \in {j \in DOMAIN l : l[j].op \in ops}} : l \in Lists(stmts)}

Jumps == {"return", "goto", "break", "continue"}

\* A jump ends s.
RECURSIVE EndsInJump(_)
EndsInJump(s) ==
  \/ s.op \in Jumps
  \/ s.op = "block" /\ \E i \in DOMAIN s.body : EndsInJump(s.body[i])

\* In what cannot be reached, as the list is left before it, a break, continue or goto,
\* or a statement with a label in it.
Dead(stmts) ==
  \E i, j \in DOMAIN stmts :
    /\ i < j /\ EndsInJump(stmts[i]) /\ \A n \in i..j : stmts[n].op # "label"
    /\ \/ stmts[j].op \in Jumps \ {"return"}
       \/ Names(<<stmts[j]>>, {"label"}) # {}

\* A jump out of a list, or a return, so that what follows the list does not run.
RECURSIVE Leaves(_, _)
Leaves(stmts, loop) ==
  \E i \in DOMAIN stmts :
    \/ stmts[i].op \in {"return", "goto"}
    \/ stmts[i].op \in {"break", "continue"} /\ ~loop
    \/ \E b \in Inside(stmts[i]) : Leaves(b, loop \/ stmts[i].op \in Loops)

LeavesUsing(stmts) ==
  \E i \in DOMAIN stmts : stmts[i].op = "using" /\ Leaves(stmts[i].body, FALSE)

\* The programs that codegen treats as it should: nothing jumps, or is jumped to, where
\* the list was left before; nothing jumps out of a using; a goto has its label in its
\* function, and the functions have no label in common.
Sound(p) ==
  /\ \A f \in DOMAIN p :
       /\ \A l \in Lists(p[f]) : ~Dead(l) /\ ~LeavesUsing(l)
       /\ Names(p[f], {"goto"}) \subseteq Names(p[f], {"label"})
  /\ \A f, g \in DOMAIN p :
       f # g => Names(p[f], {"label"}) \cap Names(p[g], {"label"}) = {}

VARIABLES program, fn, blocks, pos, k

vars == <<program, fn, blocks, pos, k>>

-----------------------------------------------------------------------------
\* The LLVM builder.
Instruction(kind, at, to) == [kind |-> kind, at |-> at, to |-> to]
Terminators == {"br", "test", "switch", "ret"}

\* n new blocks of the current function.
AppendBlocks(cg, n) ==
  [cg EXCEPT !.blocks = @ \o [i \in 1..n |-> [fn |-> cg.fn, code |-> <<>>]]]
NewBlock(cg, i) == Len(cg.blocks) + i

PositionAtEnd(cg, b) == [cg EXCEPT !.cur = b]

Build(cg, kind, at, to) ==
  [cg EXCEPT !.blocks[cg.cur].code = Append(@, Instruction(kind, at, to))]
Br(cg, b) == Build(cg, "br", <<>>, <<b>>)

\* LLVMGetBasicBlockTerminator of the current block.
Terminated(cg) ==
  LET code == cg.blocks[cg.cur].code
  IN  code # <<>> /\ Last(code).kind \in Terminators

\* Mutant: the block may be terminated already.
BrAlways(cg, b) == Br(cg, b)

BrUnlessTerminated(cg, b) == IF Terminated(cg) THEN cg ELSE Br(cg, b)

-----------------------------------------------------------------------------
RECURSIVE CodegenStmt(_, _)

CodegenBlock(cg, stmts) == FoldLeft(LAMBDA c, s : CodegenStmt(c, s), cg, stmts)

\* Mutant: the targets of the enclosing loop are not put back.
LoopBodyKeepingTargets(cg, s, brk, cont) ==
  CodegenBlock([cg EXCEPT !.break_target = brk, !.continue_target = cont], s.body)

\* The body of a loop, with the loop's targets for break and continue.
LoopBody(cg, s, brk, cont) ==
  [CodegenBlock([cg EXCEPT !.break_target = brk, !.continue_target = cont], s.body)
     EXCEPT !.break_target = cg.break_target, !.continue_target = cg.continue_target]

\* A list of statements in a block of its own that goes on at merge.
Branch(cg, b, stmts, merge) ==
  BrUnlessTerminated(CodegenBlock(PositionAtEnd(cg, b), stmts), merge)

CodegenIf(cg, s) ==
  LET then  == NewBlock(cg, 1)
      merge == NewBlock(cg, 2)
      else  == NewBlock(cg, 3)
  IN  IF s.else = <<>>
      THEN LET c1 == Build(AppendBlocks(cg, 2), "test", s.at, <<then, merge>>)
           IN  PositionAtEnd(Branch(c1, then, s.then, merge), merge)
      ELSE LET c1 == Build(AppendBlocks(cg, 3), "test", s.at, <<then, else>>)
               c2 == Branch(c1, then, s.then, merge)
           IN  PositionAtEnd(Branch(c2, else, s.else, merge), merge)

\* The bodies of the cases, in blocks first, first + 1, ...
CaseBodies(cg, s, first, merge) ==
  PositionAtEnd(
    FoldLeft(LAMBDA c, i : Branch(c, first + i - 1, s.cases[i].body, merge),
             cg, [i \in DOMAIN s.cases |-> i]),
    merge)

ProperIndices(s) ==
  SelectSeq([i \in DOMAIN s.cases |-> i], LAMBDA i : ~s.cases[i].default)

\* The block of the last default case, or merge.
DefaultBlock(s, first, merge) ==
  FoldLeft(LAMBDA b, i : IF s.cases[i].default THEN first + i - 1 ELSE b,
           merge, [i \in DOMAIN s.cases |-> i])

CodegenSwitch(cg, s) ==
  LET merge == NewBlock(cg, 1)
      first == NewBlock(cg, 2)
      case  == [i \in DOMAIN ProperIndices(s) |-> first + ProperIndices(s)[i] - 1]
      c1 == Build(AppendBlocks(cg, 1 + Len(s.cases)), "switch", s.at,
                  Append(case, DefaultBlock(s, first, merge)))
  IN  CaseBodies(c1, s, first, merge)

\* A chain of tests, each in the block the one before it falls to.
CodegenMatch(cg, s) ==
  LET merge == NewBlock(cg, 1)
      first == NewBlock(cg, 2)
      Check(c, i) ==
        LET next == NewBlock(c, 1)
        IN  PositionAtEnd(Build(AppendBlocks(c, 1), "test", s.cases[i].at,
                                <<first + i - 1, next>>), next)
      c1 == FoldLeft(Check, AppendBlocks(cg, 1 + Len(s.cases)), ProperIndices(s))
  IN  CaseBodies(Br(c1, DefaultBlock(s, first, merge)), s, first, merge)

CodegenWhile(cg, s) ==
  LET cond == NewBlock(cg, 1)
      body == NewBlock(cg, 2)
      end  == NewBlock(cg, 3)
      c1 == PositionAtEnd(Br(AppendBlocks(cg, 3), cond), cond)
      c2 == PositionAtEnd(Build(c1, "test", s.at, <<body, end>>), body)
  IN  PositionAtEnd(BrUnlessTerminated(LoopBody(c2, s, end, cond), cond), end)

CodegenDoWhile(cg, s) ==
  LET body == NewBlock(cg, 1)
      cond == NewBlock(cg, 2)
      end  == NewBlock(cg, 3)
      c1 == PositionAtEnd(Br(AppendBlocks(cg, 3), body), body)
      c2 == PositionAtEnd(BrUnlessTerminated(LoopBody(c1, s, end, cond), cond), cond)
  IN  PositionAtEnd(Build(c2, "test", s.at, <<body, end>>), end)

\* for over an array, a string or a range, and the C form with or without condition:
\* the blocks are the same.
CodegenFor(cg, s) ==
  LET cond == NewBlock(cg, 1)
      body == NewBlock(cg, 2)
      incr == NewBlock(cg, 3)
      end  == NewBlock(cg, 4)
      c1 == PositionAtEnd(Br(Build(AppendBlocks(cg, 4), "init", s.at, <<>>), cond), cond)
      c2 == IF s.op = "forever" THEN Br(c1, body) ELSE Build(c1, "test", s.at, <<body, end>>)
      c3 == LoopBody(PositionAtEnd(c2, body), s, end, incr)
      c4 == PositionAtEnd(BrUnlessTerminated(c3, incr), incr)
  IN  PositionAtEnd(Br(Build(c4, "incr", s.at, <<>>), cond), end)

\* The call of exit follows the body, terminated or not.
CodegenUsing(cg, s) ==
  Build(CodegenBlock(Build(cg, "enter", s.at, <<>>), s.body), "exit", s.at, <<>>)

-----------------------------------------------------------------------------
\* label_lookup, and label_push of a new block if there is none of that name.
LabelBlock(cg, name) ==
  IF name \in DOMAIN cg.labels THEN cg
  ELSE [AppendBlocks(cg, 1) EXCEPT !.labels = @ @@ (name :> NewBlock(cg, 1))]

CodegenLabel(cg, s) ==
  LET c == LabelBlock(cg, s.name)
  IN  PositionAtEnd(BrUnlessTerminated(c, c.labels[s.name]), c.labels[s.name])

CodegenGoto(cg, s) ==
  LET c == LabelBlock(cg, s.name)
  IN  Br(c, c.labels[s.name])

BrIfTarget(cg, target) == IF target = 0 THEN cg ELSE Br(cg, target)

\* codegen_stmt: labels and jumps always, everything else only where the current
\* block is not terminated.
CodegenStmt(cg, s) ==
  CASE s.op = "label"    -> CodegenLabel(cg, s)
    [] s.op = "goto"     -> CodegenGoto(cg, s)
    [] s.op = "break"    -> BrIfTarget(cg, cg.break_target)
    [] s.op = "continue" -> BrIfTarget(cg, cg.continue_target)
    [] OTHER ->
         IF Terminated(cg) THEN cg
         ELSE CASE s.op = "act"     -> Build(cg, "act", s.at, <<>>)
                [] s.op = "return"  -> Build(cg, "ret", s.at, <<>>)
                [] s.op = "block"   -> CodegenBlock(cg, s.body)
                [] s.op = "if"      -> CodegenIf(cg, s)
                [] s.op = "switch"  -> CodegenSwitch(cg, s)
                [] s.op = "match"   -> CodegenMatch(cg, s)
                [] s.op = "while"   -> CodegenWhile(cg, s)
                [] s.op = "dowhile" -> CodegenDoWhile(cg, s)
                [] s.op \in {"for", "forever"} -> CodegenFor(cg, s)
                [] s.op = "using"   -> CodegenUsing(cg, s)

\* codegen_func_decl: an entry block, the body, and a ret if the end can be reached.
CodegenFunc(cg, body) ==
  LET entry == NewBlock(cg, 1)
      start == [cg EXCEPT !.fn = @ + 1]
      c == CodegenBlock(PositionAtEnd(AppendBlocks(start, 1), entry), body)
      done == [c EXCEPT !.entries = Append(@, entry)]
  IN  IF Terminated(c) THEN done ELSE Build(done, "ret", <<>>, <<>>)

\* All functions, one after the other.
Codegen(p) ==
  FoldLeft(CodegenFunc,
           [blocks |-> <<>>, cur |-> 0, break_target |-> 0, continue_target |-> 0,
            labels |-> <<>>, fn |-> 0, entries |-> <<>>],
           p)

-----------------------------------------------------------------------------
\* Execution of the blocks: from instruction i of block b, along the branches, to
\* the next instruction that is an event.
RECURSIVE Follow(_, _, _)
Follow(bs, b, i) ==
  IF i <= Len(bs[b].code) /\ bs[b].code[i].kind = "br"
    THEN Follow(bs, bs[b].code[i].to[1], 1)
    ELSE <<b, i>>

Here == blocks[pos[1]].code[pos[2]]

\* A block that is not terminated is the end of what is known.
Stuck == pos[2] > Len(blocks[pos[1]].code)

Observed == Event(Here.kind, Here.at,
                  IF Here.kind = "ret" THEN 0 ELSE IF Here.to = <<>> THEN 1 ELSE Len(Here.to))

Init ==
  /\ program \in Programs
  /\ fn \in DOMAIN program
  /\ LET cg == Codegen(program)
     IN  /\ blocks = cg.blocks
         /\ pos = Follow(cg.blocks, cg.entries[fn], 1)
  /\ k = Settle(program[fn], Do(program[fn]))

\* An instruction with one way to go on.
Execute ==
  /\ ~Stuck /\ Here.kind \notin Terminators
  /\ pos' = Follow(blocks, pos[1], pos[2] + 1)
  /\ k' = Settle(program[fn], Step(k, 1))
  /\ UNCHANGED <<program, fn, blocks>>

\* A conditional branch or a switch.
Choose ==
  /\ ~Stuck /\ Here.kind \in {"test", "switch"}
  /\ \E w \in DOMAIN Here.to :
       /\ pos' = Follow(blocks, Here.to[w], 1)
       /\ k' = Settle(program[fn], Step(k, w))
  /\ UNCHANGED <<program, fn, blocks>>

Next == Execute \/ Choose

Spec == Init /\ [][Next]_vars

-----------------------------------------------------------------------------
\* The code does what the source means: the next thing it does is, at every moment
\* and for every outcome of the conditions, the next thing of the continuation
\* (src/codegen/stmt.c:208-711, 849-924).
SameBehaviour == ~Stuck /\ Observed = NextEvent(k)

\* Every block, reachable or not, ends with its one terminator and branches within
\* its function: what LLVMVerifyModule asks and codegen's tests of
\* LLVMGetBasicBlockTerminator are for (src/codegen/stmt.c:224, 896; backend.c:92-99).
WellFormed ==
  \A b \in DOMAIN blocks :
    LET code == blocks[b].code
    IN  /\ code # <<>>
        /\ \A i \in DOMAIN code : code[i].kind \in Terminators <=> i = Len(code)
        /\ \A t \in DOMAIN Last(code).to :
             blocks[Last(code).to[t]].fn = blocks[b].fn
=============================================================================
