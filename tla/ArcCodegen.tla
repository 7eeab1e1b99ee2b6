----------------------------- MODULE ArcCodegen -----------------------------
(***************************************************************************)
(* The reference counting that codegen inserts into a program: which       *)
(* arc_retain and arc_release calls each statement is compiled to, and     *)
(* what they do to the heap when the program runs.                         *)
(*                                                                         *)
(* A program is any sequence of the statements below, on variables of type *)
(* `string`.  Frames are numbered 1 (main) to MaxDepth; slot <<d, 0>> is   *)
(* the parameter of frame d, below scope_base, and <<d, 1>>, <<d, 2>>, ... *)
(* are its locals in declaration order.  <<0, 0>> is a global variable.    *)
(* kinds names the statement forms the program uses besides the basic      *)
(* ones (declare or assign a new string, call with a local, return a new   *)
(* string, reach the end of the body); it is chosen at the start, among    *)
(* Programs, and the properties say which forms they are true of.          *)
(*                                                                         *)
(* Freed blocks are not handed out again, so that a use after free shows.  *)
(* A step that touches memory that is not a live block sets heap.trap and  *)
(* the program goes no further.                                            *)
(***************************************************************************)
EXTENDS Naturals, FiniteSets

CONSTANTS
  Objects,    \* the blocks the program may ever allocate
  MaxDepth,   \* bound on nested calls
  MaxLocals,  \* bound on the locals of a frame
  MaxCount,   \* bound on a reference count
  Programs,   \* the sets of statement forms to consider, see AllKinds
  Null,       \* the NULL pointer
  Lit,        \* a pointer to a string constant of the program, no header in front
  Wild,       \* what an uninitialised stack slot may hold
  Absent      \* a slot whose variable is not declared

AllKinds ==
  {"copy", "uninitialised", "redeclare",                    \* declarations
   "assign_global", "assign_param",                         \* assignments
   "temp_arg", "literal_arg", "global_arg", "fstring_var",  \* arguments
   "discard",                                               \* result not used
   "return_local", "return_param", "return_global",         \* return <identifier>
   "return_literal", "return_void"}

ASSUME BoundAssumption == {MaxDepth, MaxLocals, MaxCount} \subseteq Nat \ {0}
ASSUME ProgramsAssumption == Programs \subseteq SUBSET AllKinds
ASSUME ValueAssumption ==
  /\ Cardinality({Null, Lit, Wild, Absent}) = 4
  /\ Objects \cap {Null, Lit, Wild, Absent} = {}
ASSUME FiniteAssumption == IsFiniteSet(Objects)

VARIABLES
  kinds,     \* the statement forms of the program that runs
  heap,      \* counts and states of the blocks, and the trap if there was one
  slot,      \* slot[<<d, i>>]: the pointer in variable i of frame d
  declared,  \* declared[d]: how many locals of frame d are declared (var_count)
  depth,     \* the running frame
  pc,        \* "run", "unwind" (the releases of a return) or "exited"
  ret,       \* the value being returned, and whether a retain is due
  call       \* call[d]: what the caller of frame d does when d has returned

vars == <<kinds, heap, slot, declared, depth, pc, ret, call>>

Pointers == Objects \cup {Null, Lit, Wild}
Slots    == (0..MaxDepth) \X (0..MaxLocals)
Global   == <<0, 0>>
Param(d) == <<d, 0>>
Locals(d) == {<<d, i>> : i \in 1..MaxLocals}

\* Parameters are borrowed: every other variable owns what it points to.
OwningSlots == {s \in Slots : s[2] > 0 \/ s = Global}

NoResult == [val |-> Null, how |-> "none"]
NoCall   == [sink |-> "discard", to |-> Global, fstring |-> Null]

Init ==
  /\ kinds \in Programs
  /\ heap = [count |-> [o \in Objects |-> 0], state |-> [o \in Objects |-> "unused"],
             trap |-> "none"]
  /\ slot = [s \in Slots |-> IF s = Global THEN Null ELSE Absent]
  /\ declared = [d \in 1..MaxDepth |-> 0]
  /\ depth = 1
  /\ pc = "run"
  /\ ret = NoResult
  /\ call = [d \in 1..MaxDepth |-> NoCall]

-----------------------------------------------------------------------------
\* The runtime calls, on a heap h.
Fresh(o) == heap.state[o] = "unused"
Live(h, p) == p \in Objects /\ h.state[p] = "live"

Alloc(h, o) == [h EXCEPT !.count[o] = 1, !.state[o] = "live"]

\* The word in front of p is touched, and p is neither NULL nor a live block.
Trap(h, p) ==
  [h EXCEPT !.trap = CASE p = Lit -> "literal" [] p = Wild -> "wild" [] OTHER -> "freed"]

NoEffect(h, p) == h.trap # "none" \/ p = Null

Retain(h, p) ==
  IF NoEffect(h, p) THEN h
  ELSE IF Live(h, p) THEN [h EXCEPT !.count[p] = @ + 1]
  ELSE Trap(h, p)

Release(h, p) ==
  IF NoEffect(h, p) THEN h
  ELSE IF Live(h, p)
    THEN [h EXCEPT !.count[p] = @ - 1,
                   !.state[p] = IF h.count[p] = 1 THEN "freed" ELSE "live"]
  ELSE Trap(h, p)

-----------------------------------------------------------------------------
\* The variables a statement of the running frame may name.
Visible == {s \in Locals(depth) \cup {Param(depth), Global} : slot[s] # Absent}

Assignable ==
  {s \in Visible :
     /\ s = Global       => "assign_global" \in kinds
     /\ s = Param(depth) => "assign_param" \in kinds}

Running == pc = "run" /\ heap.trap = "none"

\* codegen_var_decl: an alloca, var_push, and the initial value stored.
NextLocal == <<depth, declared[depth] + 1>>

Declare(h, p) ==
  /\ Running /\ declared[depth] < MaxLocals
  /\ heap' = h
  /\ slot' = [slot EXCEPT ![NextLocal] = p]
  /\ declared' = [declared EXCEPT ![depth] = @ + 1]
  /\ UNCHANGED <<kinds, depth, pc, ret, call>>

\* string x = "..." (wrapped), x = a + b, x = new C(): a new block, owned by x.
DeclareFresh == \E o \in Objects : Fresh(o) /\ Declare(Alloc(heap, o), o)

\* string x = y: the pointer is stored as it is.
DeclareCopy ==
  /\ "copy" \in kinds
  /\ \E y \in Visible : Declare(heap, slot[y])

\* string x; no store follows the alloca.
DeclareUninitialised ==
  /\ "uninitialised" \in kinds
  /\ \E p \in {Null, Wild} : Declare(heap, p)

\* A declaration in the body of a do-while loop, reached again: a new alloca for
\* the same entry of the variable table, the block of the last round is forgotten.
DeclareAgain ==
  /\ "redeclare" \in kinds /\ Running
  /\ \E x \in Locals(depth) \cap Visible, o \in Objects :
       /\ Fresh(o)
       /\ heap' = Alloc(heap, o)
       /\ slot' = [slot EXCEPT ![x] = o]
  /\ UNCHANGED <<kinds, declared, depth, pc, ret, call>>

\* Mutant: the old value is not released.
AssignForgets(h, x, p) ==
  /\ Running
  /\ heap' = h
  /\ slot' = [slot EXCEPT ![x] = p]
  /\ UNCHANGED <<kinds, declared, depth, pc, ret, call>>

\* codegen_assign: the value is evaluated, the old value released, the new stored.
Assign(h, x, p) ==
  /\ Running
  /\ heap' = Release(h, slot[x])
  /\ slot' = [slot EXCEPT ![x] = p]
  /\ UNCHANGED <<kinds, declared, depth, pc, ret, call>>

AssignFresh ==
  \E x \in Assignable, o \in Objects : Fresh(o) /\ Assign(Alloc(heap, o), x, o)

AssignCopy ==
  /\ "copy" \in kinds
  /\ \E x \in Assignable, y \in Visible : Assign(heap, x, slot[y])

-----------------------------------------------------------------------------
\* Calls of C functions (console.print).  What they are given they borrow.
PrintStep(h) ==
  /\ Running
  /\ heap' = h
  /\ UNCHANGED <<kinds, slot, declared, depth, pc, ret, call>>

\* print(f"... {e} ..."): the f-string is released after the call.
PrintFString ==
  \E o \in Objects : Fresh(o) /\ PrintStep(Release(Alloc(heap, o), o))

\* print(f"{x}"): the f-string is x itself, and released just the same.
PrintFStringOfVariable ==
  /\ "fstring_var" \in kinds
  /\ \E x \in Visible : PrintStep(Release(heap, slot[x]))

\* print(a + b), or a + b on its own: nobody releases the new string.
PrintTemporary ==
  /\ "temp_arg" \in kinds
  /\ \E o \in Objects : Fresh(o) /\ PrintStep(Alloc(heap, o))

\* What the program does with the result: a declaration, an assignment, nothing.
Results ==
  {c \in [sink : {"declare", "assign", "discard"}, to : Slots, fstring : {Null}] :
     \/ c.sink = "declare" /\ declared[depth] < MaxLocals /\ c.to = NextLocal
     \/ c.sink = "assign"  /\ c.to \in Assignable
     \/ c.sink = "discard" /\ c.to = Global}

\* codegen_call of a function of the program; h is the heap once the argument p
\* is evaluated and tmp the argument if it is an f-string.
Enter(h, p, tmp) ==
  /\ Running /\ depth < MaxDepth
  /\ heap' = h
  /\ depth' = depth + 1
  /\ slot' = [slot EXCEPT ![Param(depth + 1)] = p]
  /\ \E c \in Results :
       call' = [call EXCEPT ![depth + 1] = [c EXCEPT !.fstring = tmp]]
  /\ UNCHANGED <<kinds, declared, pc, ret>>

CallWithVariable ==
  \E x \in Visible : (x = Global => "global_arg" \in kinds) /\ Enter(heap, slot[x], Null)

CallWithLiteral == "literal_arg" \in kinds /\ Enter(heap, Lit, Null)

CallWithTemporary ==
  /\ "temp_arg" \in kinds
  /\ \E o \in Objects : Fresh(o) /\ Enter(Alloc(heap, o), o, Null)

CallWithFString == \E o \in Objects : Fresh(o) /\ Enter(Alloc(heap, o), o, o)

-----------------------------------------------------------------------------
\* codegen_return: the value first, then the releases from var_count down to
\* scope_base.  main returns an int, which is not counted.
Return(h, p, how) ==
  /\ Running
  /\ how # "none" => depth > 1 /\ (call[depth].sink = "discard" => "discard" \in kinds)
  /\ heap' = h
  /\ ret' = [val |-> p, how |-> how]
  /\ pc' = "unwind"
  /\ UNCHANGED <<kinds, slot, declared, depth, call>>

ReturnFresh == \E o \in Objects : Fresh(o) /\ Return(Alloc(heap, o), o, "temporary")

ReturnLiteral == "return_literal" \in kinds /\ Return(heap, Lit, "temporary")

ReturnVariable ==
  \E x \in Visible :
    /\ x = Global         => "return_global" \in kinds
    /\ x = Param(depth)   => "return_param" \in kinds
    /\ x \in Locals(depth) => "return_local" \in kinds
    /\ Live(heap, slot[x]) => heap.count[slot[x]] < MaxCount
    /\ Return(heap, slot[x], "identifier")

\* The end of the body, the epilogue of codegen_func_decl: the same releases, and
\* a null result.  `return 0` of main does the same.
EndOfBody == Return(heap, Null, "none")

\* codegen_arc_release_var of the last variable that is still to be released.
Unwind ==
  /\ pc = "unwind" /\ heap.trap = "none" /\ declared[depth] > 0
  /\ LET last == <<depth, declared[depth]>>
     IN  /\ heap' = Release(heap, slot[last])
         /\ slot' = [slot EXCEPT ![last] = Absent]
  /\ declared' = [declared EXCEPT ![depth] = @ - 1]
  /\ UNCHANGED <<kinds, depth, pc, ret, call>>

\* Mutant: a declaration initialised by a call is not entered in the table.
CountUnchanged(c, n) == n

\* The caller's variables once the result is stored.
CallerCount(c, n) == IF c.sink = "declare" THEN n + 1 ELSE n

\* Back in the caller with result p: an f-string argument is released, then the
\* result is stored, an assignment releasing the old value first.
Back(h, p) ==
  LET c  == call[depth]
      h1 == Release(h, c.fstring)
  IN  /\ heap' = IF c.sink = "assign" THEN Release(h1, slot[c.to]) ELSE h1
      /\ slot' = [s \in Slots |->
                    IF s[1] = depth THEN Absent
                    ELSE IF s = c.to /\ c.sink # "discard" THEN p
                    ELSE slot[s]]
      /\ declared' = [declared EXCEPT ![depth] = 0, ![depth - 1] = CallerCount(c, @)]
      /\ depth' = depth - 1 /\ pc' = "run" /\ ret' = NoResult
      /\ call' = [call EXCEPT ![depth] = NoCall]
      /\ UNCHANGED kinds

\* Mutants: the parameters are released with the locals; a returned identifier is
\* not retained.
LeaveReleasingParameter ==
  /\ pc = "unwind" /\ heap.trap = "none" /\ declared[depth] = 0 /\ depth > 1
  /\ LET h == Release(heap, slot[Param(depth)])
     IN  Back(IF ret.how = "identifier" THEN Retain(h, ret.val) ELSE h, ret.val)

LeaveWithoutRetain ==
  /\ pc = "unwind" /\ heap.trap = "none" /\ declared[depth] = 0 /\ depth > 1
  /\ Back(heap, ret.val)

\* The ret instruction, after the retain of a returned identifier.
LeaveFunction ==
  /\ pc = "unwind" /\ heap.trap = "none" /\ declared[depth] = 0 /\ depth > 1
  /\ Back(IF ret.how = "identifier" THEN Retain(heap, ret.val) ELSE heap, ret.val)

LeaveMain ==
  /\ pc = "unwind" /\ heap.trap = "none" /\ declared[depth] = 0 /\ depth = 1
  /\ pc' = "exited"
  /\ UNCHANGED <<kinds, heap, slot, declared, depth, ret, call>>

\* return; compiles to `ret void` and nothing else.
ReturnVoid ==
  /\ "return_void" \in kinds /\ Running
  /\ IF depth > 1
       THEN call[depth].sink = "discard" /\ Back(heap, Null)
       ELSE /\ pc' = "exited"
            /\ slot' = [s \in Slots |-> IF s = Global THEN slot[s] ELSE Absent]
            /\ declared' = [declared EXCEPT ![1] = 0]
            /\ UNCHANGED <<kinds, heap, depth, ret, call>>

-----------------------------------------------------------------------------
Next ==
  \/ DeclareFresh \/ DeclareCopy \/ DeclareUninitialised \/ DeclareAgain
  \/ AssignFresh \/ AssignCopy
  \/ PrintFString \/ PrintFStringOfVariable \/ PrintTemporary
  \/ CallWithVariable \/ CallWithLiteral \/ CallWithTemporary \/ CallWithFString
  \/ ReturnFresh \/ ReturnLiteral \/ ReturnVariable \/ EndOfBody \/ ReturnVoid
  \/ Unwind \/ LeaveFunction \/ LeaveMain

Spec == Init /\ [][Next]_vars

-----------------------------------------------------------------------------
\* The variable table and the stack agree: exactly the declared locals of the
\* frames in use hold a value, so a return releases each of them once and nothing
\* below scope_base (src/codegen/stmt.c:12, decl.c:131-146).
FramesMatchTable ==
  \A s \in Slots : s[2] > 0 =>
    (slot[s] # Absent <=> s[1] > 0 /\ s[1] <= depth /\ s[2] <= declared[s[1]])

\* The references to o: owning variables, a temporary on its way out of a
\* function, and an f-string its caller will release.
Owners(o) ==
  Cardinality({s \in OwningSlots : slot[s] = o})
  + (IF ret.how = "temporary" /\ ret.val = o THEN 1 ELSE 0)
  + Cardinality({d \in 1..MaxDepth : call[d].fstring = o})

-----------------------------------------------------------------------------
\* The statement forms after which one count has two owners, or an owner none.
Aliasing == {"copy", "assign_param", "global_arg", "fstring_var", "return_local"}

\* The forms that leave a reference behind which nobody will release.
Dropping == {"temp_arg", "discard", "redeclare", "return_void", "assign_param"}

\* The forms that bring a pointer without a header to a retain or a release.
Headerless(ks) ==
  \/ {"uninitialised", "return_literal"} \cap ks # {}
  \/ {"literal_arg", "return_param"} \subseteq ks

Without(ks) == kinds \cap ks = {}

\* The program never retains or releases anything but a live block.  README.md:109
\* says it of every program; TLC finds programs of which it is false.
NoTrap == heap.trap = "none"

\* A program with neither aliasing nor headerless pointers retains and releases
\* live blocks only, and no variable in scope, borrowed parameters included, ever
\* points to a freed block (src/codegen/arc.c:50-75, stmt.c:9-29, expr.c:342-399).
MemorySafe ==
  Without(Aliasing) /\ ~Headerless(kinds) =>
    /\ NoTrap
    /\ \A s \in Slots : slot[s] \in Objects => Live(heap, slot[s])

\* In a program that drops references but does not alias, a count is never below
\* the number of owners: blocks may leak and are never freed early.  With CountsCovered:
\* in a program that does neither, counts are exact.
CountsCover ==
  NoTrap /\ Without(Aliasing) =>
    \A o \in Objects : Live(heap, o) => heap.count[o] >= Owners(o)

\* In a program that aliases but drops nothing, a count is never above the number
\* of owners: blocks may be freed early and never leak.
CountsCovered ==
  NoTrap /\ Without(Dropping) =>
    \A o \in Objects : Live(heap, o) => heap.count[o] <= Owners(o)

\* When main of a program that drops nothing has returned, only what the global
\* variable owns is still allocated: the releases of codegen_return and of the
\* epilogue reach every block (src/codegen/stmt.c:12-14, decl.c:131-146).
NoLeakAtExit ==
  pc = "exited" /\ Without(Dropping) =>
    \A o \in Objects : Live(heap, o) => slot[Global] = o
=============================================================================
