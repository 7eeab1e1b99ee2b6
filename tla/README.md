# A TLA+ development of penguinC

penguinC is a small compiled language.  Its compiler (`src/src/`, C on top of the
LLVM C API) lexes, parses and type-checks a `.pc` file, generates LLVM IR with
reference counting and `using` calls inserted, and links the result with a run-time
library (`src/runtime/arc.c`) and C modules (`src/stdlib/`).  This directory holds
TLA+ models of the parts of it whose correctness is a question of order: which
thread does what first, which path leaves a function or a block, which token
decides what is parsed, which of two tables is consulted when.  Source paths below are relative to the repository
(`src/` is its root, so the compiler is under `src/src/`).

## 1. Inventory

| component | source | state it keeps | operations |
|---|---|---|---|
| ARC runtime | `runtime/arc.c` | one count in front of every heap block | `arc_alloc`, `arc_retain`, `arc_release`, their `_shared` versions, `arc_wrap_string`, `arc_refcount` |
| ARC instrumentation | `src/codegen/arc.c`, `stmt.c`, `expr.c`, `decl.c` | the compiler's variable table `vars[]`, `var_count`, `scope_base`; in the program it emits: stack slots and counts | what a declaration, an assignment, a call, an f-string, a return and the end of a body emit |
| threads | `stdlib/threads/threads.c` | a malloc'ed `thread_handle` per thread | `thread_run`, `thread_run1`, trampoline, `thread_join`, `thread_get` |
| mutex | `stdlib/mutex/mutex.c` | a malloc'ed `mutex_handle`: pthread mutex and `lock_count` | create, destroy, enter, exit, tryEnter, getLockCount |
| using statement | `src/codegen/stmt.c` | none of its own | `enter` call, body, `exit` call |
| control flow | `src/codegen/stmt.c` | current block, `break_target`, `continue_target`, label table | if, switch, match, four loops, break, continue, label, goto, return |
| type checker | `src/frontend/typecheck.c` | stack of scopes, function and struct tables, `using_depth` | one walk over the tree |
| symbol registries | `src/codegen/ctx.c` | flat tables of variables, types, functions, structs, labels | push, lookup |
| names and overloads | `src/codegen/mangle.c` | none | mangle, resolve an overload |
| types and generics | `src/codegen/type.c`, `expr.c` | table of instances already generated | resolve a type name, instantiate |
| expressions | `src/codegen/expr.c`, `stmt.c` | the builder's position; in the program it emits: registers and memory | value and place of an expression, conversions |
| imports | `src/codegen/import.c`, `tc_import`, `parse_header_file`, `parse_pc_file` | the map of function names, the type checker's functions, link paths | resolve a `#import`, read a header or a source file for its functions |
| lexer | `src/frontend/lexer.c` | position in the text with line and column, the current and a peeked token | init, next_token, advance, peek, match, expect; the parser copies it and copies it back |
| parser | `src/frontend/parser.c` | none but the lexer | one function for each construct, by recursive descent |
| AST | `src/frontend/ast.c`, `ast.h`, `printast.c` | the tree | constructors, print |
| files, console, unistd | `stdlib/` | a `file_handle` per open file; none; none | open/enter/exit/close/read; print and convert; declarations |
| backend, debug info, errors, driver | `backend.c`, `codegen_debug.c`, `error.c`, `main.c` | the module; none; none; the command line | verify, optimise, emit; metadata; report; the pipeline |

How they interact:

- `main.c` runs the pipeline: parse, type-check, codegen, verify, emit, link.
- codegen inserts calls of the ARC runtime; the compiled program makes them at run
  time, from several threads if it uses `std.threads`, and picks the `_shared`
  functions for variables declared `shared`.
- `using(m) { body }` compiles to `enter(m)`, the body, `exit(m)`, with the functions
  found by name in the headers of the imported module (mutex, files).
- the type checker and codegen resolve names separately, the one in nested scopes,
  the other in a flat table searched from the end.

What is hard about it, and what makes each part right:

- *Threads on one count.* `arc_retain` and `arc_release` are a load and a store.
  Right: counts equal the number of owners in every interleaving, a block is freed
  once, only when nobody owns it, and always then.
- *Instrumentation.* The calls are inserted statement by statement, with no dataflow
  analysis.  Right: for every sequence of statements, each reference is released
  exactly once on the way it is lost, and parameters are borrowed.
- *Waiting.* Handles are freed by `get` while the thread writes to them; `lock_count`
  is a plain variable.  Right: nothing is read or written after its free, counts are
  not lost, everyone who waits goes on.
- *Leaving blocks.* Every way out of a body must run what the end of it runs.
- *Types without a conversion.* The type checker has one kind for all integers and lets
  pass what it does not know; codegen takes the machine type of what it generated.
  Right: what passes is valid code, and computes what the source says, operands from
  left to right, each once.
- *Two views of a program.* The type checker's scopes and codegen's table should
  resolve every name to the same variable; `shared` is enforced only by counting the
  `using` statements around an assignment.

`PROJECT.json` lists the hazards one by one, each at the line where it bites.

## 2. Plan

1. ARC runtime under threads (`ArcOwnership`, `ArcRuntime`, proofs) - done.
2. ARC instrumentation (`ArcCodegen`) - done for strings in straight-line functions.
3. Threads, mutex and `using`, alone and composed (`ThreadHandles`, `Mutex`,
   `UsingCounter`, `AtomicCounter`) - done.
4. Control flow (`StructuredFlow`, `ControlFlow`): codegen's basic blocks next to a
   reference semantics - done.
5. Scopes (`Scopes`): the type checker's walk (`mut`, `shared`, `using_depth`) and
   codegen's variable table over one program - done for variables.
6. The lexer and its window of tokens (`Lexer`, `TokenCursor`), the parser (`Syntax`,
   `Parser`), names, imports, calls and the classes of `using` (`Names`, `Headers`,
   `Linkage`) - done.
7. Expressions (`Typing`, `Emission`, `Expressions`): their types, the instructions and
   blocks generated for them, and what these compute - done.  Class instances (new,
   methods, inheritance) also under ARC, generics, casts, alloc and free, the length word
   of arrays, enum values - left.
8. File handles: open, use, close and `using` over `stdlib/files/files.c`, in one run
   with the mutexes - left.
9. Proofs: every invariant of `ArcRuntime`, `ArcCodegen`, `Mutex`, `ThreadHandles`,
   `UsingCounter`, `Scopes` and `Lexer`, the refinements of `ArcOwnership`,
   `AtomicCounter` and `TokenCursor`, and four of the invariants of `Linkage` - done
   (section 5).  `ReachesExact` of `Linkage` - left.

The modules keep the runs few: what could be a run of its own with another constant
is, where it can be, a choice of the initial state, and the properties say for which
choices they are true.

## 3. The modules

### ArcOwnership, ArcRuntime - `runtime/arc.c`

`ArcOwnership` is what the runtime promises: objects are live or not and have a set
of holders; a new object has one, holders share, move and drop references, and an
object is reclaimed only when nobody holds it, and then eventually.

`ArcRuntime` is the code.  `allocated` and `refcount` are the heap, `ref[r]` the
pointer in variable `r` of thread `Owner[r]`, and `pc`, `arg`, `src`, `dst`, `loaded`
the local state of a thread inside a runtime call.

| action | code |
|---|---|
| `ArcAlloc` | `arc_alloc`: malloc, count 1 |
| `ArcRetainLoad`, `ArcRetainStore` | `h->refcount++` of `arc_retain`, a load and a store |
| `ArcReleaseLoad`, `ArcReleaseStore`, `AfterDecrement`, `ArcFree` | `--h->refcount`, the comparison with zero, and `free` |
| `ArcRetainShared`, `ArcReleaseShared` | the `__sync_` / `__atomic` versions, one step each |
| `HandOver` | a reference that moves to another variable without a runtime call (the result of a call stored by the caller) |

Plain functions are used for an object only by the thread that owns it, as codegen
selects the `_shared` functions for `shared` variables; the model lets several
threads hold an object only if it is in `SharedObjects`.

The refinement mapping takes an object's holders to be the variables that point to
it, less a variable whose release is under way once the count is decremented, and
keeps an object live until `free` has run.

### ArcCodegen - what the compiler inserts

A program is any sequence of statements on `string` variables, in frames of nested
calls.  `slot[<<d, i>>]` is variable `i` of frame `d` (0 the parameter, which is below
`scope_base` and borrowed), `<<0, 0>>` a global; `declared[d]` is what `var_count` says
of the frame, and `call[d]` what the caller's code does when the call returns.
`kinds` is the set of statement forms the program uses beyond the basic ones.

| actions | code |
|---|---|
| `DeclareFresh`, `DeclareCopy`, `DeclareUninitialised`, `DeclareAgain` | `codegen_var_decl` |
| `AssignFresh`, `AssignCopy` | `codegen_assign`: value, release of the old, store |
| `PrintFString`, `PrintFStringOfVariable`, `PrintTemporary` | calls of C functions; f-string arguments are released after the call |
| `CallWithVariable`, `CallWithLiteral`, `CallWithTemporary`, `CallWithFString` | `codegen_call` |
| `ReturnFresh`, `ReturnLiteral`, `ReturnVariable`, `EndOfBody`, `Unwind`, `LeaveFunction`, `LeaveMain` | `codegen_return` and the epilogue of `codegen_func_decl`: value, releases from `var_count` down to `scope_base`, retain of a returned identifier, ret |
| `ReturnVoid` | `return;`: a ret and nothing else |

A retain or release of a word that is not the count of a live block sets `heap.trap`
(`literal`, `wild`, `freed`), and the program is not followed further.  Freed blocks
are not handed out again, so that a use after free cannot hide.

### ThreadHandles - `stdlib/threads/threads.c`

`handle[h]` is the block, `thread[h]` how far the trampoline is, `tcall[c]` the join or
get caller `c` is in.  The two stores of the trampoline, the join, the read of the
result and the free are separate steps.  `pthread_create` may fail (the code ignores
its result) and `pthread_join` waits for the end of the thread; both are external.
Joining twice, joining what was never created and touching a freed handle set
`undefined`.

### Mutex - `stdlib/mutex/mutex.c`

`mutex[m]` is the handle with the owner of its pthread mutex, `mcall[t]` the call thread
`t` is in.  `lock_count++` and `lock_count--` are a load and a store.  The clients of
`MNext` exit only what they hold, do not enter a second mutex while they hold one, and
destroy a mutex when nobody has it or is inside a call on it.

### UsingCounter, AtomicCounter - threads, mutex and `using` together

The program of `tests/runtime/test_39_mutex_race.pc`: main creates the mutex, runs the
workers, gets each, prints, destroys the mutex; a worker repeats `enter`, load, store,
`exit`.  It composes `Mutex` (`M!`) and `ThreadHandles` (`T!`): each of its actions is a
step of theirs joined with a change of the program's own state.  `leaves` says how the
body may be left: by its end, where codegen put the call of exit, or by a return, break
or continue, whose branch goes past it.  In the source those sit in an `if` of the body;
the condition is abstracted to a choice.  `AtomicCounter` is the specification: each
addition is one step, and the total is printed when all are done.

### StructuredFlow, ControlFlow - basic blocks

`StructuredFlow` says what the control statements mean, as a continuation: the
statements and loops still to come, innermost first.  It is written from the language,
not from codegen, and is what `ControlFlow` is compared with.

`ControlFlow` is codegen.  `Codegen(program)` compiles a whole program with one operator
per function of the code, over a record that holds what `CodegenCtx` holds: the blocks,
the current block (the builder's position), `break_target`, `continue_target` and the
label table.  `Init` compiles, and the actions then execute the blocks (`pos`) and the
continuation (`k`) in step; the outcome of each condition is chosen.

| operator | code |
|---|---|
| `CodegenIf`, `CodegenSwitch`, `CodegenMatch` | the functions of these names; `Branch` and `CaseBodies` are what they share |
| `CodegenWhile`, `CodegenDoWhile`, `CodegenFor` | the loops; the array, string, range and C forms of `for` make the same blocks, and a C-style for without condition is `forever` |
| `LoopBody` | saving, setting and restoring the two targets |
| `CodegenLabel`, `CodegenGoto`, `BrIfTarget`, `CodegenStmt` | `codegen_stmt`: jumps and labels always, anything else only in a block without terminator |
| `CodegenFunc`, `Codegen` | entry block, body, final ret, for each function in turn |

Observed are actions, tests, the setup and increment of a for, enter and exit of a
`using`, and returns, each with its place in the source.  `Sound` says of which programs
the agreement is claimed; section 6 lists what it leaves out.  A `break` in a `switch`
concerns the loop around it and is without effect outside loops, in the reference as in
the code: no document says otherwise and cases do not fall through.

### Scopes - two passes over the names of a program

`scopes` is the type checker's chain of scopes, `vars` and `scope_base` codegen's table,
`decls` the declarations of the program, each with its number; an entry of either
structure carries that number, so that "the same variable" means something.  An action
is a piece of program text - a global, the head or end of a function, a declaration, the
head or end of a block, an access to a name - with what both passes do for it.  In the
code the type checker finishes first, and it has all globals in its first scope before
the first function; since neither pass reads what the other writes, walking them
together changes nothing, and `ahead` is how many globals codegen has met.
`access` records what each pass took the last name for.  A program may be of any size and
may stop anywhere: what holds in every state holds of every piece of a program.

| action | type checker | codegen |
|---|---|---|
| `MeetGlobal` | first loop of `tc_program` | |
| `Global` | | `codegen_program`, at a global |
| `BeginFunction`, `EndFunction` | second loop of `tc_program` | `codegen_func_decl` |
| `Declare`, `DeclareFromItself` | `tc_var_decl`: initialiser, then the name | `codegen_var_decl`: name, then the initialiser |
| `OpenBlock`, `OpenWithVariable`, `OpenUsing`, `CloseBlock` | `tc_if`, the loops, `tc_using`, the cases | no scopes; a variable of a for or using is pushed |
| `Touch` | `tc_ident`, `tc_assign`, `tc_unary` | `codegen_ident`, `get_lvalue` |

A rejected program and one that codegen gives up (`error_at` exits) are not followed
further.  Types are left out.

### Lexer, TokenCursor - `src/frontend/lexer.c`

`src` is the text, `lex` the `Lexer` structure (where it reads, `current`, `peek`,
`has_peek`), `saved` a copy of it.  `NextToken` is `next_token`, a function of
the text and a place.

| definition | code |
|---|---|
| `SkipBlanks`, `StringBody`, `Scan`, `NextToken`, `Moved` | `skip_whitespace_and_comments`, `check_keyword`, `next_token`, `advance` |
| `Init`, `Advance`, `Peek` | `lexer_init`, `lexer_advance` (and match, expect), `lexer_peek` |
| `Save`, `Restore` | `Lexer saved = *P` and `*P = saved` in the parser |

A few characters stand for all: three letters with which two keywords can be written,
one digit, the quote, and the operators that share a first character.  An error token
ends a run, since `error_at` exits.  `TokenCursor` is what the parser relies on: one
sequence of tokens, whatever it peeks at and puts back.

### Syntax, Parser - `src/frontend/parser.c`

`Syntax` has the tree (a node is a kind, a text and children) and writes it down as
tokens in one of four styles: with or without semicolons, with or without the braces of
branches and cases.  It is written from the language and knows nothing of the parser
except the names of the levels of operators.

`Parser` has one operator for each parse function, from a place in the tokens to a node
and the place behind it (0 after `error_at`).  `program` is the source tree, if there is
one, and the tokens; `pos`, `decls` and `status` are how far `parse_program` is.

| definition | code |
|---|---|
| `TypeAt`, `TupleTypes`, `TypeArgs`, `Stars`, `TypeName` | `parse_type`, `type_node_name` |
| `LevelAt`, `LeftRest` | `parse_assignment` down to `parse_unary` |
| `PostfixRest`, `ParsePrimary`, `ParseFString`, `ExprList` | the functions of these names |
| `StmtAt` and the `Parse...` operators it uses | `parse_statement`, `parse_if`, `parse_switch`, `parse_match`, the loops, `parse_using`, `parse_var_decl_or_expr` |
| `TopLevelAt`, `ParseFunc`, `ParseClass`, `ParseFields`, `ParseImport`, `ParseDecorated` | `parse_top_level` and the functions of these names |
| `ParseTopLevel`, `Accept` | `parse_program` |

The trials of the code (a copy of the lexer, an attempt, the copy put back) are the same
here: a place is tried, and another operator goes on from the place before.

### Names, Headers, Linkage - which function a call reaches

`Names` has the tables of types: their letters in mangled names, LLVM types, kinds of
the type checker, coercions.  `Headers` reads a header (`HeaderEntries`) or makes out the
functions of a source file by counting braces (`PcScan`).  `Linkage` takes a program
(imports, functions, calls and using statements in their bodies) through the passes in
their order: `phase` is the pass, `at` the declaration, `todo` what of its body is not
generated yet; `checker` is the type checker's table, `maps`, `types`, `declared`,
`classes` and `links` codegen's, `called` the calls generated and `held` the using
statements, with the functions they call in front of and behind their bodies.

| definition | code |
|---|---|
| `Declare`, `CheckImport` | first loop of `tc_program`, `tc_import` |
| `Check`, `Accepted` | second loop, `tc_call` |
| `GenerateImport`, `FunctionMaps`, `ClassMaps`, `ImportedTypes` | `codegen_import`, `register_func_map`, `register_class_func_maps` |
| `GenerateFunction`, `ObjectName` | `codegen_func_decl`, `mangle_name` |
| `GenerateCall`, `Resolve`, `BestOverload`, `Validates`, `Guess`, `Passed` | `codegen_call`, `validate_call_args`, `mangle_call_name` |
| `GenerateUsing`, `ClassOf`, `ClassNamed`, `FirstClassOf`, `MethodOf` | `codegen_using`, `resolve_class_name`: the class of the resource, and its enter and exit |

The first error of codegen ends the compiler (`failed`); those of the type checker are
collected and end it after its walk (`rejected`).

### Typing, Emission, Expressions - what an expression computes

`Typing` has the type checker's kind of an expression (`Checked`) and the LLVM types.
`Emission` is codegen: `Gen(mode, n, g)` gives the builder after an expression, its place
or a statement, with one operator per function; the builder is the blocks, the block
that is built and the operand that stands for what was just generated.  `Expressions`
takes one statement through type checker and codegen (`Compile`), and executes the
instructions (`code`, `at`, `from`, `regs`, `mem`, `calls`).

| definition | code |
|---|---|
| `Checked` and the `Tc...` operators | `tc_expr` and the functions it is split into; `Kind` is `resolve_tc_type`, `IsCoercible` `is_coercible` |
| `Machine` | `resolve_type` |
| `GenBinary`, `GenLogical`, `GenUnary`, `GenAssign`, `GenTupleAssign`, `GenTernary`, `GenFString`, `GenArray`, `GenTuple`, `GenIndex`, `GenMember` | the `codegen_...` function of the expression |
| `GenTo`, `ToText` | the `.to<T>` part of `codegen_call`, `codegen_auto_tostring` |
| `GenCall`, `ValidateCallArgs` | `codegen_call`: the arguments, once more after `validate_call_args`, and the call |
| `ByMangledName`, `AmongOverloads`, `ArgLetter` | how the function is found: by the letter that `mangle_call_name` guesses from the form of the argument, else one of the program by five other letters, one of a header by its plain name |
| `GenPlace`, `ElementPlace`, `MemberPlace` | `get_lvalue` |
| `GenDeclare`, `Coercion` | `codegen_var_decl` |
| `IsAccepted`, `Compile` | `tc_var_decl`, `tc_return`; the order of passes in `main.c` |
| `FitsIn`, `Compute`, `StoreValue`, `Jump`, `Branch2` | LLVM: its verifier and its instructions (external) |

Values are terms - what is computed from what - so that two programs agree when they
compute the same from the same in the same order, whatever the numbers are.  A branch
goes either way when its condition is met first, and the same way from then on
(`known`).  LLVM's pointers have no type of what they point to; those of the model do,
and a load or store of another type is `invalid` like an instruction the verifier
refuses.

`Strict` gives the type an expression must have for its code to be valid, and `Meaning`
what the source means; both are written from the language and know nothing of blocks and
registers.  The calls of ARC, the hash of a member's name that `codegen_member` falls back
to, and the length word of arrays are left out.

## 4. The runs

| run | result |
|---|---|
| `arc_runtime` | 3 threads, 5 variables, 1 plain and 2 shared objects.  Counts exact, one free per block, no dangling variable, no leak, the inductive invariant of the proofs, and the refinement of `ArcOwnership` with its liveness. |
| `arc_codegen` | 3 blocks, 2 frames, 2 locals each, five families of programs.  See below. |
| `mutex` | 3 threads, 2 mutexes. `lock_count` is 1 while a thread has the mutex and no update is under way and 0 when it is free; updates never overlap; a mutex that is taken is given back. |
| `thread_handles` | 2 callers, 3 threads, up to 2 waits on each, creation may fail. Undefined behaviour only after a second wait or a failed creation; `get` returns the function's result; a handle is not freed before its thread's last store; every `get` returns. |
| `using_counter` | 3 workers, 2 rounds, two programs.  Mutual exclusion, and no use of a freed mutex, in both; the program whose bodies end at their end stops and implements `AtomicCounter` (so it loses no addition and prints the whole total). |
| `control_flow` | 5014 functions: any statement in any loop and any statement in any other, and a goto before, behind, into and out of a loop, in a program whose first function has a goto too.  The blocks do what the source means for every outcome of every condition, and each ends with its only terminator, inside its function. |
| `scopes` | every program of 3 declarations (2 of them globals at most), 2 functions, 2 nested blocks, 2 names.  See below. |
| `lexer` | every text of 3 characters of 12, and of 4 of the characters of literals.  Each token is the longest there is at its place, nothing but blanks and comments lies between two tokens, lines and columns are right, and the window of tokens is a cursor. |
| `parser` | expressions two operators deep, all pairs of statements and of declarations in four styles, and any 4 tokens in the body of a function.  See below. |
| `linkage` | six forms of header import, four of source import, one or two of them, calls with every form of argument, overloads of the module, using statements with every form of resource.  See below. |
| `expressions` | 14,613 statements over variables of twelve types: every operator with every operand, calls of eight functions, declarations and returns of every type, and side effects inside of everything.  See below. |
| `arc_return_local` | violation: `return x` of a local string frees it before it is retained (README.md:146 says the return value is retained for the caller). |

What `arc_codegen` says about the inserted calls.  With only the basic forms, replaced
globals and returned parameters or globals, counts are exact and nothing is left at
exit but what a global owns.  The other forms fall in three classes, and the properties
state what still holds for each:

- *dropping* (`temp_arg`, `discard`, `redeclare`, `return_void`, `assign_param`): an
  unnamed string given to a call, a result nobody stores, a declaration in a loop,
  `return;`.  Counts stay at or above the number of owners: leaks, no early free.
- *aliasing* (`copy`, `assign_param`, `global_arg` with a callee that assigns the global,
  `fstring_var`, `return_local`): neither a declaration nor an assignment retains what
  it reads from another variable, a parameter that is assigned releases the caller's
  string, `f"{x}"` of a string is `x` itself and is released after the call, and a
  returned local is retained only after its release.  Counts stay at or below the
  number of owners: early frees.
- *headerless* (`uninitialised`, `return_literal`, a literal argument that is returned):
  a retain or release touches a word that is not a count; no block is damaged by it
  before that.

Each form in the aliasing and headerless classes makes `NoTrap` or the second half of
`MemorySafe` false on its own or with the form named beside it; `arc_return_local` is
the run kept for one of them.

What `scopes` says about names.  `kinds` is the set of forms the program has used, one or none
per program in the run, and the properties state for which of them they hold.  Each form
a property excludes breaks it by itself.

- Both passes resolve alike when a program has none of: the same name twice in a scope
  (the type checker keeps the first, codegen takes the last), a visible name declared
  again in an inner block (codegen goes on using it after the block), a parameter with the
  name of a global (it stays in the table, and later functions get it for the global),
  `int x = x`, and a global used in front of its declaration (accepted, then "undefined
  variable" from codegen).  The same names in blocks side by side, in several functions,
  and locals that hide a global at the top of a function are harmless.
- Accepted stores respect `mut` and `shared` unless a name is declared twice or shadowed,
  or the store is a `++` or `--`, which `tc_unary` does not check.
- The part of the table that a return releases is exactly the function's locals, always.

What `parser` says.

- `RoundTrip`: a tree written with all semicolons and braces is parsed to itself, so
  levels and grouping are right in every place of an expression.  Excluded
  (`Misleading`) is what `parse_var_decl_or_expr` and its like take for something else:
  a statement that begins with `a * b`, `a < b`, a parenthesis or `a.b *`; a for whose
  initialisation is an expression that begins with a name; a case whose value begins with
  a star, which is the default.
- `SemicolonsOptional`: leaving out semicolons, and the braces of branches and cases,
  changes nothing.  Excluded (`Ambiguous`, `DeclsAmbiguous`) are places where the token
  that follows can continue what is in front of it - `(`, `[`, `*`, `-`, `.`, `++`
  after an expression, anything after a bare `return`, a name after a name, the begin of
  an unbraced branch after its condition, a declaration after a variable without value.
- `NothingLost`: no accepted sequence of tokens has a name or literal that is not in the
  tree, except for statements that begin like a type, where a trial consumes stars.

What `linkage` says.

- `ReachesExact`: a call whose arguments have just the types of one visible function
  reaches it, is not refused, and passes what it takes.  Claimed of arguments whose type
  is plain from the source (`Plain`: literals of int, float and string, variables of
  types with letters), of functions above the call (codegen reads top down), and where
  the name is `Certain`: all functions of the name come from the module or all from
  headers.  A function of the module against one of the same name in a source file, or a
  name that only a wrong letter tells apart, is not.
- `OnlyVisible`: a call reaches only what its name stands for, in the programs of the run
  always.  For all programs it takes `SymbolsApart` (`LinkageProofs`; 4351 of the 4354
  programs of the run have it): a qualified call puts the C symbol of what it reaches
  among the functions of the module (`expr.c:1039`), and a later bare call that is
  spelled like that symbol, or like a mangled name another header gives, takes it.
- `WellTyped`: calls of functions of the module, and qualified calls, pass arguments of
  the parameters' machine types.  Not bare calls of imported functions: their last
  resort, the plain name, is not validated (`expr.c:823`).  For all programs it takes
  `TypesApart` besides (`LinkageProofs`), which the same 4351 programs of the run have; 2305
  of them have a plain call of at most one qualifier.
- `SourcesRead`: the functions found in a source file are those in it, for files in
  `PlainStyle`: the brace on the line of the name, the closing one on a later line, no
  class, and what has a parenthesis elsewhere, or closes the braces it opens, inside of a
  body.  Their symbols are those of the object files, except with a parameter of type int, long, i64 or
  u64: `parse_pc_file` (`parser.c:1632`) has other letters for these than `mangle_name`,
  and the call is linked to a symbol that no object has.

- `UsingHolds`: a using whose resource has one imported class - a variable of that type,
  or a call of a function of a module with a single class - calls that class's enter and
  exit, under every form of import and next to other classes.  `codegen_using` finds the
  class by searching the registered names for its text, ignoring case, so the property
  excludes classes with the name of a function or of a method, and two whose names differ
  in case only (`ClassNamesApart`).  It says nothing of
  resources without a class: `long m = mutex.create()` (test_38), a bare call under a
  wildcard import, the program's own functions and classes.  The type checker accepts
  those, counts them in `using_depth`, and codegen emits the body alone.

`NoNameTwice` keeps out programs with two functions of one object name (`f2()` and
`f(int)`): nothing in the code notices them.

What `expressions` says.  Of 14,613 statements, 7053 are rejected by the type checker, 366
are refused by codegen (a call whose function is not found, or whose argument
`validate_call_args` turns down) and 4520 are `invalid`; the other 2674 run to their end, in
3762 ways:

- `CodeFits`: accepted code is valid exactly when its `Strict` types fit.  Where they do
  not, the type checker has let pass what codegen does not convert: assignments are
  stored as they are (README.md:98 lists int↔float as coerced: `x = 2.5` stores a double in an
  integer), a compound assignment is one of integers whatever its operands (`y += 1.0`
  adds two floats with the instruction for integers), the branches of `?:`, the
  elements of an array and the fields of an initializer may differ in their types, an
  element of anything but an array variable is an `i64`, and `.to<i128>` of a string
  and `.to<float>` of a float have no conversion.
- `SameValue`: a program that ends has written, called and returned what it means.  Set
  apart (`Surprises`, 142 of the 3762) are: conversions between bool and other types,
  which treat the bit as a sign (`int x = b` is -1 for true) and a number by its last bit
  (`bool b = 2` is false); `.to<bool>` of a pointer, always true; the argument of a
  qualified call whose letter is not guessed right (`expr.c:46`: `m.f(x.to<int> + x++)` is
  taken for a string), and the first element of an array (`expr.c:1670`), when they
  have side effects, which happen twice; and the assignment to a field of a tuple whose value has side effects
  (the tuple is read in front of it) or whose operator is not `=` (ignored).

### Bounds, and why they are enough

- `arc_runtime`: two threads are needed for a race and a third for a race with a free;
  a thread with two variables holds two references to one object.
- `arc_codegen`: `Objects` (3) bounds allocations in the whole run, `MaxDepth` (2) nested
  calls, `MaxLocals` (2) locals of a frame, `MaxCount` (2) references to one block at a
  `return` that retains.  A defect of the inserted calls concerns two variables of one
  frame, or a parameter or global and a local of the next: two frames with two locals
  have them all, and a third block tells an old value from a new one.
- `mutex`: with three threads one holds and two contend; two mutexes show that calls on
  one do not touch the other.
- `thread_handles`: `Uses` (2) is the least that shows a second wait; two callers may wait
  for one thread at once.
- `using_counter`: `Rounds` (2) is the least with a re-entry by a thread that has left.

- `control_flow`: two statements inside each other, lists of at most two statements
  around and in them (four with a label): the targets of a loop matter to a statement in
  it and to one after an inner loop, the terminator of a block to what follows it.
  Deeper nesting repeats these pairs.

- `scopes`: `MaxDecls` (3), `MaxGlobals` (2), `MaxFunctions` (2) and `MaxDepth` (2) - a disagreement needs two
  declarations of a name, or one and a function that has ended; the third tells a
  variable that is merely other from one that is not there.

- `lexer`: a decision of `next_token` looks at two characters, and three for the fraction
  of a number; `MaxLength` (3) has all triples, `MaxLiteral` (4) adds a number with two
  dots and a literal with two escapes.
- `parser`: an expression in another one is enough to tell how two operators group, a
  statement in another one and one after it what ends it; `MaxTokens` (4) is the length
  of the longest trial (a name, `.`, a name, `*`).
- `linkage`: at most two imports and two calls or using statements.  A conflict of names needs two imports, and
  what one call declares is found by the next.

- `expressions`: a conversion depends on two types, and every pair of the types of variables
  and literals meets under one operator of each class; order shows with two side effects
  on one variable, which every form of expression has in it once, next to calls and
  branches.  A function has one parameter: of the program an int, a float, a string and a
  char, three of which are among the letters tried for an overload, and of a header an int, an isize (a
  letter that no literal has), a float and a string.

Blocks and mutex clients are symmetric; the symmetry of blocks is used in the runs of
`ArcCodegen`, which check no liveness.

`CHECK_DEADLOCK FALSE`: a program of `ArcCodegen` exits or traps; in `ThreadHandles`
every handle is used up or something undefined has happened; in `Mutex` all mutexes may
be destroyed; in `UsingCounter` main ends, or a mutex is left locked for ever; a function
of `ControlFlow` returns; a program of `Scopes` ends or is rejected; `Lexer` stops at an
error; a program of `Parser` is accepted or rejected; one of `Linkage` is built, rejected
or failed; one of `Expressions` ends, is rejected, refused or invalid.

### Fairness

Weak fairness of the steps inside a call: the scheduler goes on running a thread that is
not blocked.  `ThreadHandles` also assumes that the functions of threads return.
`Mutex` assumes of its clients that they leave what they enter (strong fairness of
`Exit`) and nothing of the pthread mutex: a single waiting thread has no promise, since
`pthread_mutex_lock` is not fair.  `Released` speaks of the mutex, not of a waiter.
`UsingCounter` has weak fairness of each thread only; its workers end because rounds are
finite.  `ArcRuntime` has weak fairness of a thread's step inside a runtime call.  `Parser` goes on
until it is done; `Lexer`, `Linkage` and `Expressions` have no liveness
properties and no fairness.

## 5. Proofs

TLAPS proves the following for all values of the constants; TLC checks each property on
the instance of its run.  The inductive invariants hold there too (`TokensInv` apart, which
speaks of every place and is not evaluated).  Every module of proofs has the form: the strengthening of the invariants,
lemmas on the operators, one lemma or step per action and one per conjunct that the
action can disturb, and the theorems.

| module | theorems | for all |
|---|---|---|
| `ArcRuntimeProofs` | `TypeCorrect`, `NothingDangles`, `FreedOnce`, `CountsAreExact`, `NothingLeaks`: the invariants of `arc_runtime`; `Correct`; `ImplementsSafe`: every step is a step of `ArcOwnership` or a stutter | threads, objects, variables |
| `ArcCodegenProofs` | `TableMatchesStack`, `NeverTooLow`, `NeverTooHigh`, `EverythingReleased`, `ProgramsAreSafe`: the invariants of `arc_codegen` | blocks, depth of calls, locals, sets of statement forms |
| `MutexProofs` | `UpdatesAreGuarded`, `CountsTrackOwners`: the invariants of `mutex`; `MutexCorrect` | threads, mutexes |
| `ThreadHandlesProofs` | `NothingUndefined`, `AnswersArrive`, `FreedAfterLastStore`: the invariants of `thread_handles`; `ThreadsCorrect` | callers, threads, calls, results |
| `UsingCounterProofs` | `BodiesExclude`, `NothingUsedAfterFree`: the invariants of `using_counter`; `NobodyKeepsTheMutex`; `UsingIsAtomic`: the refinement of `AtomicCounter` | workers, rounds, ways of leaving the body |
| `ScopesProofs` | `PassesAgree`, `StoresKeepQualifiers`, `ReturnReleasesLocals`: the invariants of `scopes`; `NamesInOrder` | names, sizes of programs |
| `LinkageProofs` | `PlainSourcesAreRead`, `UsingCallsItsClass`, `OnlyVisibleReached`, `TypesArePassed`: four invariants of `linkage`; `ReadingIs`, `DeclaredFromIs`, `TypesFromIs` | programs |
| `LexerProofs` | `TokensAreOfText`, `TokensAreLocated`: the invariants of `lexer`; `LexerIsCursor`: the refinement of `TokenCursor`; `WindowIsConsecutive` | texts |

### ArcRuntimeProofs

Assumed: every variable has an owner among the threads, `SharedObjects` are objects, `Nil`
is neither an object nor a variable, the set of variables is finite.

`RefcountExact` alone is not inductive: between the load and the store of a plain
retain or release, the step is right only because nobody changed the count since.
`IInv` adds `PlainConfined` (an object that is not shared is in variables of one thread
only), `RetainInFlight` and `ReleaseInFlight` (what was loaded is still the count, and
the variables of the call are as the load left them) and `FreeInFlight`.  The arithmetic
is in lemmas on how the cardinality of `HoldersIn(f, o)` changes when one variable is set
or cleared.

### ArcCodegenProofs

Assumed: positive bounds, finitely many blocks, and that the values that are no blocks
differ from blocks and from each other.  Three invariants on top of each other:

- `FInv`: the frames.  The table of a frame says which slots are declared
  (`FramesMatchTable`), frames above the stack are empty, and what a caller will do with
  a result is still possible when it comes.
- `CountInv`: the counts, as a drift.  `Surplus(o)` is the count of a block less its
  owners.  A step of a program without aliasing never lowers a surplus, and one of a program
  that drops nothing never raises one (`Drift`, one lemma per family of statements), so
  `CountsCover`, `CountsCovered` and, from both, `NoLeakAtExit` follow by induction from
  a surplus of zero.
- `SafeInv`: the memory.  The parameter of a frame is borrowed and counted by nobody in
  that frame; what keeps its block alive is that a frame below owns it, that the caller
  releases it after the call, or that it leaks (`Backed`, `ParamSafe`).  This is why
  `MemorySafe` needs the programs without aliasing, and the step where the owner is
  overwritten during the call is the one that `global_arg` excludes.

### MutexProofs and ThreadHandlesProofs

Assumed: `NoThread`, `NoMutex` and `NoHandle` are none of the things they stand beside;
results are integers.

The count of a mutex follows its owner only if what a thread loaded is still the count
when it stores (`LoadedIsCurrent`), and that needs the two updates guarded by the lock and
no destroy while a call is on the mutex (`LiveInUse`).

`TInv` ties a handle to its thread (`HandleFollowsThread`), gives the handle of a joined
thread to one caller (`OneReader`: a second one can join only if it was waiting, which is
misuse), and counts waits (`WaitsAreUses`: a wait under way is a use, so that the second wait
is known to be one before it does any damage).

### UsingCounterProofs

Assumed: main starts one worker or more, each once, and main, the mutex and the absent
values are different things.

`UInv` has four parts, each proved from those in front of it.  `ThreadsInv` says how far a
worker can be from where main's loops are (`Follows`): it runs from its `run` until its
`get` has joined it, so no worker is alive when main destroys the mutex.  `MutexInv` says
that a worker from its lock to its unlock is the owner of the mutex (`Inside`), whence
mutual exclusion.  `HeldOnlyInside` is the converse, for programs whose bodies come to
their end: the owner is such a worker, so no thread waits for one that will not unlock.
It is the part of `Terminates` that needs no fairness; that the unlock is reached is
checked by TLC.  `LoopInv` says that what a worker has loaded is the counter until it
stores it, and only with that is the load and the store together the one step of
`AtomicCounter`.  A worker that has left its body by a jump stays the owner of the mutex
for ever: the invariants hold there too, and `AtomicCounter` then lets workers stop early
(`mayStop`).

### ScopesProofs

Assumed: `Programs` are sets of forms and contain the program that uses none; the bounds
are numbers.

Codegen's table keeps the names of closed blocks, and the parameters of functions that have
ended, and is searched from its end; the checker's chain forgets them.  That both find
the same (`SameVariable`) is not inductive; `SInv` adds what is in the table behind the
checker's back: every entry describes a declaration of its name, the outermost scope has
the globals only, the locals of the function are the last declarations in the order of
the table (`LocalsAreLast`, from which `ReleasesOwn`), `using_depth` counts the open usings,
and, for programs that declare no name twice where it is visible, that a name is in one
scope (`OneScope`) and what codegen finds for each: the local that is visible
(`LocalsFound`), and otherwise the global or, after the form `param`, a parameter that
was left in the table (`GlobalsFound`, `MayBe`).  `GlobalsFound` has two halves because
closing a function uncovers the table in front of it.

### LexerProofs

Assumed: a text is a sequence of characters, none of which is the end of the text.

`WindowOK` says that the lexer reads on behind its last token, for the lexer and for the
parser's copy of it, and `LexerIsCursor` follows.  `TokensInv` adds that both tokens are ones
that next_token finds from a place whose line and column are right (`PlaceOK`).  What
next_token finds is proved from the scanner's recursive functions.  Each is the fixed
point of a step that looks only at later places, and at none behind the end of the text;
`LaterPlaces` gives the fixed point and `Backwards` the induction, both from the library's
theorem that the natural numbers are well founded.  Then, per branch of next_token, a
lemma that where it ends a token ends and behind it none does (`WordLongest`,
`NumberLongest`, `StringLongest`, `FStringLongest`, `OperatorLongest`).  The longest part is that
`StringBody`, which resolves an escape and goes on two places further, and `Escaped`, which
counts the backslashes in front of a quote, agree (`EscapedFromPair`, `StringBodyIs`).

### LinkageProofs

Assumed: a program is a sequence of imports and functions of the forms of `IsProgram`; no
name has a dot.

The sequences of `Linkage` are made by `Picked` and `FlattenSeq`.  `PickedIs` and `FlattenIs`
say which elements they have: each is the last of a row of partial results (`PickedSteps`,
`FlattenSteps`), and what is true of each of a row follows by `Forwards`, the induction.

- *Reading a source file* (`PlainSourcesAreRead`).  `ReadUpTo` ties the reader to the
  depth that the braces have in fact: behind a line the reader is in a body exactly when
  the line is in one, it is nowhere else when not, and it has found the functions that
  declare up to there.  `PlainLine` is the step, a case for each kind of line.  That a body
  has depth 1 for the reader whatever the line says is why `PlainStyle` asks for the brace.
- *Names* (`UsingCallsItsClass`).  A registered name has no dot, or one behind its module,
  or two behind module and class (`FunctionKeys`, `MethodKeys`), so a lookup of a method
  finds methods only (`LookupOfMethod`) and one of a function no method (`NoMethodThere`).
  The inductive invariant is `Reading`: at a declaration, `maps` has the names of the imports
  above it, all of them and no others.  That `resolve_class_name` takes the oldest of these
  names and `func_map_lookup` the newest does not matter if class names are apart: all
  candidates lead to methods with the same symbols.
- *What a call reaches* (`OnlyVisibleReached`).  A call finds a name that an import gave
  (`LookedUp`), or a function of the module.  `DeclaredFrom` is the inductive invariant for
  the second: such a function is one of the program's above, or an import's symbol that an
  earlier call or using declared.  The latter is where `OnlyVisible` alone is not
  inductive, and it is what the hypothesis `SymbolsApart` is about: `NothingReserved` (no
  name in a source or header has the prefix of mangled names) and, for each call (`Apart`),
  that a function whose mangled name begins with the call's name, or whose C symbol is that
  name, is one of that name.
- *Types* (`TypesArePassed`).  `TypesFrom` is the inductive invariant (`TypesFromIs`): what
  the compiler takes for the type of a function has the parameters of one with that symbol,
  though a later import of a symbol replaces the type that an earlier one gave.  A call of a
  function found by its plain name was validated, or chosen as one that its arguments fit
  (`PassedFits`).  One found by its mangled name has the letters that the call guessed: these
  split into types in one way only and decide the machine type (`LettersDecide`,
  `LettersFit`, `GuessDecides`).  So what is passed has the types of the parameters that the
  name was made of, and `SignaturesApart` makes these the parameters of the symbol.  The
  hypothesis `TypesApart` is what the code does not see to: two declarations of one C symbol
  with other parameters, a function of a source file with the object name of one of the
  program, a class named like a type (`SignaturesApart`), and, for calls that pass pointers,
  parameters whose type has two letters, which may be read as those of two parameters
  (`ClearLetters`).

### Only model-checked

- Liveness (`Released`, `GetReturns`, `Terminates`) and the liveness of
  `ArcOwnership`: fairness is stated with ENABLED, which the prover does not have.
- `ControlFlow`, `Parser` and `Expressions` (`SameBehaviour`, `WellFormed`, `RoundTrip`,
  `SemicolonsOptional`, `NothingLost`, `CodeFits`, `SameValue`): they are made of RECURSIVE
  operators, as their code is, which the provers cannot expand.
- `Linkage`: `ReachesExact`.  It depends on which names with letters can coincide, which the
  run enumerates, and needs of the type checker's table what a fold with an operator as its
  argument computes.

## 6. Not modelled, and why

- Class instances, arrays and tuples under ARC.  Handles of imported classes are plain
  `i64` and are never released; fields of a class are not released with it.
- Blocks inside `if` and loops under ARC, except the redeclaration in a do-while: a
  string declared in a block stays in the variable table to the end of the function, so
  the epilogue loads it on paths that did not declare it, and LLVM's verifier reports
  that; the model has straight-line bodies.
- A `return` that stands directly in the body of a `using`, not in an `if`: the call of
  exit is emitted after a terminator.
- The peephole pass of `codegen_arc_optimize`: it looks for a retain followed directly by
  a release of the same value, and codegen emits a retain only before a `ret`.
- Programs that `codegen_stmt` does not treat as their text suggests, which `Sound`
  excludes: a break, continue or goto in a list that was left before (it adds a second
  terminator); a label inside a statement that stands after a jump (`stmt.c:896`: the
  statement is skipped and the goto's block stays empty); a jump out of a `using` (no call
  of exit, `stmt.c:821`, so a mutex stays locked); the same label in two functions
  (`ctx.c:243`: the second one's goto leads into the first, and
  `WellFormed` is false of the two).
- Misuse that the properties exclude by name: `join` and then `get` of one handle
  (`threads.c:48` joins twice), `++` of a shared variable outside a `using`
  (`typecheck.c:691` does not ask).
- Stack use: the variables of a for
  loop are allocas at the place of the loop (`stmt.c:557`), so that an inner for takes
  stack each round.
- Enum values (`typecheck.c:1540` numbers them without regard to explicit values), classes
  and their inheritance, generics, `sizeof`, `alloc` and `free`, and the word with the
  length in front of an array (`expr.c:1642`: a release would take it for the count).
- The member of a tuple or a number by a name (`codegen_member` falls back on a hash of it).
- In the lexer, literals of more than 4095 characters and the table of token names.  In
  the parser, the warnings about names, `resolve_module_path`, and the static buffer in
  which the name of a nested generic type is built (`parser.c:334`: `TypeName` calls the
  result garbled).  Casts `(type)expr`: README.md:228 lists them and the parser has none.
- In the names, arguments that are variables of a typedef or a class, and function
  pointers (README.md:220 says their letter is `i`, the code has `2`).  That
  `validate_call_args` evaluates the arguments once more is in `Emission`; the arguments of
  `Linkage` do nothing.
- In the headers, an import by the path of a header (`import.c:131` registers it under
  the name `ph`) and a method with an explicit `long self` (`parser.c:1235` counts it twice, so that the
  enter and exit of `files.ph` are declared with two parameters and `codegen_using` passes
  one).
- `backend.c` (a module that fails verification is reported and emitted all the same,
  `backend.c:93`), debug information, `error.c`, `main.c`: fixed sequences of calls of LLVM
  and cc.  `files.c` is left to the plan; `console.c` prints and converts
  (`console.c:86` negates the smallest long); `unistd.h` is a header of libc.
- `arc_refcount` (read-only) and the copy made by `arc_wrap_string`.
- LLVM, pthreads and libc, except as the external steps named above; byte contents of
  strings and files; formatting.
- The components listed as not modelled in `PROJECT.json`, which the plan takes up.
