------------------------------- MODULE Scopes -------------------------------
(***************************************************************************)
(* The two passes that resolve names, over one program: the type checker   *)
(* (frontend/typecheck.c), which keeps a chain of scopes, and codegen      *)
(* (codegen/ctx.c, decl.c, stmt.c), which keeps one table that it searches *)
(* from the end.  Each action is a piece of the program text, with what    *)
(* both passes do for it; the program is any sequence of such pieces.      *)
(*                                                                         *)
(* The type checker has met every global when it comes to the first        *)
(* function; codegen meets a global where it stands.  `ahead` is how many  *)
(* it has met.                                                             *)
(*                                                                         *)
(* A declaration is known by its number, its place in `decls`.  `kinds`    *)
(* says which of these forms the program has used so far:                  *)
(*   redeclare    a name twice in a scope                                  *)
(*   shadow       a visible name declared again in an inner scope          *)
(*   param        a parameter with the name of a global                    *)
(*   self_init    a declaration whose initialiser has the same name        *)
(*   forward      a global used in front of its declaration                *)
(*   increment    x++ and x--                                              *)
(***************************************************************************)
EXTENDS Naturals, FiniteSets, SequencesExt

CONSTANTS
  Names,
  Programs,      \* the sets of forms that programs use
  MaxGlobals,    \* bound on the globals of a program
  MaxDecls,      \* bound on the declarations of a program
  MaxFunctions,  \* bound on its functions
  MaxDepth       \* bound on the blocks open at once in a function

Forms == {"redeclare", "shadow", "param", "self_init", "forward", "increment"}
Qualifiers == {"const", "mut", "shared"}  \* shared is shared mut

ASSUME ProgramsAssumption == Programs \subseteq SUBSET Forms /\ {} \in Programs
ASSUME BoundsAssumption == {MaxGlobals, MaxDecls, MaxFunctions, MaxDepth} \subseteq Nat

VARIABLES
  kinds,
  decls,        \* the declarations: name, qualifier, function, is it a parameter?
  ahead,        \* number of globals that codegen has met
  fn,           \* the function both passes are in (0: none), and how many there were
  functions,
  open,         \* the blocks that are open in the function
  scopes,       \* current_scope and its parents, outermost first
  using_depth,
  vars,         \* vars[0 .. var_count-1]
  scope_base,
  access,       \* the last access to a variable: what each pass took the name for
  status        \* "walking", "rejected" by the type checker, "stopped" in codegen

svars == <<kinds, decls, ahead, fn, functions, open, scopes, using_depth, vars,
           scope_base, access, status>>

Decl(n, q, f, param) == [name |-> n, qualifier |-> q, fn |-> f, param |-> param]
Entry(n, d) == [name |-> n, decl |-> d]
Access(op, tc, cg) == [op |-> op, tc |-> tc, cg |-> cg]
NoAccess == Access("none", 0, 0)

Globals == {d \in DOMAIN decls : decls[d].fn = 0}

\* The last entry of that name in a table, 0 if there is none.
LastOf(table, n) ==
  LET at == {i \in DOMAIN table : table[i].name = n}
  IN  IF at = {} THEN 0 ELSE table[Max(at)].decl

-----------------------------------------------------------------------------
\* scope_add_var: a name that the scope has already is left as it is.
AddVar(scope, n, d) ==
  IF LastOf(scope, n) = 0 THEN Append(scope, Entry(n, d)) ELSE scope

\* Mutant: the outermost scope comes first.
OutermostFirst(n) ==
  LET has == {s \in DOMAIN scopes : LastOf(scopes[s], n) # 0}
  IN  IF has = {} THEN 0 ELSE LastOf(scopes[Min(has)], n)

\* scope_lookup_var: from the innermost scope outwards.
ScopeLookup(n) ==
  LET has == {s \in DOMAIN scopes : LastOf(scopes[s], n) # 0}
  IN  IF has = {} THEN 0 ELSE LastOf(scopes[Max(has)], n)

ScopePush(scope) == scopes' = Append(scopes, scope)
ScopePop == scopes' = Front(scopes)

\* var_push and var_lookup.
VarPush(n, d) == vars' = Append(vars, Entry(n, d))
VarLookup(n) == LastOf(vars, n)

\* The program uses these forms, besides what it has used.
Using(forms) == kinds' = kinds \cup forms /\ kinds' \in Programs

Init ==
  /\ kinds = {} /\ decls = <<>> /\ scopes = << <<>> >>
  /\ ahead = 0 /\ fn = 0 /\ functions = 0 /\ open = <<>>
  /\ using_depth = 0 /\ vars = <<>> /\ scope_base = 0
  /\ access = NoAccess /\ status = "walking"

Walking == status = "walking"
InBody == Walking /\ fn # 0
NextDecl == Len(decls) + 1
CanDeclare == Len(decls) < MaxDecls

-----------------------------------------------------------------------------
\* A global declaration, as the type checker meets it: before any function, and before
\* codegen has begun.
MeetGlobal(n, q) ==
  /\ Walking /\ functions = 0 /\ ahead = 0 /\ Len(decls) < MaxGlobals
  /\ Using(IF LastOf(scopes[1], n) = 0 THEN {} ELSE {"redeclare"})
  /\ decls' = Append(decls, Decl(n, q, 0, FALSE))
  /\ scopes' = [scopes EXCEPT ![1] = AddVar(@, n, NextDecl)]
  /\ UNCHANGED <<ahead, fn, functions, open, using_depth, vars, scope_base, access, status>>

\* A global declaration, as codegen meets it.
Global ==
  /\ Walking /\ fn = 0 /\ ahead < Cardinality(Globals)
  /\ ahead' = ahead + 1
  /\ VarPush(decls[ahead'].name, ahead')
  /\ UNCHANGED <<kinds, decls, fn, functions, open, scopes, using_depth, scope_base,
                 access, status>>

\* Mutant: scope_base is taken before the parameters.
BeginBelowParameters(params) ==
  /\ Walking /\ fn = 0 /\ functions < MaxFunctions
  /\ Len(decls) + Len(params) <= MaxDecls
  /\ Using(IF \E n \in ToSet(params) : ScopeLookup(n) # 0 THEN {"param"} ELSE {})
  /\ fn' = functions + 1 /\ functions' = functions + 1
  /\ decls' = decls \o [i \in DOMAIN params |-> Decl(params[i], "mut", fn', TRUE)]
  /\ LET entries == [i \in DOMAIN params |-> Entry(params[i], Len(decls) + i)]
     IN  ScopePush(entries) /\ vars' = vars \o entries
  /\ scope_base' = Len(vars)
  /\ UNCHANGED <<ahead, open, using_depth, access, status>>

\* The head of a function: the parameters, with different names, in a scope of their
\* own and in the table, below scope_base.
BeginFunction(params) ==
  /\ Walking /\ fn = 0 /\ functions < MaxFunctions
  /\ Len(decls) + Len(params) <= MaxDecls
  /\ Using(IF \E n \in ToSet(params) : ScopeLookup(n) # 0 THEN {"param"} ELSE {})
  /\ fn' = functions + 1 /\ functions' = functions + 1
  /\ decls' = decls \o [i \in DOMAIN params |-> Decl(params[i], "mut", fn', TRUE)]
  /\ LET entries == [i \in DOMAIN params |-> Entry(params[i], Len(decls) + i)]
     IN  ScopePush(entries) /\ vars' = vars \o entries
  /\ scope_base' = Len(vars')
  /\ UNCHANGED <<ahead, open, using_depth, access, status>>

\* The end of a function: its scope is popped, and var_count is what it was in front
\* of the body.
EndFunction ==
  /\ InBody /\ open = <<>>
  /\ fn' = 0
  /\ ScopePop
  /\ vars' = SubSeq(vars, 1, scope_base)
  /\ access' = NoAccess
  /\ UNCHANGED <<kinds, decls, ahead, functions, open, using_depth, scope_base, status>>

-----------------------------------------------------------------------------
\* What a declaration of n in the current scope uses.
FormOf(n) ==
  IF LastOf(Last(scopes), n) # 0 THEN {"redeclare"}
  ELSE IF ScopeLookup(n) # 0 /\ Len(scopes) > 2 THEN {"shadow"}
  ELSE {}

\* A local declaration without an initialiser, or with one that names no variable of
\* the same name: added to the scope, and to the table.
Declare(n, q) ==
  /\ InBody /\ CanDeclare /\ Using(FormOf(n))
  /\ decls' = Append(decls, Decl(n, q, fn, FALSE))
  /\ scopes' = [scopes EXCEPT ![Len(scopes)] = AddVar(@, n, NextDecl)]
  /\ VarPush(n, NextDecl)
  /\ access' = NoAccess
  /\ UNCHANGED <<ahead, fn, functions, open, using_depth, scope_base, status>>

\* int x = x: the type checker reads the initialiser before it adds the name, codegen
\* after.
DeclareFromItself(n, q) ==
  /\ InBody /\ CanDeclare /\ Using({"self_init"} \cup FormOf(n))
  /\ IF ScopeLookup(n) = 0
       THEN status' = "rejected" /\ UNCHANGED <<decls, scopes, vars, access>>
       ELSE /\ decls' = Append(decls, Decl(n, q, fn, FALSE))
            /\ scopes' = [scopes EXCEPT ![Len(scopes)] = AddVar(@, n, NextDecl)]
            /\ VarPush(n, NextDecl)
            /\ access' = Access("read", ScopeLookup(n), NextDecl)
            /\ UNCHANGED status
  /\ UNCHANGED <<ahead, fn, functions, open, using_depth, scope_base>>

\* The head of a block that has a scope for the type checker: if, else, the loops, the
\* cases.  A bare block and unsafe have none for either pass.
OpenBlock ==
  /\ InBody /\ Len(open) < MaxDepth
  /\ open' = Append(open, "block")
  /\ ScopePush(<<>>)
  /\ access' = NoAccess
  /\ UNCHANGED <<kinds, decls, ahead, fn, functions, using_depth, vars, scope_base, status>>

\* The head of a for, or of a using with a variable: the variable is in the new scope.
OpenWithVariable(block, n) ==
  /\ InBody /\ Len(open) < MaxDepth /\ CanDeclare
  /\ Using(IF ScopeLookup(n) = 0 THEN {} ELSE {"shadow"})
  /\ open' = Append(open, block)
  /\ using_depth' = using_depth + (IF block = "using" THEN 1 ELSE 0)
  /\ decls' = Append(decls, Decl(n, "mut", fn, FALSE))
  /\ ScopePush(<<Entry(n, NextDecl)>>)
  /\ VarPush(n, NextDecl)
  /\ access' = NoAccess
  /\ UNCHANGED <<ahead, fn, functions, scope_base, status>>

OpenUsing ==
  /\ InBody /\ Len(open) < MaxDepth
  /\ open' = Append(open, "using")
  /\ using_depth' = using_depth + 1
  /\ ScopePush(<<>>)
  /\ access' = NoAccess
  /\ UNCHANGED <<kinds, decls, ahead, fn, functions, vars, scope_base, status>>

\* Mutant: using_depth is not taken back.
CloseCountingUsing ==
  /\ InBody /\ open # <<>>
  /\ open' = Front(open)
  /\ ScopePop
  /\ access' = NoAccess
  /\ UNCHANGED <<kinds, decls, ahead, fn, functions, using_depth, vars, scope_base, status>>

\* The end of a block: codegen's table stays as it is.
CloseBlock ==
  /\ InBody /\ open # <<>>
  /\ open' = Front(open)
  /\ using_depth' = using_depth - (IF Last(open) = "using" THEN 1 ELSE 0)
  /\ ScopePop
  /\ access' = NoAccess
  /\ UNCHANGED <<kinds, decls, ahead, fn, functions, vars, scope_base, status>>

-----------------------------------------------------------------------------
\* Is an access to what the scopes have for n accepted?  Only assignments are checked
\* for mut and shared.
Accepted(n, op) ==
  LET d == ScopeLookup(n)
  IN  /\ d # 0
      /\ op = "assign" =>
           /\ decls[d].qualifier # "const"
           /\ decls[d].qualifier = "shared" => using_depth > 0

\* A name in an expression, an assignment to it, or ++ and --.
Touch(n, op) ==
  /\ InBody
  /\ Using(({"increment"} \cap {op}) \cup
           (IF ScopeLookup(n) \in Globals /\ ScopeLookup(n) > ahead THEN {"forward"} ELSE {}))
  /\ status' = IF ~Accepted(n, op) THEN "rejected"
                ELSE IF VarLookup(n) = 0 THEN "stopped"
                ELSE "walking"
  /\ access' = IF Accepted(n, op) THEN Access(op, ScopeLookup(n), VarLookup(n)) ELSE NoAccess
  /\ UNCHANGED <<decls, ahead, fn, functions, open, scopes, using_depth, vars, scope_base>>

Next ==
  \/ \E n \in Names, q \in Qualifiers : MeetGlobal(n, q)
  \/ Global
  \/ \E params \in {<<>>} \cup {<<n>> : n \in Names} : BeginFunction(params)
  \/ EndFunction
  \/ \E n \in Names, q \in Qualifiers : Declare(n, q) \/ DeclareFromItself(n, q)
  \/ OpenBlock \/ OpenUsing \/ CloseBlock
  \/ \E n \in Names, block \in {"block", "using"} : OpenWithVariable(block, n)
  \/ \E n \in Names, op \in {"read", "assign", "increment"} : Touch(n, op)

Spec == Init /\ [][Next]_svars

-----------------------------------------------------------------------------
\* Both passes take a name for the same variable, in programs that declare no name that
\* is visible in an inner scope, twice in a scope, as a parameter or from itself, and
\* use no global in front of its declaration.  Names may be used again in blocks side
\* by side and in other functions, and locals of a function's outermost scope may hide
\* globals (src/frontend/typecheck.c:233-246, src/codegen/ctx.c:154-160).
SameVariable ==
  kinds \subseteq {"increment"} /\ access.op # "none" => access.cg = access.tc

Stored == access.op \in {"assign", "increment"} /\ access.cg # 0
InUsing == \E i \in DOMAIN open : open[i] = "using"

\* A store that is accepted is to a mutable variable, and to a shared one only inside a
\* using, in programs that resolve names alike and have no ++ (src/frontend/typecheck.c:
\* 747-776).
WritesAllowed ==
  kinds \subseteq {"param", "forward", "self_init"} /\ Stored =>
    LET q == decls[access.cg].qualifier
    IN  q # "const" /\ (q = "shared" => InUsing)

\* From scope_base on the table has the locals of the function, each once, and no
\* parameter: what the releases at a return walk over (src/codegen/stmt.c:12-14,
\* decl.c:131-141).
ReleasesOwn ==
  fn # 0 =>
    LET locals == {d \in DOMAIN decls : decls[d].fn = fn /\ ~decls[d].param}
        above  == SubSeq(vars, scope_base + 1, Len(vars))
    IN  /\ \A i \in DOMAIN above : above[i].decl \in locals
        /\ Len(above) = Cardinality(locals)
=============================================================================
