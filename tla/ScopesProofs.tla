---------------------------- MODULE ScopesProofs ----------------------------
(***************************************************************************)
(* Theorems about Scopes: what the type checker and codegen take names     *)
(* for, in programs of any size.  The invariant relates the chain of       *)
(* scopes to codegen's table, which keeps the names of closed blocks and   *)
(* the parameters of finished functions.                                   *)
(***************************************************************************)
EXTENDS Scopes, FiniteSetTheorems, SequenceTheorems, WellFoundedInduction, TLAPS

\* The records of the two tables.
Declarations == [name : Names, qualifier : Qualifiers, fn : Nat, param : BOOLEAN]
Entries == [name : Names, decl : Nat \ {0}]

STypeOK ==
  /\ decls \in Seq(Declarations)
  /\ ahead \in Nat /\ fn \in Nat /\ functions \in Nat /\ scope_base \in Nat
  /\ open \in Seq({"block", "using"}) /\ using_depth \in Nat
  /\ vars \in Seq(Entries) /\ scopes \in Seq(Seq(Entries))
  /\ access.op \in {"none", "read", "assign", "increment"} /\ access.cg \in Nat

\* An entry is for a declaration of that name.
Describes(entry) ==
  entry.decl \in DOMAIN decls /\ decls[entry.decl].name = entry.name

\* Every entry of both tables describes a declaration, parameters are mutable, and the
\* outermost scope has the globals and nothing else.
EntriesDescribe ==
  /\ \A i \in DOMAIN vars : Describes(vars[i])
  /\ \A s \in DOMAIN scopes : \A i \in DOMAIN scopes[s] :
       /\ Describes(scopes[s][i])
       /\ s = 1 <=> decls[scopes[s][i].decl].fn = 0
  /\ \A d \in DOMAIN decls : decls[d].param => decls[d].qualifier = "mut"
  /\ access.cg # 0 => access.cg \in DOMAIN decls

\* The functions are counted, globals come first, and codegen has met the first ones.
GlobalsFirst ==
  /\ fn <= functions
  /\ \A d \in DOMAIN decls : decls[d].fn <= functions
  /\ \A d, e \in DOMAIN decls : d < e /\ decls[e].fn = 0 => decls[d].fn = 0
  /\ \A d \in 1..ahead : d \in DOMAIN decls /\ decls[d].fn = 0

\* Codegen's table is empty until it meets a declaration.
NothingYet == functions = 0 /\ ahead = 0 => vars = <<>>

\* A scope for the globals, one for the function and one for each open block; the
\* depth is the number of usings among them.
ScopesMatchBlocks ==
  /\ fn = 0 => open = <<>>
  /\ Len(scopes) = IF fn = 0 THEN 1 ELSE 2 + Len(open)
  /\ using_depth = Cardinality({i \in DOMAIN open : open[i] = "using"})

\* The locals of the function are the last declarations, in the order of the table.
LocalsAreLast ==
  fn # 0 =>
    /\ scope_base <= Len(vars) /\ Len(vars) - scope_base <= Len(decls)
    /\ \A i \in 1..(Len(vars) - scope_base) :
         vars[scope_base + i].decl = Len(decls) - (Len(vars) - scope_base) + i
    /\ \A d \in DOMAIN decls :
         d > Len(decls) - (Len(vars) - scope_base) <=> decls[d].fn = fn /\ ~decls[d].param

\* Programs that declare no name twice in a scope, or where it is visible in a block.
Plain == {"redeclare", "shadow"} \cap kinds = {}

\* Codegen's table in front of the body of the function.
Outside == IF fn = 0 THEN vars ELSE SubSeq(vars, 1, scope_base)

\* What codegen may take a name for that the type checker takes for the global g.
MayBe(g, d) ==
  \/ d = IF g <= ahead THEN g ELSE 0
  \/ "param" \in kinds /\ d \in DOMAIN decls /\ decls[d].param

\* In these programs a name is in one scope, besides a local of the function that has
\* the name of a global.
OneScope ==
  \A n \in Names : \A s, t \in DOMAIN scopes :
    s < t /\ t > 2 => LastOf(scopes[s], n) = 0 \/ LastOf(scopes[t], n) = 0

\* Globals are found by their names,
GlobalsByName == \A d \in Globals : LastOf(scopes[1], decls[d].name) = d

\* codegen finds the locals that are visible,
LocalsFound ==
  \A n \in Names : \A s \in DOMAIN scopes :
    s > 1 /\ LastOf(scopes[s], n) # 0 => VarLookup(n) = LastOf(scopes[s], n)

\* and what it may find for a global: at the end of the function, and now if no scope of
\* the function has the name.
GlobalsFound ==
  \A n \in Names : LastOf(scopes[1], n) # 0 =>
    /\ MayBe(LastOf(scopes[1], n), LastOf(Outside, n))
    /\ (\A s \in DOMAIN scopes : s > 1 => LastOf(scopes[s], n) = 0) =>
         MayBe(LastOf(scopes[1], n), VarLookup(n))

NamesResolve == Plain => OneScope /\ GlobalsByName /\ LocalsFound /\ GlobalsFound

SInv == /\ STypeOK /\ EntriesDescribe /\ GlobalsFirst /\ NothingYet
        /\ ScopesMatchBlocks /\ LocalsAreLast /\ NamesResolve /\ SameVariable /\ WritesAllowed
-----------------------------------------------------------------------------
\* A set of natural numbers has a least element.
LEMMA LeastIn ==
  ASSUME NEW T \in SUBSET Nat, T # {}
  PROVE  \E m \in T : \A n \in T : m <= n
<1> DEFINE R == OpToRel(<, Nat)
<1>1. IsWellFoundedOn(R, Nat)
  BY NatLessThanWellFounded
<1>2. \A x, y \in Nat : x < y => <<x, y>> \in R
  BY DEF OpToRel
<1> HIDE DEF R
<1>3. PICK m \in T : \A n \in T : <<n, m>> \notin R
  BY <1>1, WFMin
<1>4. \A n \in T : ~(n < m)
  BY <1>2, <1>3
<1> QED BY <1>4

\* Max is the greatest element of a set of positions.
LEMMA MaxInBounded ==
  ASSUME NEW k \in Nat, NEW S \in SUBSET (1..k), S # {}
  PROVE  Max(S) \in S /\ \A x \in S : x <= Max(S)
<1> DEFINE T == {n \in Nat : \A x \in S : x <= n}
<1>1. k \in T
  OBVIOUS
<1>2. PICK m \in T : \A n \in T : m <= n
  BY <1>1, LeastIn
<1>3. m \in S
  <2>1. SUFFICES ASSUME m \notin S PROVE FALSE
    OBVIOUS
  <2>2. \A x \in S : x <= m - 1
    BY <1>2, <2>1
  <2>3. m - 1 \in Nat
    <3>1. PICK x \in S : TRUE
      OBVIOUS
    <3>2. x \in 1..k /\ x <= m - 1
      BY <2>2, <3>1
    <3> QED BY <3>2, <1>2
  <2>4. m - 1 \in T
    BY <2>2, <2>3
  <2> QED BY <2>4, <1>2
<1>4. \A x \in S : m >= x
  BY <1>2
<1>5. Max(S) \in S /\ \A x \in S : Max(S) >= x
  BY <1>3, <1>4 DEF Max
<1> QED BY <1>5

-----------------------------------------------------------------------------
\* What LastOf finds: 0 if no entry has the name, otherwise the declaration of the
\* last entry that has it.
LEMMA LastOfFinds ==
  ASSUME NEW t \in Seq(Entries), NEW n
  PROVE  /\ LastOf(t, n) \in Nat
         /\ LastOf(t, n) = 0 => \A i \in DOMAIN t : t[i].name # n
         /\ LastOf(t, n) # 0 => \E i \in DOMAIN t :
              /\ t[i].name = n /\ t[i].decl = LastOf(t, n)
              /\ \A j \in DOMAIN t : t[j].name = n => j <= i
<1> DEFINE at == {i \in DOMAIN t : t[i].name = n}
<1>1. Len(t) \in Nat /\ at \in SUBSET (1..Len(t))
  OBVIOUS
<1>2. \A i \in DOMAIN t : t[i].decl \in Nat \ {0}
  <2>1. \A i \in DOMAIN t : t[i] \in Entries
    OBVIOUS
  <2> QED BY <2>1 DEF Entries
<1>3. CASE at = {}
  BY <1>3 DEF LastOf
<1>4. CASE at # {}
  <2>1. Max(at) \in at /\ \A x \in at : x <= Max(at)
    BY <1>1, <1>4, MaxInBounded
  <2>2. LastOf(t, n) = t[Max(at)].decl
    BY <1>4 DEF LastOf
  <2> QED BY <2>1, <2>2, <1>2
<1> QED BY <1>3, <1>4

\* LastOf is the declaration of the last entry that has the name.
LEMMA LastOfIs ==
  ASSUME NEW t \in Seq(Entries), NEW n, NEW i \in DOMAIN t, t[i].name = n,
         \A j \in DOMAIN t : t[j].name = n => j <= i
  PROVE  LastOf(t, n) = t[i].decl
<1> DEFINE at == {j \in DOMAIN t : t[j].name = n}
<1>1. Len(t) \in Nat /\ at \in SUBSET (1..Len(t)) /\ i \in at
  OBVIOUS
<1>2. Max(at) \in at /\ \A x \in at : x <= Max(at)
  BY <1>1, MaxInBounded
<1>3. Max(at) \in 1..Len(t) /\ i \in 1..Len(t)
  BY <1>1, <1>2
<1>4. Max(at) = i
  <2>1. Max(at) <= i
    BY <1>2
  <2>2. i <= Max(at)
    BY <1>1, <1>2
  <2> DEFINE k == Max(at)
  <2>3. k \in Int /\ i \in Int
    BY <1>3
  <2> HIDE DEF k
  <2> QED BY <2>1, <2>2, <2>3 DEF k
<1>5. LastOf(t, n) = t[Max(at)].decl
  BY <1>1 DEF LastOf
<1> QED BY <1>4, <1>5

\* An empty table has no name.
LEMMA LastOfEmpty == \A n : LastOf(<<>>, n) = 0
  BY DEF LastOf

\* An entry at the end of a table hides those of its name, and no other.
LEMMA LastOfAppend ==
  ASSUME NEW t \in Seq(Entries), NEW m \in Names, NEW d \in Nat \ {0}, NEW n
  PROVE  /\ Entry(m, d) \in Entries
         /\ LastOf(Append(t, Entry(m, d)), n) = IF n = m THEN d ELSE LastOf(t, n)
<1> DEFINE u == Append(t, Entry(m, d))
<1>1. Entry(m, d) \in Entries
  BY DEF Entry, Entries
<1>2. /\ u \in Seq(Entries) /\ DOMAIN u = 1..(Len(t) + 1) /\ DOMAIN t = 1..Len(t)
      /\ Len(t) \in Nat
      /\ \A i \in DOMAIN t : u[i] = t[i]
      /\ u[Len(t) + 1] = Entry(m, d)
  BY <1>1
<1>3. Entry(m, d).name = m /\ Entry(m, d).decl = d
  BY DEF Entry
<1> HIDE DEF u
<1>4. CASE n = m
  <2>1. Len(t) + 1 \in DOMAIN u /\ u[Len(t) + 1].name = n
    BY <1>2, <1>3, <1>4
  <2>2. \A j \in DOMAIN u : u[j].name = n => j <= Len(t) + 1
    BY <1>2
  <2>3. LastOf(u, n) = u[Len(t) + 1].decl
    BY <1>2, <2>1, <2>2, LastOfIs
  <2> QED BY <1>1, <1>2, <1>3, <1>4, <2>3 DEF u
<1>5. CASE n # m
  <2>1. \A j \in DOMAIN u : u[j].name = n => j \in DOMAIN t
    BY <1>2, <1>3, <1>5
  <2>2. CASE LastOf(t, n) = 0
    <3>1. \A j \in DOMAIN t : t[j].name # n
      BY <2>2, LastOfFinds
    <3>2. \A j \in DOMAIN u : u[j].name # n
      BY <2>1, <3>1, <1>2
    <3>3. LastOf(u, n) = 0
      BY <3>2 DEF LastOf
    <3> QED BY <1>1, <1>5, <2>2, <3>3 DEF u
  <2>3. CASE LastOf(t, n) # 0
    <3>1. PICK i \in DOMAIN t : /\ t[i].name = n /\ t[i].decl = LastOf(t, n)
                                /\ \A j \in DOMAIN t : t[j].name = n => j <= i
      BY <2>3, LastOfFinds
    <3>2. i \in DOMAIN u /\ u[i] = t[i]
      BY <1>2, <3>1
    <3>3. \A j \in DOMAIN u : u[j].name = n => j <= i
      BY <2>1, <3>1, <1>2
    <3>4. LastOf(u, n) = t[i].decl
      BY <1>2, <3>1, <3>2, <3>3, LastOfIs
    <3> QED BY <1>1, <1>5, <3>1, <3>4 DEF u
  <2> QED BY <2>2, <2>3
<1> QED BY <1>4, <1>5

\* A name that an entry has is found.
LEMMA LastOfOne ==
  ASSUME NEW m \in Names, NEW d \in Nat \ {0}, NEW n
  PROVE  <<Entry(m, d)>> \in Seq(Entries) /\ LastOf(<<Entry(m, d)>>, n) = IF n = m THEN d ELSE 0
<1>1. Entry(m, d) \in Entries
  BY DEF Entry, Entries
<1> DEFINE none == <<>>
<1>2. none \in Seq(Entries) /\ <<Entry(m, d)>> = Append(none, Entry(m, d))
  OBVIOUS
<1>3. LastOf(none, n) = 0
  BY LastOfEmpty
<1> HIDE DEF none
<1>4. LastOf(Append(none, Entry(m, d)), n) = IF n = m THEN d ELSE 0
  BY <1>2, <1>3, LastOfAppend
<1>5. LastOf(<<Entry(m, d)>>, n) = LastOf(Append(none, Entry(m, d)), n)
  BY <1>2, Zenon
<1>6. <<Entry(m, d)>> \in Seq(Entries)
  BY <1>1
<1> QED BY <1>4, <1>5, <1>6, Zenon

\* What scope_add_var makes of a scope.
LEMMA AddVarFinds ==
  ASSUME NEW t \in Seq(Entries), NEW m \in Names, NEW d \in Nat \ {0}
  PROVE  /\ AddVar(t, m, d) \in Seq(Entries)
         /\ \A n : LastOf(AddVar(t, m, d), n)
                     = IF n = m /\ LastOf(t, m) = 0 THEN d ELSE LastOf(t, n)
         /\ \A i \in DOMAIN AddVar(t, m, d) :
              \/ i \in DOMAIN t /\ AddVar(t, m, d)[i] = t[i]
              \/ AddVar(t, m, d)[i] = Entry(m, d)
<1>1. CASE LastOf(t, m) = 0
  <2>1. AddVar(t, m, d) = Append(t, Entry(m, d))
    BY <1>1 DEF AddVar
  <2> QED BY <1>1, <2>1, LastOfAppend
<1>2. CASE LastOf(t, m) # 0
  <2>1. AddVar(t, m, d) = t
    BY <1>2 DEF AddVar
  <2> QED BY <1>2, <2>1
<1> QED BY <1>1, <1>2

\* ScopeLookup finds a name in the innermost scope that has it.
LEMMA ScopeLookupFinds ==
  ASSUME scopes \in Seq(Seq(Entries)), NEW n
  PROVE  \/ /\ ScopeLookup(n) = 0
            /\ \A s \in DOMAIN scopes : LastOf(scopes[s], n) = 0
         \/ \E s \in DOMAIN scopes :
              /\ LastOf(scopes[s], n) # 0 /\ ScopeLookup(n) = LastOf(scopes[s], n)
              /\ \A t \in DOMAIN scopes : t > s => LastOf(scopes[t], n) = 0
<1> DEFINE has == {s \in DOMAIN scopes : LastOf(scopes[s], n) # 0}
<1>1. CASE has = {}
  BY <1>1 DEF ScopeLookup
<1>2. CASE has # {}
  <2>1. Len(scopes) \in Nat /\ has \in SUBSET (1..Len(scopes))
    OBVIOUS
  <2>2. Max(has) \in has /\ \A x \in has : x <= Max(has)
    BY <1>2, <2>1, MaxInBounded
  <2>3. ScopeLookup(n) = LastOf(scopes[Max(has)], n)
    BY <1>2 DEF ScopeLookup
  <2> DEFINE k == Max(has)
  <2>4. k \in DOMAIN scopes /\ LastOf(scopes[k], n) # 0 /\ ScopeLookup(n) = LastOf(scopes[k], n)
    BY <2>2, <2>3
  <2>5. \A t \in DOMAIN scopes : t > k => LastOf(scopes[t], n) = 0
    <3>1. SUFFICES ASSUME NEW t \in DOMAIN scopes, t > k, t \in has PROVE FALSE
      OBVIOUS
    <3>2. t <= k
      BY <2>2, <3>1
    <3>3. t \in Int /\ k \in Int
      BY <2>4, <2>1
    <3> HIDE DEF k
    <3> QED BY <3>1, <3>2, <3>3
  <2> HIDE DEF k
  <2> QED BY <2>4, <2>5
<1> QED BY <1>1, <1>2

-----------------------------------------------------------------------------
\* The head of a function without a parameter, and with one.
BeginPlain ==
  /\ fn = 0 /\ kinds \subseteq kinds'
  /\ fn' = functions + 1 /\ functions' = functions + 1
  /\ decls' = decls /\ scopes' = Append(scopes, <<>>) /\ vars' = vars
  /\ scope_base' = Len(vars)
  /\ UNCHANGED <<ahead, open, using_depth, access>>

BeginWith(n) ==
  /\ fn = 0 /\ kinds \subseteq kinds'
  /\ ScopeLookup(n) # 0 => "param" \in kinds'
  /\ fn' = functions + 1 /\ functions' = functions + 1
  /\ decls' = Append(decls, Decl(n, "mut", functions + 1, TRUE))
  /\ scopes' = Append(scopes, <<Entry(n, NextDecl)>>)
  /\ vars' = Append(vars, Entry(n, NextDecl))
  /\ scope_base' = Len(vars) + 1
  /\ UNCHANGED <<ahead, open, using_depth, access>>

Heads == {<<>>} \cup {<<n>> : n \in Names}

\* A function begins without a parameter or with one.
LEMMA BeginForms ==
  ASSUME STypeOK, NEW params \in Heads, BeginFunction(params)
  PROVE  BeginPlain \/ \E n \in Names : BeginWith(n)
<1>1. CASE params = <<>>
  <2>1. [i \in DOMAIN params |-> Decl(params[i], "mut", fn', TRUE)] = <<>>
    BY <1>1
  <2>2. [i \in DOMAIN params |-> Entry(params[i], Len(decls) + i)] = <<>>
    BY <1>1
  <2>3. decls' = decls \o <<>> /\ scopes' = Append(scopes, <<>>) /\ vars' = vars \o <<>>
    BY <2>1, <2>2 DEF BeginFunction, ScopePush
  <2>4. decls' = decls /\ vars' = vars
    BY <2>3 DEF STypeOK
  <2>5. scope_base' = Len(vars)
    BY <2>4 DEF BeginFunction
  <2> QED BY <2>3, <2>4, <2>5 DEF BeginFunction, BeginPlain, Using
<1>2. ASSUME NEW n \in Names, params = <<n>> PROVE BeginWith(n)
  <2>1. DOMAIN params = {1} /\ params[1] = n
    BY <1>2
  <2> DEFINE d == Decl(n, "mut", fn', TRUE)
             e == Entry(n, NextDecl)
  <2>2. fn' = functions + 1
    BY DEF BeginFunction
  <2>3. [i \in DOMAIN params |-> Decl(params[i], "mut", fn', TRUE)] = <<d>>
    <3> DEFINE D(m) == Decl(m, "mut", fn', TRUE)
    <3>1. D(n) = d
      OBVIOUS
    <3> HIDE DEF D, d
    <3>2. [i \in DOMAIN params |-> D(params[i])] = <<D(n)>>
      BY <2>1
    <3> QED BY <3>1, <3>2 DEF D
  <2>4. [i \in DOMAIN params |-> Entry(params[i], Len(decls) + i)] = <<e>>
    BY <2>1 DEF NextDecl
  <2>5. decls' = decls \o <<d>> /\ scopes' = Append(scopes, <<e>>) /\ vars' = vars \o <<e>>
    BY <2>3, <2>4 DEF BeginFunction, ScopePush
  <2>6. ToSet(params) = {n}
    BY <2>1 DEF ToSet
  <2>7. ScopeLookup(n) # 0 => "param" \in kinds'
    BY <2>6 DEF BeginFunction, Using
  <2> HIDE DEF d, e
  <2>8. decls' = Append(decls, d) /\ vars' = Append(vars, e)
    BY <2>5 DEF STypeOK
  <2>9. scope_base' = Len(vars) + 1
    BY <2>8 DEF BeginFunction, STypeOK
  <2> QED BY <2>2, <2>5, <2>7, <2>8, <2>9 DEF BeginFunction, BeginWith, Using, d, e
<1> QED BY <1>1, <1>2 DEF Heads

\* A declaration in the current scope, with or without an initialiser.
DeclareHere(n, q) ==
  /\ fn # 0 /\ kinds \subseteq kinds' /\ FormOf(n) \subseteq kinds'
  /\ decls' = Append(decls, Decl(n, q, fn, FALSE))
  /\ scopes' = [scopes EXCEPT ![Len(scopes)] = AddVar(@, n, NextDecl)]
  /\ vars' = Append(vars, Entry(n, NextDecl))
  /\ \/ access' = NoAccess
     \/ /\ access' = Access("read", ScopeLookup(n), NextDecl)
        /\ "self_init" \in kinds'
  /\ UNCHANGED <<ahead, fn, functions, open, using_depth, scope_base>>

\* Nothing changes, but what the program has used: also the step of a program that is
\* rejected.
Stays ==
  /\ kinds \subseteq kinds'
  /\ UNCHANGED <<decls, ahead, fn, functions, open, scopes, using_depth, vars, scope_base,
                 access>>

\* A declaration is recorded by both passes, or ends the program.
LEMMA DeclareForms ==
  ASSUME NEW n \in Names, NEW q \in Qualifiers, Declare(n, q) \/ DeclareFromItself(n, q)
  PROVE  DeclareHere(n, q) \/ Stays
<1>1. CASE Declare(n, q)
  BY <1>1 DEF Declare, DeclareHere, Using, VarPush, InBody
<1>2. CASE DeclareFromItself(n, q) /\ ScopeLookup(n) = 0
  BY <1>2 DEF DeclareFromItself, Stays, Using
<1>3. CASE DeclareFromItself(n, q) /\ ScopeLookup(n) # 0
  BY <1>3 DEF DeclareFromItself, DeclareHere, Using, VarPush, InBody
<1> QED BY <1>1, <1>2, <1>3

\* The head of a block without a variable.
OpenPlain(block) ==
  /\ fn # 0 /\ kinds' = kinds
  /\ open' = Append(open, block)
  /\ using_depth' = using_depth + (IF block = "using" THEN 1 ELSE 0)
  /\ scopes' = Append(scopes, <<>>)
  /\ access' = NoAccess
  /\ UNCHANGED <<decls, ahead, fn, functions, vars, scope_base>>

\* A block without variable, whether of a using or not.
LEMMA OpenForms ==
  ASSUME STypeOK, OpenBlock \/ OpenUsing
  PROVE  \E block \in {"block", "using"} : OpenPlain(block)
<1>1. CASE OpenBlock
  <2>1. using_depth' = using_depth + 0
    BY <1>1 DEF OpenBlock, STypeOK
  <2> QED BY <1>1, <2>1 DEF OpenBlock, OpenPlain, InBody, ScopePush
<1>2. CASE OpenUsing
  BY <1>2 DEF OpenUsing, OpenPlain, InBody, ScopePush
<1> QED BY <1>1, <1>2

\* The steps, in these forms.
Forwards ==
  \/ \E n \in Names, q \in Qualifiers : MeetGlobal(n, q)
  \/ Global
  \/ BeginPlain
  \/ \E n \in Names : BeginWith(n)
  \/ EndFunction
  \/ \E n \in Names, q \in Qualifiers : DeclareHere(n, q)
  \/ \E block \in {"block", "using"} : OpenPlain(block)
  \/ \E n \in Names, block \in {"block", "using"} : OpenWithVariable(block, n)
  \/ CloseBlock
  \/ \E n \in Names, op \in {"read", "assign", "increment"} : Touch(n, op)
  \/ Stays

\* Every step is one of the forms of Forwards.
LEMMA StepForms ==
  STypeOK /\ [Next]_svars => Forwards
<1> SUFFICES ASSUME STypeOK, [Next]_svars PROVE Forwards
  OBVIOUS
<1>1. CASE UNCHANGED svars
  BY <1>1 DEF svars, Stays, Forwards
<1>2. ASSUME NEW params \in {<<>>} \cup {<<n>> : n \in Names}, BeginFunction(params)
      PROVE  Forwards
  BY <1>2, BeginForms DEF Heads, Forwards
<1>3. ASSUME NEW n \in Names, NEW q \in Qualifiers, Declare(n, q) \/ DeclareFromItself(n, q)
      PROVE  Forwards
  BY <1>3, DeclareForms DEF Forwards
<1>4. CASE OpenBlock \/ OpenUsing
  BY <1>4, OpenForms DEF Forwards
<1>5. CASE Next
  BY <1>2, <1>3, <1>4, <1>5 DEF Next, Forwards
<1> QED BY <1>1, <1>5

-----------------------------------------------------------------------------
\* The global that codegen meets next has been declared.
LEMMA NextGlobal ==
  ASSUME STypeOK, GlobalsFirst, Global
  PROVE  ahead + 1 \in DOMAIN decls /\ decls[ahead + 1].fn = 0
<1>1. /\ ahead \in Nat /\ Len(decls) \in Nat /\ DOMAIN decls = 1..Len(decls)
      /\ ahead < Cardinality(Globals)
  BY DEF STypeOK, Global
<1>2. ~(Globals \subseteq 1..ahead)
  <2>1. IsFiniteSet(1..ahead) /\ Cardinality(1..ahead) = ahead
    BY <1>1, FS_Interval
  <2>2. Globals \subseteq 1..ahead => Cardinality(Globals) <= ahead
    BY <2>1, FS_Subset
  <2>3. Globals \in SUBSET (1..Len(decls))
    BY <1>1 DEF Globals
  <2>4. Cardinality(Globals) \in Nat
    <3>1. IsFiniteSet(1..Len(decls))
      BY <1>1, FS_Interval
    <3> QED BY <2>3, <3>1, FS_Subset, FS_CardinalityType
  <2> QED BY <1>1, <2>2, <2>4
<1>3. PICK g \in DOMAIN decls : decls[g].fn = 0 /\ g > ahead
  BY <1>1, <1>2 DEF Globals
<1>4. g = ahead + 1 \/ ahead + 1 < g
  BY <1>1, <1>3
<1>5. ahead + 1 \in DOMAIN decls
  BY <1>1, <1>3
<1> QED BY <1>3, <1>4, <1>5 DEF GlobalsFirst

\* The blocks of a using among those that are open.
Usings(o) == {i \in DOMAIN o : o[i] = "using"}

\* The using statements around a place can be counted.
LEMMA UsingsFinite ==
  ASSUME NEW o \in Seq({"block", "using"})
  PROVE  IsFiniteSet(Usings(o)) /\ Cardinality(Usings(o)) \in Nat
<1>1. Usings(o) \subseteq 1..Len(o) /\ Len(o) \in Nat
  BY DEF Usings
<1>2. IsFiniteSet(Usings(o))
  <2>1. IsFiniteSet(1..Len(o))
    BY <1>1, FS_Interval
  <2> QED BY <1>1, <2>1, FS_Subset
<1> QED BY <1>2, FS_CardinalityType

\* A new block counts if it is a using.
LEMMA UsingsAppend ==
  ASSUME NEW o \in Seq({"block", "using"}), NEW b \in {"block", "using"}
  PROVE  Cardinality(Usings(Append(o, b)))
           = Cardinality(Usings(o)) + (IF b = "using" THEN 1 ELSE 0)
<1>1. IsFiniteSet(Usings(o)) /\ Cardinality(Usings(o)) \in Nat
  BY UsingsFinite
<1> DEFINE u == Append(o, b)
<1>2. /\ DOMAIN u = 1..(Len(o) + 1) /\ DOMAIN o = 1..Len(o) /\ Len(o) \in Nat
      /\ \A i \in DOMAIN o : u[i] = o[i]
      /\ u[Len(o) + 1] = b
  OBVIOUS
<1> HIDE DEF u
<1>3. CASE b = "using"
  <2>1. Usings(u) = Usings(o) \cup {Len(o) + 1} /\ Len(o) + 1 \notin Usings(o)
    BY <1>2, <1>3 DEF Usings
  <2>2. Cardinality(Usings(u)) = Cardinality(Usings(o)) + 1
    BY <2>1, <1>1, FS_AddElement
  <2> QED BY <1>3, <2>2 DEF u
<1>4. CASE b # "using"
  <2>1. Usings(u) = Usings(o)
    BY <1>2, <1>4 DEF Usings
  <2> QED BY <1>1, <1>4, <2>1 DEF u
<1> QED BY <1>3, <1>4

\* A block that ends no longer counts.
LEMMA UsingsFront ==
  ASSUME NEW o \in Seq({"block", "using"}), o # <<>>
  PROVE  /\ Front(o) \in Seq({"block", "using"}) /\ Len(Front(o)) = Len(o) - 1
         /\ Cardinality(Usings(Front(o)))
              = Cardinality(Usings(o)) - (IF Last(o) = "using" THEN 1 ELSE 0)
<1>1. Front(o) \in Seq({"block", "using"}) /\ Len(Front(o)) = Len(o) - 1 /\ Len(o) # 0
  <2>1. Len(o) \in Nat /\ Len(o) # 0
    OBVIOUS
  <2>2. /\ SubSeq(o, 1, Len(o) - 1) \in Seq({"block", "using"})
        /\ Len(SubSeq(o, 1, Len(o) - 1)) = Len(o) - 1
    BY <2>1
  <2> QED BY <2>1, <2>2 DEF Front
<1>2. Last(o) \in {"block", "using"} /\ o = Append(Front(o), Last(o))
  <2>1. Last(o) = o[Len(o)] /\ Len(o) \in DOMAIN o
    BY <1>1 DEF Last
  <2>2. DOMAIN Front(o) = 1..(Len(o) - 1) /\ \A i \in 1..(Len(o) - 1) : Front(o)[i] = o[i]
    BY <1>1 DEF Front
  <2> DEFINE f == Front(o)
             l == Last(o)
             a == Append(f, l)
  <2>3. f \in Seq({"block", "using"}) /\ l \in {"block", "using"}
    BY <1>1, <2>1
  <2> HIDE DEF f, l
  <2>4. a \in Seq({"block", "using"}) /\ Len(a) = Len(f) + 1 /\ a[Len(f) + 1] = l
        /\ \A i \in 1..Len(f) : a[i] = f[i]
    BY <2>3
  <2>5. Len(a) = Len(o) /\ \A i \in 1..Len(o) : a[i] = o[i]
    BY <2>4, <1>1, <2>1, <2>2 DEF f, l
  <2> HIDE DEF a
  <2>6. a = o
    BY <2>4, <2>5
  <2> QED BY <2>3, <2>6 DEF f, l, a
<1> DEFINE f == Front(o)
           l == Last(o)
<1>3. Cardinality(Usings(Append(f, l))) = Cardinality(Usings(f)) + (IF l = "using" THEN 1 ELSE 0)
  BY <1>1, <1>2, UsingsAppend
<1>4. Cardinality(Usings(f)) \in Nat
  BY <1>1, UsingsFinite
<1>5. o = Append(f, l)
  BY <1>2
<1> HIDE DEF f, l
<1>6. Cardinality(Usings(o)) = Cardinality(Usings(f)) + (IF l = "using" THEN 1 ELSE 0)
  BY <1>3, <1>5
<1>7. Cardinality(Usings(f)) = Cardinality(Usings(o)) - (IF l = "using" THEN 1 ELSE 0)
  BY <1>4, <1>6
<1> QED BY <1>1, <1>7 DEF f, l

-----------------------------------------------------------------------------
\* The fields of a declaration.
LEMMA DeclIs ==
  ASSUME NEW n \in Names, NEW q \in Qualifiers, NEW f \in Nat, NEW p \in BOOLEAN
  PROVE  /\ Decl(n, q, f, p) \in Declarations
         /\ Decl(n, q, f, p).name = n /\ Decl(n, q, f, p).qualifier = q
         /\ Decl(n, q, f, p).fn = f /\ Decl(n, q, f, p).param = p
  BY DEF Decl, Declarations

\* The declarations with one more.
LEMMA DeclsWith ==
  ASSUME STypeOK, NEW n \in Names, NEW q \in Qualifiers, NEW f \in Nat, NEW p \in BOOLEAN,
         decls' = Append(decls, Decl(n, q, f, p))
  PROVE  /\ decls' \in Seq(Declarations)
         /\ DOMAIN decls = 1..Len(decls) /\ Len(decls) \in Nat
         /\ Len(decls') = Len(decls) + 1 /\ DOMAIN decls' = 1..(Len(decls) + 1)
         /\ \A d \in DOMAIN decls : decls'[d] = decls[d]
         /\ decls'[NextDecl].name = n /\ decls'[NextDecl].qualifier = q
         /\ decls'[NextDecl].fn = f /\ decls'[NextDecl].param = p
<1> DEFINE d == Decl(n, q, f, p)
<1>1. /\ d \in Declarations
      /\ d.name = n /\ d.qualifier = q /\ d.fn = f /\ d.param = p
  BY DeclIs
<1>2. decls' = Append(decls, d) /\ decls \in Seq(Declarations) /\ NextDecl = Len(decls) + 1
  BY DEF STypeOK, NextDecl
<1> HIDE DEF d
<1>3. /\ decls' \in Seq(Declarations)
      /\ DOMAIN decls = 1..Len(decls) /\ Len(decls) \in Nat
      /\ Len(decls') = Len(decls) + 1 /\ DOMAIN decls' = 1..(Len(decls) + 1)
      /\ \A e \in DOMAIN decls : decls'[e] = decls[e]
      /\ decls'[Len(decls) + 1] = d
  BY <1>1, <1>2
<1>4. decls'[NextDecl] = d
  BY <1>2, <1>3
<1> QED BY <1>1, <1>3, <1>4

\* The fields of an entry.
LEMMA EntryIs ==
  ASSUME NEW n \in Names, NEW d \in Nat \ {0}
  PROVE  /\ Entry(n, d) \in Entries /\ Entry(n, d).name = n /\ Entry(n, d).decl = d
         /\ <<Entry(n, d)>> \in Seq(Entries)
<1>1. Entry(n, d) \in Entries /\ Entry(n, d).name = n /\ Entry(n, d).decl = d
  BY DEF Entry, Entries
<1> QED BY <1>1

\* The number of the next declaration, and what the look-ups yield, are numbers.
LEMMA NumbersAre ==
  ASSUME STypeOK, NEW n
  PROVE  /\ NextDecl \in Nat \ {0} /\ NextDecl = Len(decls) + 1
         /\ VarLookup(n) \in Nat /\ ScopeLookup(n) \in Nat
<1>1. VarLookup(n) \in Nat
  BY LastOfFinds DEF VarLookup, STypeOK
<1>2. \A s \in DOMAIN scopes : LastOf(scopes[s], n) \in Nat
  BY LastOfFinds DEF STypeOK
<1>3. ScopeLookup(n) \in Nat
  <2>1. scopes \in Seq(Seq(Entries))
    BY DEF STypeOK
  <2>2. \/ ScopeLookup(n) = 0
        \/ \E s \in DOMAIN scopes : ScopeLookup(n) = LastOf(scopes[s], n)
    BY <2>1, ScopeLookupFinds
  <2> QED BY <1>2, <2>2
<1> QED BY <1>1, <1>3 DEF STypeOK, NextDecl

\* The current scope is one of the chain.
LEMMA CurrentScope ==
  ASSUME STypeOK, ScopesMatchBlocks
  PROVE  /\ Len(scopes) \in DOMAIN scopes /\ Last(scopes) = scopes[Len(scopes)]
         /\ 1 \in DOMAIN scopes
         /\ fn # 0 => Len(scopes) >= 2
         /\ open # <<>> => Len(scopes) >= 3
         /\ fn = 0 => Len(scopes) = 1
         /\ fn # 0 /\ open = <<>> => Len(scopes) = 2
<1>1. Len(open) \in Nat /\ Len(scopes) \in Nat /\ DOMAIN scopes = 1..Len(scopes)
  BY DEF STypeOK
<1>2. open # <<>> => Len(open) # 0
  BY DEF STypeOK
<1>3. open = <<>> => Len(open) = 0
  OBVIOUS
<1>4. Last(scopes) = scopes[Len(scopes)]
  BY DEF Last
<1> QED BY <1>1, <1>2, <1>3, <1>4 DEF ScopesMatchBlocks

\* What a declaration in scope s does to the chain.
LEMMA ChainWith ==
  ASSUME STypeOK, NEW k \in DOMAIN scopes, NEW m \in Names,
         scopes' = [scopes EXCEPT ![k] = AddVar(@, m, NextDecl)]
  PROVE  /\ scopes' \in Seq(Seq(Entries)) /\ Len(scopes') = Len(scopes)
         /\ DOMAIN scopes' = DOMAIN scopes
         /\ \A s \in DOMAIN scopes : s # k => scopes'[s] = scopes[s]
         /\ scopes'[k] = AddVar(scopes[k], m, NextDecl)
<1>1. scopes \in Seq(Seq(Entries)) /\ scopes[k] \in Seq(Entries)
  BY DEF STypeOK
<1>2. AddVar(scopes[k], m, NextDecl) \in Seq(Entries)
  BY <1>1, AddVarFinds, NumbersAre
<1> DEFINE v == AddVar(scopes[k], m, NextDecl)
<1>3. scopes' = [scopes EXCEPT ![k] = v] /\ v \in Seq(Entries)
  BY <1>2
<1> HIDE DEF v
<1>4. /\ scopes' \in Seq(Seq(Entries)) /\ Len(scopes') = Len(scopes)
      /\ DOMAIN scopes' = DOMAIN scopes
      /\ \A s \in DOMAIN scopes : s # k => scopes'[s] = scopes[s]
      /\ scopes'[k] = v
  BY <1>1, <1>3
<1> QED BY <1>4 DEF v

\* The chain with one more scope, and with one less.
LEMMA ChainPushed ==
  ASSUME STypeOK, NEW top \in Seq(Entries), scopes' = Append(scopes, top)
  PROVE  /\ Len(scopes) \in Nat /\ DOMAIN scopes = 1..Len(scopes)
         /\ DOMAIN scopes' = 1..(Len(scopes) + 1)
         /\ \A s \in DOMAIN scopes : scopes'[s] = scopes[s]
         /\ scopes'[Len(scopes) + 1] = top
  BY DEF STypeOK

\* scope_pop leaves the outer scopes as they are.
LEMMA ChainPopped ==
  ASSUME STypeOK, ScopesMatchBlocks, scopes' = Front(scopes)
  PROVE  /\ Len(scopes) \in Nat \ {0} /\ DOMAIN scopes = 1..Len(scopes)
         /\ DOMAIN scopes' = 1..(Len(scopes) - 1)
         /\ \A s \in DOMAIN scopes' : s \in DOMAIN scopes /\ scopes'[s] = scopes[s]
  BY CurrentScope DEF STypeOK, Front

\* The variables keep their types.
LEMMA TypesKept ==
  STypeOK /\ GlobalsFirst /\ ScopesMatchBlocks /\ LocalsAreLast /\ Forwards => STypeOK'
<1> SUFFICES ASSUME STypeOK, GlobalsFirst, ScopesMatchBlocks, LocalsAreLast, Forwards
             PROVE  STypeOK'
  OBVIOUS
<1>0. 0 \in Nat /\ 1 \in Nat
  OBVIOUS
<1>1. ASSUME NEW n \in Names, NEW q \in Qualifiers, MeetGlobal(n, q) PROVE STypeOK'
  <2>1. scopes' \in Seq(Seq(Entries))
    BY <1>1, CurrentScope, ChainWith DEF MeetGlobal
  <2>2. decls' = Append(decls, Decl(n, q, 0, FALSE))
    BY <1>1 DEF MeetGlobal
  <2>3. decls' \in Seq(Declarations)
    BY <2>2, DeclsWith
  <2> QED BY <1>1, <2>1, <2>3 DEF MeetGlobal, STypeOK
<1>2. CASE Global
  <2> DEFINE n == decls[ahead'].name
  <2>1. ahead' = ahead + 1 /\ ahead' \in Nat \ {0}
    BY <1>2 DEF Global, STypeOK
  <2>2. vars' = Append(vars, Entry(n, ahead'))
    BY <1>2 DEF Global, VarPush
  <2>3. n \in Names
    <3>1. decls[ahead + 1] \in Declarations
      BY <1>2, NextGlobal DEF STypeOK
    <3> QED BY <2>1, <3>1 DEF Declarations
  <2>4. Entry(n, ahead') \in Entries
    BY <2>1, <2>3, EntryIs
  <2> HIDE DEF n
  <2>5. vars' \in Seq(Entries)
    BY <2>2, <2>4 DEF STypeOK
  <2> QED BY <1>2, <2>1, <2>5 DEF Global, STypeOK
<1>3. CASE BeginPlain
  <2>1. <<>> \in Seq(Entries)
    OBVIOUS
  <2>2. scopes' \in Seq(Seq(Entries))
    BY <1>3, <2>1 DEF BeginPlain, STypeOK
  <2> QED BY <1>3, <2>2 DEF BeginPlain, STypeOK
<1>4. ASSUME NEW n \in Names, BeginWith(n) PROVE STypeOK'
  <2>1. Entry(n, NextDecl) \in Entries /\ <<Entry(n, NextDecl)>> \in Seq(Entries)
    BY NumbersAre, EntryIs
  <2>2. decls' = Append(decls, Decl(n, "mut", functions + 1, TRUE))
    BY <1>4 DEF BeginWith
  <2>5. functions + 1 \in Nat /\ "mut" \in Qualifiers
    BY DEF STypeOK, Qualifiers
  <2>3. scopes' \in Seq(Seq(Entries))
    BY <1>4, <2>1 DEF BeginWith, STypeOK
  <2>4. vars' \in Seq(Entries)
    BY <1>4, <2>1 DEF BeginWith, STypeOK
  <2>6. decls' \in Seq(Declarations)
    BY <2>2, <2>5, DeclsWith
  <2>7. /\ fn' = functions + 1 /\ functions' = functions + 1 /\ scope_base' = Len(vars) + 1
        /\ UNCHANGED <<ahead, open, using_depth, access>>
    BY <1>4 DEF BeginWith
  <2> QED BY <2>3, <2>4, <2>6, <2>7 DEF STypeOK
<1>5. CASE EndFunction
  <2>1. scopes' \in Seq(Seq(Entries))
    BY <1>5, CurrentScope DEF EndFunction, ScopePop, Front, STypeOK
  <2>2. scope_base <= Len(vars) /\ scope_base \in Nat
    BY <1>5 DEF EndFunction, InBody, LocalsAreLast, STypeOK
  <2>3. vars' \in Seq(Entries)
    BY <1>5, <2>2 DEF EndFunction, STypeOK
  <2> QED BY <1>5, <2>1, <2>3 DEF EndFunction, STypeOK, NoAccess, Access
<1>6. ASSUME NEW n \in Names, NEW q \in Qualifiers, DeclareHere(n, q) PROVE STypeOK'
  <2>1. scopes' \in Seq(Seq(Entries))
    BY <1>6, CurrentScope, ChainWith DEF DeclareHere
  <2>2. decls' = Append(decls, Decl(n, q, fn, FALSE)) /\ fn \in Nat
    BY <1>6 DEF DeclareHere, STypeOK
  <2>3. Entry(n, NextDecl) \in Entries
    BY NumbersAre, EntryIs
  <2>4. vars' \in Seq(Entries)
    BY <1>6, <2>3 DEF DeclareHere, STypeOK
  <2>5. access'.op \in {"none", "read", "assign", "increment"} /\ access'.cg \in Nat
    BY <1>6, NumbersAre DEF DeclareHere, Access, NoAccess
  <2>6. decls' \in Seq(Declarations)
    BY <2>2, DeclsWith
  <2>7. UNCHANGED <<ahead, fn, functions, open, using_depth, scope_base>>
    BY <1>6 DEF DeclareHere
  <2> QED BY <2>1, <2>4, <2>5, <2>6, <2>7 DEF STypeOK
<1>7. ASSUME NEW block \in {"block", "using"}, OpenPlain(block) PROVE STypeOK'
  <2>1. <<>> \in Seq(Entries)
    OBVIOUS
  <2>2. scopes' \in Seq(Seq(Entries))
    BY <1>7, <2>1 DEF OpenPlain, STypeOK
  <2>3. open' \in Seq({"block", "using"})
    BY <1>7 DEF OpenPlain, STypeOK
  <2>4. using_depth' \in Nat
    BY <1>7 DEF OpenPlain, STypeOK
  <2> QED BY <1>7, <2>2, <2>3, <2>4 DEF OpenPlain, STypeOK, NoAccess, Access
<1>8. ASSUME NEW n \in Names, NEW block \in {"block", "using"}, OpenWithVariable(block, n)
      PROVE  STypeOK'
  <2>1. Entry(n, NextDecl) \in Entries /\ <<Entry(n, NextDecl)>> \in Seq(Entries)
    BY NumbersAre, EntryIs
  <2>2. scopes' \in Seq(Seq(Entries))
    BY <1>8, <2>1 DEF OpenWithVariable, ScopePush, STypeOK
  <2>3. decls' = Append(decls, Decl(n, "mut", fn, FALSE)) /\ fn \in Nat /\ "mut" \in Qualifiers
    BY <1>8 DEF OpenWithVariable, STypeOK, Qualifiers
  <2>4. vars' \in Seq(Entries)
    BY <1>8, <2>1 DEF OpenWithVariable, VarPush, STypeOK
  <2>7. decls' \in Seq(Declarations)
    BY <2>3, DeclsWith
  <2>5. open' \in Seq({"block", "using"})
    BY <1>8 DEF OpenWithVariable, STypeOK
  <2>6. using_depth' \in Nat
    BY <1>8 DEF OpenWithVariable, STypeOK
  <2> QED BY <1>8, <2>2, <2>4, <2>5, <2>6, <2>7 DEF OpenWithVariable, STypeOK, NoAccess, Access
<1>9. CASE CloseBlock
  <2>1. scopes' \in Seq(Seq(Entries))
    BY <1>9, CurrentScope DEF CloseBlock, ScopePop, Front, STypeOK
  <2>2. open' \in Seq({"block", "using"})
    BY <1>9 DEF CloseBlock, Front, STypeOK
  <2>3. using_depth' = Cardinality(Usings(Front(open)))
    BY <1>9, UsingsFront DEF CloseBlock, STypeOK, ScopesMatchBlocks, Usings
  <2>4. using_depth' \in Nat
    BY <1>9, <2>2, <2>3, UsingsFinite DEF CloseBlock
  <2> QED BY <1>9, <2>1, <2>2, <2>4 DEF CloseBlock, STypeOK, NoAccess, Access
<1>10. ASSUME NEW n \in Names, NEW op \in {"read", "assign", "increment"}, Touch(n, op)
       PROVE  STypeOK'
  <2>1. access'.op \in {"none", "read", "assign", "increment"} /\ access'.cg \in Nat
    BY <1>10, NumbersAre DEF Touch, Access, NoAccess
  <2> QED BY <1>10, <2>1 DEF Touch, STypeOK
<1>11. CASE Stays
  BY <1>11 DEF Stays, STypeOK
<1> QED BY <1>1, <1>2, <1>3, <1>4, <1>5, <1>6, <1>7, <1>8, <1>9, <1>10, <1>11 DEF Forwards

-----------------------------------------------------------------------------
\* Declarations are never taken back.
Grows == \A d \in DOMAIN decls : d \in DOMAIN decls' /\ decls'[d] = decls[d]

\* An entry describes its declaration after a step, and is in a scope where it belongs.
DescribesNext(entry) ==
  entry.decl \in DOMAIN decls' /\ decls'[entry.decl].name = entry.name

BelongsNext(entry, s) ==
  DescribesNext(entry) /\ (s = 1 <=> decls'[entry.decl].fn = 0)

\* Nothing declared, nothing lost.
LEMMA SameDeclsGrow == decls' = decls => Grows
  BY DEF Grows

\* A new declaration leaves the earlier ones as they are.
LEMMA OneMoreGrows ==
  ASSUME STypeOK, NEW n \in Names, NEW q \in Qualifiers, NEW f \in Nat, NEW p \in BOOLEAN,
         decls' = Append(decls, Decl(n, q, f, p))
  PROVE  /\ Grows /\ NextDecl \in DOMAIN decls' /\ DescribesNext(Entry(n, NextDecl))
         /\ decls'[NextDecl].fn = f
<1>1. NextDecl = Len(decls) + 1
  BY NumbersAre
<1>2. Entry(n, NextDecl).name = n /\ Entry(n, NextDecl).decl = NextDecl
  BY DEF Entry
<1> QED BY <1>1, <1>2, DeclsWith DEF Grows, DescribesNext

\* Entries of codegen's table that were right stay right.
LEMMA VarsDescribe ==
  ASSUME STypeOK, EntriesDescribe, Grows, NEW e \in Entries, DescribesNext(e),
         vars' = vars \/ vars' = Append(vars, e)
  PROVE  \A i \in DOMAIN vars' : DescribesNext(vars'[i])
<1>1. ASSUME NEW i \in DOMAIN vars PROVE DescribesNext(vars[i])
  BY DEF EntriesDescribe, Describes, Grows, DescribesNext
<1>2. vars \in Seq(Entries)
  BY DEF STypeOK
<1>3. CASE vars' = Append(vars, e)
  <2>1. \A i \in DOMAIN vars' : (i \in DOMAIN vars /\ vars'[i] = vars[i]) \/ vars'[i] = e
    BY <1>2, <1>3
  <2> QED BY <1>1, <2>1
<1> QED BY <1>1, <1>3

\* So do those of the scopes.
LEMMA ScopeDescribes ==
  ASSUME EntriesDescribe, Grows, NEW s \in DOMAIN scopes, NEW i \in DOMAIN scopes[s]
  PROVE  BelongsNext(scopes[s][i], s)
  BY DEF EntriesDescribe, Describes, Grows, DescribesNext, BelongsNext

\* scope_add_var adds an entry that describes the declaration.
LEMMA AddedDescribes ==
  ASSUME STypeOK, EntriesDescribe, Grows, NEW k \in DOMAIN scopes, NEW n \in Names,
         scopes' = [scopes EXCEPT ![k] = AddVar(@, n, NextDecl)],
         BelongsNext(Entry(n, NextDecl), k)
  PROVE  \A s \in DOMAIN scopes' : \A i \in DOMAIN scopes'[s] : BelongsNext(scopes'[s][i], s)
<1>1. SUFFICES ASSUME NEW s \in DOMAIN scopes', NEW i \in DOMAIN scopes'[s]
               PROVE  BelongsNext(scopes'[s][i], s)
  OBVIOUS
<1>2. /\ s \in DOMAIN scopes /\ (s # k => scopes'[s] = scopes[s])
      /\ scopes'[k] = AddVar(scopes[k], n, NextDecl)
  BY <1>1, ChainWith
<1>3. CASE s # k
  BY <1>1, <1>2, <1>3, ScopeDescribes
<1>4. CASE s = k
  <2>1. scopes[k] \in Seq(Entries) /\ NextDecl \in Nat \ {0}
    <3>1. scopes[k] \in Seq(Entries)
      BY DEF STypeOK
    <3> QED BY <3>1, NumbersAre
  <2>2. \/ i \in DOMAIN scopes[k] /\ scopes'[k][i] = scopes[k][i]
        \/ scopes'[k][i] = Entry(n, NextDecl)
    BY <1>1, <1>2, <1>4, <2>1, AddVarFinds
  <2> QED BY <1>4, <2>2, ScopeDescribes
<1> QED BY <1>3, <1>4

\* scope_push begins a scope whose entries do.
LEMMA PushedDescribes ==
  ASSUME STypeOK, ScopesMatchBlocks, EntriesDescribe, Grows, NEW top \in Seq(Entries),
         scopes' = Append(scopes, top),
         \A i \in DOMAIN top : DescribesNext(top[i]) /\ decls'[top[i].decl].fn # 0
  PROVE  \A s \in DOMAIN scopes' : \A i \in DOMAIN scopes'[s] : BelongsNext(scopes'[s][i], s)
<1>1. Len(scopes) \in Nat \ {0}
  BY CurrentScope DEF STypeOK
<1>2. /\ DOMAIN scopes' = 1..(Len(scopes) + 1) /\ DOMAIN scopes = 1..Len(scopes)
      /\ \A s \in DOMAIN scopes : scopes'[s] = scopes[s]
      /\ scopes'[Len(scopes) + 1] = top
  BY ChainPushed
<1>3. SUFFICES ASSUME NEW s \in DOMAIN scopes', NEW i \in DOMAIN scopes'[s]
               PROVE  BelongsNext(scopes'[s][i], s)
  OBVIOUS
<1>4. CASE s \in DOMAIN scopes
  BY <1>2, <1>3, <1>4, ScopeDescribes
<1>5. CASE s = Len(scopes) + 1
  <2>1. s # 1 /\ scopes'[s] = top
    BY <1>1, <1>2, <1>5
  <2> QED BY <1>3, <2>1 DEF BelongsNext
<1> QED BY <1>2, <1>3, <1>4, <1>5

\* scope_pop takes entries away.
LEMMA PoppedDescribes ==
  ASSUME STypeOK, ScopesMatchBlocks, EntriesDescribe, Grows, scopes' = Front(scopes)
  PROVE  \A s \in DOMAIN scopes' : \A i \in DOMAIN scopes'[s] : BelongsNext(scopes'[s][i], s)
<1>1. \A s \in DOMAIN scopes' : s \in DOMAIN scopes /\ scopes'[s] = scopes[s]
  BY ChainPopped
<1> QED BY <1>1, ScopeDescribes

\* The two halves of EntriesDescribe after a step, and the rest of it.
LEMMA DescribesFrom ==
  ASSUME \A i \in DOMAIN vars' : DescribesNext(vars'[i]),
         \A s \in DOMAIN scopes' : \A i \in DOMAIN scopes'[s] : BelongsNext(scopes'[s][i], s),
         \A d \in DOMAIN decls' : decls'[d].param => decls'[d].qualifier = "mut",
         access'.cg # 0 => access'.cg \in DOMAIN decls'
  PROVE  EntriesDescribe'
  BY DEF EntriesDescribe, Describes, DescribesNext, BelongsNext

\* What VarLookup finds is a declaration.
LEMMA LookedUpIsDeclared ==
  ASSUME STypeOK, EntriesDescribe, NEW n, VarLookup(n) # 0
  PROVE  VarLookup(n) \in DOMAIN decls /\ decls[VarLookup(n)].name = n
<1>1. PICK i \in DOMAIN vars : vars[i].name = n /\ vars[i].decl = VarLookup(n)
  BY LastOfFinds DEF VarLookup, STypeOK
<1> QED BY <1>1 DEF EntriesDescribe, Describes

\* Every step leaves all entries true of their declarations.
LEMMA EntriesKept ==
  STypeOK /\ EntriesDescribe /\ GlobalsFirst /\ ScopesMatchBlocks /\ LocalsAreLast /\ Forwards
    => EntriesDescribe'
<1> SUFFICES ASSUME STypeOK, EntriesDescribe, GlobalsFirst, ScopesMatchBlocks, LocalsAreLast,
                    Forwards
             PROVE  EntriesDescribe'
  OBVIOUS
<1> USE DescribesFrom
<1>0. /\ access.cg # 0 => access.cg \in DOMAIN decls
      /\ \A d \in DOMAIN decls : decls[d].param => decls[d].qualifier = "mut"
  BY DEF EntriesDescribe
\* One more declaration.
<1>a. ASSUME NEW n \in Names, NEW q \in Qualifiers, NEW f \in Nat, NEW p \in BOOLEAN,
             decls' = Append(decls, Decl(n, q, f, p)), p => q = "mut"
      PROVE  \A d \in DOMAIN decls' : decls'[d].param => decls'[d].qualifier = "mut"
  <2>1. \A d \in DOMAIN decls' : d \in DOMAIN decls \/ d = NextDecl
    BY <1>a, DeclsWith, NumbersAre
  <2> QED BY <1>a, <1>0, <2>1, DeclsWith
<1>1. ASSUME NEW n \in Names, NEW q \in Qualifiers, MeetGlobal(n, q) PROVE EntriesDescribe'
  <2> DEFINE p == FALSE
  <2>1. /\ decls' = Append(decls, Decl(n, q, 0, p)) /\ p \in BOOLEAN /\ ~p
        /\ vars' = vars /\ access' = access
        /\ scopes' = [scopes EXCEPT ![1] = AddVar(@, n, NextDecl)] /\ 1 \in DOMAIN scopes
    BY <1>1, CurrentScope DEF MeetGlobal
  <2> HIDE DEF p
  <2>2. /\ Grows /\ DescribesNext(Entry(n, NextDecl))
        /\ BelongsNext(Entry(n, NextDecl), 1)
    BY <2>1, OneMoreGrows, NumbersAre DEF BelongsNext, Entry
  <2>3. Entry(n, NextDecl) \in Entries
    BY EntryIs, NumbersAre
  <2> QED BY <2>1, <2>2, <2>3, <1>0, <1>a, VarsDescribe, AddedDescribes DEF Grows
<1>2. CASE Global
  <2> DEFINE n == decls[ahead'].name
  <2>1. /\ ahead' = ahead + 1 /\ ahead' \in DOMAIN decls /\ ahead' \in Nat \ {0}
        /\ decls' = decls /\ scopes' = scopes /\ access' = access
        /\ vars' = Append(vars, Entry(n, ahead'))
    BY <1>2, NextGlobal DEF Global, VarPush, STypeOK
  <2>2. n \in Names
    <3>1. decls[ahead'] \in Declarations
      BY <2>1 DEF STypeOK
    <3> QED BY <3>1 DEF Declarations
  <2>3. Entry(n, ahead') \in Entries /\ DescribesNext(Entry(n, ahead'))
    BY <2>1, <2>2, EntryIs DEF DescribesNext
  <2>4. Grows
    BY <2>1, SameDeclsGrow
  <2>5. \A i \in DOMAIN vars' : DescribesNext(vars'[i])
    BY <2>1, <2>3, <2>4, VarsDescribe
  <2> QED BY <2>1, <2>4, <2>5, <1>0, ScopeDescribes
<1>3. CASE BeginPlain
  <2>1. /\ decls' = decls /\ scopes' = Append(scopes, <<>>) /\ vars' = vars
        /\ access' = access /\ Grows
    BY <1>3, SameDeclsGrow DEF BeginPlain
  <2>2. \A i \in DOMAIN vars' : DescribesNext(vars'[i])
    BY <2>1 DEF EntriesDescribe, Describes, DescribesNext
  <2>3. <<>> \in Seq(Entries) /\ \A i \in DOMAIN <<>> : FALSE
    OBVIOUS
  <2>4. \A s \in DOMAIN scopes' : \A i \in DOMAIN scopes'[s] : BelongsNext(scopes'[s][i], s)
    BY <2>1, <2>3, PushedDescribes
  <2> QED BY <2>1, <2>2, <2>4, <1>0
<1>4. ASSUME NEW n \in Names, BeginWith(n) PROVE EntriesDescribe'
  <2> DEFINE p == TRUE
             e == Entry(n, NextDecl)
  <2>1. /\ decls' = Append(decls, Decl(n, "mut", functions + 1, p)) /\ p \in BOOLEAN
        /\ vars' = Append(vars, e) /\ access' = access
        /\ scopes' = Append(scopes, <<e>>)
        /\ functions + 1 \in Nat /\ functions + 1 # 0 /\ "mut" \in Qualifiers
    BY <1>4 DEF BeginWith, STypeOK, Qualifiers
  <2> HIDE DEF p
  <2>2. Grows /\ DescribesNext(e) /\ decls'[NextDecl].fn = functions + 1
    BY <2>1, OneMoreGrows
  <2>3. e \in Entries /\ e.decl = NextDecl /\ <<e>> \in Seq(Entries)
    BY EntryIs, NumbersAre
  <2> HIDE DEF e
  <2>4. \A i \in DOMAIN <<e>> : DescribesNext(<<e>>[i]) /\ decls'[<<e>>[i].decl].fn # 0
    <3>1. \A i \in DOMAIN <<e>> : <<e>>[i] = e
      OBVIOUS
    <3>2. decls'[e.decl].fn # 0
      BY <2>1, <2>2, <2>3
    <3> QED BY <2>2, <3>1, <3>2, Zenon
  <2>5. \A s \in DOMAIN scopes' : \A i \in DOMAIN scopes'[s] : BelongsNext(scopes'[s][i], s)
    BY <2>1, <2>2, <2>3, <2>4, PushedDescribes
  <2>6. \A i \in DOMAIN vars' : DescribesNext(vars'[i])
    BY <2>1, <2>2, <2>3, VarsDescribe
  <2> QED BY <2>1, <2>2, <2>5, <2>6, <1>0, <1>a DEF Grows
<1>5. CASE EndFunction
  <2>1. /\ decls' = decls /\ scopes' = Front(scopes) /\ Grows
        /\ vars' = SubSeq(vars, 1, scope_base) /\ access'.cg = 0
        /\ scope_base \in Nat /\ scope_base <= Len(vars)
    BY <1>5, SameDeclsGrow
       DEF EndFunction, InBody, ScopePop, NoAccess, Access, LocalsAreLast, STypeOK
  <2>2. \A i \in DOMAIN vars' : i \in DOMAIN vars /\ vars'[i] = vars[i]
    BY <2>1 DEF STypeOK
  <2>3. \A i \in DOMAIN vars' : DescribesNext(vars'[i])
    BY <2>1, <2>2 DEF EntriesDescribe, Describes, DescribesNext
  <2> QED BY <2>1, <2>3, <1>0, PoppedDescribes
<1>6. ASSUME NEW n \in Names, NEW q \in Qualifiers, DeclareHere(n, q) PROVE EntriesDescribe'
  <2> DEFINE p == FALSE
             e == Entry(n, NextDecl)
             k == Len(scopes)
  <2>1. /\ decls' = Append(decls, Decl(n, q, fn, p)) /\ p \in BOOLEAN /\ ~p
        /\ vars' = Append(vars, e) /\ fn \in Nat /\ fn # 0
        /\ scopes' = [scopes EXCEPT ![k] = AddVar(@, n, NextDecl)]
        /\ k \in DOMAIN scopes /\ k # 1
        /\ access'.cg = 0 \/ access'.cg = NextDecl
    BY <1>6, CurrentScope DEF DeclareHere, STypeOK, Access, NoAccess
  <2> HIDE DEF p
  <2>2. Grows /\ DescribesNext(e) /\ decls'[NextDecl].fn = fn /\ NextDecl \in DOMAIN decls'
    BY <2>1, OneMoreGrows
  <2>3. e \in Entries /\ e.decl = NextDecl
    BY EntryIs, NumbersAre
  <2>4. BelongsNext(e, k)
    BY <2>1, <2>2, <2>3 DEF BelongsNext
  <2> HIDE DEF k
  <2>5. \A s \in DOMAIN scopes' : \A i \in DOMAIN scopes'[s] : BelongsNext(scopes'[s][i], s)
    BY <2>1, <2>2, <2>4, AddedDescribes
  <2> HIDE DEF e
  <2>6. \A i \in DOMAIN vars' : DescribesNext(vars'[i])
    BY <2>1, <2>2, <2>3, VarsDescribe
  <2> QED BY <2>1, <2>2, <2>5, <2>6, <1>a
<1>7. ASSUME NEW block \in {"block", "using"}, OpenPlain(block) PROVE EntriesDescribe'
  <2>1. /\ decls' = decls /\ scopes' = Append(scopes, <<>>) /\ vars' = vars
        /\ access'.cg = 0 /\ Grows
    BY <1>7, SameDeclsGrow DEF OpenPlain, NoAccess, Access
  <2>2. \A i \in DOMAIN vars' : DescribesNext(vars'[i])
    BY <2>1 DEF EntriesDescribe, Describes, DescribesNext
  <2>3. <<>> \in Seq(Entries) /\ \A i \in DOMAIN <<>> : FALSE
    OBVIOUS
  <2>4. \A s \in DOMAIN scopes' : \A i \in DOMAIN scopes'[s] : BelongsNext(scopes'[s][i], s)
    BY <2>1, <2>3, PushedDescribes
  <2> QED BY <2>1, <2>2, <2>4, <1>0
<1>8. ASSUME NEW n \in Names, NEW block \in {"block", "using"}, OpenWithVariable(block, n)
      PROVE  EntriesDescribe'
  <2> DEFINE p == FALSE
             e == Entry(n, NextDecl)
  <2>1. /\ decls' = Append(decls, Decl(n, "mut", fn, p)) /\ p \in BOOLEAN /\ ~p
        /\ vars' = Append(vars, e) /\ access'.cg = 0
        /\ scopes' = Append(scopes, <<e>>)
        /\ fn \in Nat /\ fn # 0 /\ "mut" \in Qualifiers
    BY <1>8 DEF OpenWithVariable, InBody, VarPush, ScopePush, STypeOK, Qualifiers, NoAccess, Access
  <2> HIDE DEF p
  <2>2. Grows /\ DescribesNext(e) /\ decls'[NextDecl].fn = fn
    BY <2>1, OneMoreGrows
  <2>3. e \in Entries /\ e.decl = NextDecl /\ <<e>> \in Seq(Entries)
    BY EntryIs, NumbersAre
  <2> HIDE DEF e
  <2>4. \A i \in DOMAIN <<e>> : DescribesNext(<<e>>[i]) /\ decls'[<<e>>[i].decl].fn # 0
    <3>1. \A i \in DOMAIN <<e>> : <<e>>[i] = e
      OBVIOUS
    <3>2. decls'[e.decl].fn # 0
      BY <2>1, <2>2, <2>3
    <3> QED BY <2>2, <3>1, <3>2, Zenon
  <2>5. \A s \in DOMAIN scopes' : \A i \in DOMAIN scopes'[s] : BelongsNext(scopes'[s][i], s)
    BY <2>1, <2>2, <2>3, <2>4, PushedDescribes
  <2>6. \A i \in DOMAIN vars' : DescribesNext(vars'[i])
    BY <2>1, <2>2, <2>3, VarsDescribe
  <2> QED BY <2>1, <2>2, <2>5, <2>6, <1>a
<1>9. CASE CloseBlock
  <2>1. decls' = decls /\ scopes' = Front(scopes) /\ vars' = vars /\ access'.cg = 0 /\ Grows
    BY <1>9, SameDeclsGrow DEF CloseBlock, ScopePop, NoAccess, Access
  <2>2. \A i \in DOMAIN vars' : DescribesNext(vars'[i])
    BY <2>1 DEF EntriesDescribe, Describes, DescribesNext
  <2> QED BY <2>1, <2>2, <1>0, PoppedDescribes
<1>10. ASSUME NEW n \in Names, NEW op \in {"read", "assign", "increment"}, Touch(n, op)
       PROVE  EntriesDescribe'
  <2>1. /\ UNCHANGED <<decls, scopes, vars>>
        /\ access'.cg = 0 \/ access'.cg = VarLookup(n)
    BY <1>10 DEF Touch, NoAccess, Access
  <2>2. access'.cg # 0 => access'.cg \in DOMAIN decls'
    BY <2>1, LookedUpIsDeclared
  <2>3. /\ \A i \in DOMAIN vars' : DescribesNext(vars'[i])
        /\ \A s \in DOMAIN scopes' : \A i \in DOMAIN scopes'[s] : BelongsNext(scopes'[s][i], s)
    BY <2>1 DEF EntriesDescribe, Describes, DescribesNext, BelongsNext
  <2> QED BY <2>1, <2>2, <2>3, <1>0
<1>11. CASE Stays
  BY <1>11 DEF Stays, EntriesDescribe, Describes
<1> QED BY <1>1, <1>2, <1>3, <1>4, <1>5, <1>6, <1>7, <1>8, <1>9, <1>10, <1>11 DEF Forwards

-----------------------------------------------------------------------------
\* Every step leaves the globals in front of all other declarations.
LEMMA GlobalsKept ==
  STypeOK /\ GlobalsFirst /\ Forwards => GlobalsFirst'
<1> SUFFICES ASSUME STypeOK, GlobalsFirst, Forwards PROVE GlobalsFirst'
  OBVIOUS
<1>0. /\ ahead \in Nat /\ fn \in Nat /\ functions \in Nat /\ Len(decls) \in Nat
      /\ DOMAIN decls = 1..Len(decls)
      /\ \A d \in DOMAIN decls : decls[d].fn \in Nat
  <2>1. \A d \in DOMAIN decls : decls[d] \in Declarations
    BY DEF STypeOK
  <2> QED BY <2>1 DEF STypeOK, Declarations
\* Without a new declaration, and with one of a function that has begun.
<1>a. ASSUME decls' = decls, ahead' = ahead, functions' \in Nat, fn' \in Nat,
             functions <= functions', fn' <= functions'
      PROVE  GlobalsFirst'
  BY <1>a, <1>0 DEF GlobalsFirst
<1>b. ASSUME NEW n \in Names, NEW q \in Qualifiers, NEW f \in Nat, NEW p \in BOOLEAN,
             decls' = Append(decls, Decl(n, q, f, p)), ahead' = ahead,
             functions' \in Nat, fn' \in Nat, functions <= functions', fn' <= functions',
             f <= functions', f = 0 => functions = 0
      PROVE  GlobalsFirst'
  <2>1. \A d \in DOMAIN decls' : d \in DOMAIN decls \/ d = Len(decls) + 1
    BY <1>b, DeclsWith
  <2>2. /\ \A d \in DOMAIN decls : d \in DOMAIN decls' /\ decls'[d] = decls[d]
        /\ decls'[Len(decls) + 1].fn = f
    BY <1>b, DeclsWith, NumbersAre
  <2>3. \A d \in DOMAIN decls' : decls'[d].fn <= functions'
    BY <1>0, <1>b, <2>1, <2>2 DEF GlobalsFirst
  <2>4. ASSUME NEW d \in DOMAIN decls', NEW e \in DOMAIN decls', d < e, decls'[e].fn = 0
        PROVE  decls'[d].fn = 0
    <3>1. d \in DOMAIN decls
      BY <1>0, <2>1, <2>4
    <3>2. CASE e \in DOMAIN decls
      BY <2>2, <2>4, <3>1, <3>2 DEF GlobalsFirst
    <3>3. CASE e = Len(decls) + 1
      <4>1. functions = 0 /\ decls[d].fn <= functions
        BY <1>b, <2>2, <2>4, <3>1, <3>3 DEF GlobalsFirst
      <4> QED BY <1>0, <2>2, <3>1, <4>1
    <3> QED BY <2>1, <3>2, <3>3
  <2>5. \A d \in 1..ahead' : d \in DOMAIN decls' /\ decls'[d].fn = 0
    BY <1>b, <2>2 DEF GlobalsFirst
  <2> QED BY <1>b, <2>3, <2>4, <2>5 DEF GlobalsFirst
<1>1. ASSUME NEW n \in Names, NEW q \in Qualifiers, MeetGlobal(n, q) PROVE GlobalsFirst'
  <2> DEFINE p == FALSE
  <2>1. /\ decls' = Append(decls, Decl(n, q, 0, p)) /\ p \in BOOLEAN
        /\ UNCHANGED <<ahead, fn, functions>> /\ functions = 0
    BY <1>1 DEF MeetGlobal
  <2> HIDE DEF p
  <2> QED BY <1>0, <1>b, <2>1 DEF GlobalsFirst
<1>2. CASE Global
  <2>1. ahead' = ahead + 1 /\ UNCHANGED <<decls, fn, functions>>
    BY <1>2 DEF Global
  <2>2. \A d \in 1..ahead' : d \in DOMAIN decls /\ decls[d].fn = 0
    BY <1>0, <1>2, <2>1, NextGlobal DEF GlobalsFirst
  <2> QED BY <2>1, <2>2 DEF GlobalsFirst
<1>3. CASE BeginPlain
  BY <1>0, <1>3, <1>a DEF BeginPlain
<1>4. ASSUME NEW n \in Names, BeginWith(n) PROVE GlobalsFirst'
  <2> DEFINE p == TRUE
             f == functions + 1
  <2>1. /\ decls' = Append(decls, Decl(n, "mut", f, p)) /\ p \in BOOLEAN
        /\ ahead' = ahead /\ fn' = f /\ functions' = f
        /\ f \in Nat /\ f # 0 /\ "mut" \in Qualifiers /\ functions <= f
    BY <1>4, <1>0 DEF BeginWith, Qualifiers
  <2> HIDE DEF p, f
  <2> QED BY <1>b, <2>1
<1>5. CASE EndFunction
  BY <1>0, <1>5, <1>a DEF EndFunction
<1>6. ASSUME NEW n \in Names, NEW q \in Qualifiers, DeclareHere(n, q) PROVE GlobalsFirst'
  <2> DEFINE p == FALSE
  <2>1. /\ decls' = Append(decls, Decl(n, q, fn, p)) /\ p \in BOOLEAN
        /\ UNCHANGED <<ahead, fn, functions>> /\ fn # 0 /\ fn <= functions
    BY <1>6 DEF DeclareHere, GlobalsFirst
  <2> HIDE DEF p
  <2> QED BY <1>0, <1>b, <2>1
<1>7. ASSUME NEW block \in {"block", "using"}, OpenPlain(block) PROVE GlobalsFirst'
  BY <1>7 DEF OpenPlain, GlobalsFirst
<1>8. ASSUME NEW n \in Names, NEW block \in {"block", "using"}, OpenWithVariable(block, n)
      PROVE  GlobalsFirst'
  <2> DEFINE p == FALSE
  <2>1. /\ decls' = Append(decls, Decl(n, "mut", fn, p)) /\ p \in BOOLEAN
        /\ UNCHANGED <<ahead, fn, functions>> /\ fn # 0 /\ fn <= functions
        /\ "mut" \in Qualifiers
    BY <1>8 DEF OpenWithVariable, InBody, GlobalsFirst, Qualifiers
  <2> HIDE DEF p
  <2> QED BY <1>0, <1>b, <2>1
<1>9. CASE CloseBlock
  BY <1>9 DEF CloseBlock, GlobalsFirst
<1>10. ASSUME NEW n \in Names, NEW op \in {"read", "assign", "increment"}, Touch(n, op)
       PROVE  GlobalsFirst'
  BY <1>10 DEF Touch, GlobalsFirst
<1>11. CASE Stays
  BY <1>11 DEF Stays, GlobalsFirst
<1> QED BY <1>1, <1>2, <1>3, <1>4, <1>5, <1>6, <1>7, <1>8, <1>9, <1>10, <1>11 DEF Forwards

\* Scopes are pushed and popped with the blocks and the functions.
LEMMA BlocksKept ==
  STypeOK /\ GlobalsFirst /\ ScopesMatchBlocks /\ Forwards => ScopesMatchBlocks'
<1> SUFFICES ASSUME STypeOK, GlobalsFirst, ScopesMatchBlocks, Forwards
             PROVE  ScopesMatchBlocks'
  OBVIOUS
<1>0. /\ open \in Seq({"block", "using"}) /\ Len(open) \in Nat
      /\ scopes \in Seq(Seq(Entries)) /\ fn \in Nat /\ functions \in Nat
      /\ Len(scopes) = IF fn = 0 THEN 1 ELSE 2 + Len(open)
      /\ fn = 0 => open = <<>>
      /\ using_depth = Cardinality(Usings(open))
  BY DEF STypeOK, ScopesMatchBlocks, Usings
<1>a. ASSUME fn' = 0 => open' = <<>>, Len(scopes') = IF fn' = 0 THEN 1 ELSE 2 + Len(open'),
             using_depth' = Cardinality(Usings(open'))
      PROVE  ScopesMatchBlocks'
  BY <1>a DEF ScopesMatchBlocks, Usings
<1>1. ASSUME NEW n \in Names, NEW q \in Qualifiers, MeetGlobal(n, q)
      PROVE  ScopesMatchBlocks'
  <2>1. Len(scopes') = Len(scopes) /\ UNCHANGED <<fn, open, using_depth>>
    BY <1>1, CurrentScope, ChainWith DEF MeetGlobal
  <2> QED BY <1>0, <1>a, <2>1
<1>2. CASE Global
  BY <1>2 DEF Global, ScopesMatchBlocks
<1>3. ASSUME BeginPlain \/ \E n \in Names : BeginWith(n)
      PROVE  ScopesMatchBlocks'
  <2>1. /\ fn = 0 /\ fn' = functions + 1 /\ UNCHANGED <<open, using_depth>>
    BY <1>3 DEF BeginPlain, BeginWith
  <2>2. PICK top \in Seq(Entries) : scopes' = Append(scopes, top)
    <3>1. CASE BeginPlain
      <4>1. <<>> \in Seq(Entries)
        OBVIOUS
      <4> QED BY <3>1, <4>1 DEF BeginPlain
    <3>2. ASSUME NEW n \in Names, BeginWith(n)
          PROVE  \E top \in Seq(Entries) : scopes' = Append(scopes, top)
      BY <3>2, EntryIs, NumbersAre DEF BeginWith
    <3> QED BY <1>3, <3>1, <3>2
  <2>3. Len(scopes') = Len(scopes) + 1
    BY <2>2 DEF STypeOK
  <2>4. open = <<>> /\ Len(scopes) = 1 /\ fn' # 0
    BY <1>0, <2>1
  <2>5. Len(open) = 0
    BY <2>4
  <2> QED BY <1>0, <1>a, <2>1, <2>3, <2>4, <2>5
<1>5. CASE EndFunction
  <2>1. /\ fn # 0 /\ fn' = 0 /\ open = <<>> /\ UNCHANGED <<open, using_depth>>
        /\ scopes' = SubSeq(scopes, 1, Len(scopes) - 1)
    BY <1>5 DEF EndFunction, InBody, ScopePop, Front
  <2>2. Len(scopes) = 2 /\ Len(open) = 0
    BY <1>0, <2>1
  <2>3. Len(scopes') = 1
    BY <1>0, <2>1, <2>2
  <2> QED BY <1>0, <1>a, <2>1, <2>3
<1>6. ASSUME NEW n \in Names, NEW q \in Qualifiers, DeclareHere(n, q)
      PROVE  ScopesMatchBlocks'
  <2>1. Len(scopes') = Len(scopes) /\ UNCHANGED <<fn, open, using_depth>>
    BY <1>6, CurrentScope, ChainWith DEF DeclareHere
  <2> QED BY <1>0, <1>a, <2>1
<1>7. ASSUME NEW block \in {"block", "using"},
             OpenPlain(block) \/ \E n \in Names : OpenWithVariable(block, n)
      PROVE  ScopesMatchBlocks'
  <2>1. /\ fn # 0 /\ fn' = fn /\ open' = Append(open, block)
        /\ using_depth' = using_depth + (IF block = "using" THEN 1 ELSE 0)
        /\ \E top : scopes' = Append(scopes, top)
    BY <1>7 DEF OpenPlain, OpenWithVariable, InBody, ScopePush
  <2>2. Len(open') = Len(open) + 1 /\ Len(scopes') = Len(scopes) + 1
    BY <1>0, <2>1
  <2>3. using_depth' = Cardinality(Usings(open'))
    BY <1>0, <2>1, UsingsAppend
  <2>4. Len(scopes') = 2 + Len(open')
    BY <1>0, <2>1, <2>2
  <2> QED BY <1>a, <2>1, <2>3, <2>4
<1>9. CASE CloseBlock
  <2>1. /\ fn # 0 /\ fn' = fn /\ open # <<>> /\ open' = Front(open)
        /\ using_depth' = using_depth - (IF Last(open) = "using" THEN 1 ELSE 0)
        /\ scopes' = SubSeq(scopes, 1, Len(scopes) - 1)
    BY <1>9 DEF CloseBlock, InBody, ScopePop, Front
  <2>2. Len(open') = Len(open) - 1 /\ using_depth' = Cardinality(Usings(open'))
    BY <1>0, <2>1, UsingsFront
  <2>3. Len(scopes') = Len(scopes) - 1
    BY <1>0, <2>1
  <2>4. Len(scopes') = 2 + Len(open')
    BY <1>0, <2>1, <2>2, <2>3
  <2> QED BY <1>a, <2>1, <2>2, <2>4
<1>10. ASSUME NEW n \in Names, NEW op \in {"read", "assign", "increment"}, Touch(n, op)
       PROVE  ScopesMatchBlocks'
  BY <1>10 DEF Touch, ScopesMatchBlocks
<1>11. CASE Stays
  BY <1>11 DEF Stays, ScopesMatchBlocks
<1> QED BY <1>1, <1>2, <1>3, <1>5, <1>6, <1>7, <1>9, <1>10, <1>11 DEF Forwards

\* A local is declared and pushed in one step; a function begins with none.
LEMMA LocalsKept ==
  STypeOK /\ GlobalsFirst /\ LocalsAreLast /\ Forwards => LocalsAreLast'
<1> SUFFICES ASSUME STypeOK, GlobalsFirst, LocalsAreLast, Forwards PROVE LocalsAreLast'
  OBVIOUS
<1>0. /\ fn \in Nat /\ functions \in Nat /\ Len(decls) \in Nat /\ Len(vars) \in Nat
      /\ scope_base \in Nat /\ vars \in Seq(Entries)
      /\ DOMAIN decls = 1..Len(decls)
      /\ \A d \in DOMAIN decls : decls[d].fn \in Nat /\ decls[d].fn <= functions
  <2>1. \A d \in DOMAIN decls : decls[d] \in Declarations
    BY DEF STypeOK
  <2> QED BY <2>1 DEF STypeOK, Declarations, GlobalsFirst
<1>a. ASSUME fn' = 0 \/ UNCHANGED <<decls, fn, vars, scope_base>>
      PROVE  LocalsAreLast'
  BY <1>a DEF LocalsAreLast
\* One more local.
<1>b. ASSUME NEW n \in Names, NEW q \in Qualifiers, NEW p \in BOOLEAN, ~p, fn # 0,
             decls' = Append(decls, Decl(n, q, fn, p)),
             vars' = Append(vars, Entry(n, NextDecl)), UNCHANGED <<fn, scope_base>>
      PROVE  LocalsAreLast'
  <2> DEFINE k == Len(vars) - scope_base
             last == Len(decls) - k
  <2>1. /\ scope_base <= Len(vars) /\ k \in Nat /\ last \in Nat
        /\ \A i \in 1..k : vars[scope_base + i].decl = last + i
        /\ \A d \in DOMAIN decls : d > last <=> decls[d].fn = fn /\ ~decls[d].param
    BY <1>0, <1>b DEF LocalsAreLast
  <2> DEFINE e == Entry(n, NextDecl)
  <2>2. e \in Entries /\ e.decl = Len(decls) + 1
    BY EntryIs, NumbersAre
  <2> HIDE DEF e
  <2>3. /\ Len(vars') = Len(vars) + 1 /\ vars'[Len(vars) + 1] = e
        /\ \A i \in 1..Len(vars) : vars'[i] = vars[i]
    BY <1>0, <1>b, <2>2 DEF e
  <2>4. /\ Len(decls') = Len(decls) + 1 /\ DOMAIN decls' = 1..(Len(decls) + 1)
        /\ \A d \in DOMAIN decls : decls'[d] = decls[d]
        /\ decls'[Len(decls) + 1].fn = fn /\ ~decls'[Len(decls) + 1].param
    BY <1>0, <1>b, DeclsWith, NumbersAre
  <2>5. Len(vars') - scope_base' = k + 1 /\ Len(decls') - (k + 1) = last
    BY <1>0, <1>b, <2>3, <2>4
  <2>6. k = Len(vars) - scope_base /\ last = Len(decls) - k
    OBVIOUS
  <2> HIDE DEF k, last
  <2>7. ASSUME NEW i \in 1..(k + 1) PROVE vars'[scope_base + i].decl = last + i
    <3>1. CASE i \in 1..k
      <4>1. scope_base + i \in 1..Len(vars)
        BY <1>0, <2>1, <2>6, <3>1
      <4> QED BY <2>1, <2>3, <3>1, <4>1
    <3>2. CASE i = k + 1
      <4>1. scope_base + i = Len(vars) + 1 /\ last + i = Len(decls) + 1
        BY <1>0, <2>1, <2>6, <3>2
      <4> QED BY <2>2, <2>3, <4>1
    <3> QED BY <2>1, <3>1, <3>2
  <2>8. ASSUME NEW d \in DOMAIN decls'
        PROVE  d > last <=> decls'[d].fn = fn /\ ~decls'[d].param
    <3>1. CASE d \in DOMAIN decls
      BY <2>1, <2>4, <3>1
    <3>2. CASE d = Len(decls) + 1
      <4>1. d > last
        BY <1>0, <2>1, <2>6, <3>2
      <4> QED BY <2>4, <3>2, <4>1
    <3> QED BY <1>0, <2>4, <3>1, <3>2
  <2>9. scope_base' <= Len(vars') /\ Len(vars') - scope_base' <= Len(decls')
    BY <1>0, <1>b, <2>1, <2>3, <2>4, <2>6
  <2>10. /\ \A i \in 1..(Len(vars') - scope_base') :
              vars'[scope_base' + i].decl = Len(decls') - (Len(vars') - scope_base') + i
         /\ \A d \in DOMAIN decls' :
              d > Len(decls') - (Len(vars') - scope_base') <=> decls'[d].fn = fn' /\ ~decls'[d].param
    BY <1>b, <2>5, <2>7, <2>8
  <2> QED BY <2>9, <2>10 DEF LocalsAreLast
<1>1. ASSUME NEW n \in Names, NEW q \in Qualifiers, MeetGlobal(n, q) PROVE LocalsAreLast'
  <2>1. fn' = 0
    BY <1>0, <1>1 DEF MeetGlobal, GlobalsFirst
  <2> QED BY <1>a, <2>1
<1>2. CASE Global
  BY <1>2, <1>a DEF Global
<1>3. CASE BeginPlain
  <2>1. /\ decls' = decls /\ vars' = vars /\ scope_base' = Len(vars) /\ fn' = functions + 1
    BY <1>3 DEF BeginPlain
  <2>2. Len(vars') - scope_base' = 0 /\ scope_base' <= Len(vars')
    BY <1>0, <2>1
  <2>3. \A d \in DOMAIN decls' : ~(d > Len(decls') - 0) /\ decls'[d].fn # fn'
    BY <1>0, <2>1
  <2> QED BY <1>0, <2>1, <2>2, <2>3 DEF LocalsAreLast
<1>4. ASSUME NEW n \in Names, BeginWith(n) PROVE LocalsAreLast'
  <2> DEFINE p == TRUE
             f == functions + 1
  <2>1. /\ decls' = Append(decls, Decl(n, "mut", f, p)) /\ p \in BOOLEAN /\ p
        /\ fn' = f /\ f \in Nat /\ functions < f /\ "mut" \in Qualifiers
        /\ vars' = Append(vars, Entry(n, NextDecl)) /\ scope_base' = Len(vars) + 1
    BY <1>4, <1>0 DEF BeginWith, Qualifiers
  <2> HIDE DEF p, f
  <2>2. Entry(n, NextDecl) \in Entries
    BY EntryIs, NumbersAre
  <2>3. Len(vars') = Len(vars) + 1
    BY <1>0, <2>1
  <2>4. Len(vars') - scope_base' = 0 /\ scope_base' <= Len(vars')
    BY <1>0, <2>1, <2>3
  <2>5. /\ Len(decls') = Len(decls) + 1 /\ DOMAIN decls' = 1..(Len(decls) + 1)
        /\ \A d \in DOMAIN decls : decls'[d] = decls[d]
        /\ decls'[Len(decls) + 1].param
    BY <1>0, <2>1, DeclsWith, NumbersAre
  <2>6. ASSUME NEW d \in DOMAIN decls'
        PROVE  ~(d > Len(decls') - 0) /\ (decls'[d].fn # fn' \/ decls'[d].param)
    <3>1. CASE d \in DOMAIN decls
      <4>1. decls'[d].fn \in Nat /\ decls'[d].fn <= functions
        BY <1>0, <2>5, <3>1
      <4>2. decls'[d].fn # fn'
        <5> DEFINE g == decls'[d].fn
        <5>1. g \in Nat /\ g <= functions /\ functions \in Nat
          BY <1>0, <4>1
        <5> HIDE DEF g
        <5>2. g # f
          BY <5>1, <2>1
        <5> QED BY <5>2, <2>1 DEF g
      <4> QED BY <1>0, <2>5, <3>1, <4>2
    <3>2. CASE d = Len(decls) + 1
      BY <1>0, <2>5, <3>2
    <3> QED BY <1>0, <2>5, <3>1, <3>2
  <2> QED BY <1>0, <2>4, <2>5, <2>6 DEF LocalsAreLast
<1>5. CASE EndFunction
  BY <1>5, <1>a DEF EndFunction
<1>6. ASSUME NEW n \in Names, NEW q \in Qualifiers, DeclareHere(n, q) PROVE LocalsAreLast'
  <2> DEFINE p == FALSE
  <2>1. /\ decls' = Append(decls, Decl(n, q, fn, p)) /\ p \in BOOLEAN /\ ~p /\ fn # 0
        /\ vars' = Append(vars, Entry(n, NextDecl)) /\ UNCHANGED <<fn, scope_base>>
    BY <1>6 DEF DeclareHere
  <2> HIDE DEF p
  <2> QED BY <1>b, <2>1
<1>7. ASSUME NEW block \in {"block", "using"}, OpenPlain(block) PROVE LocalsAreLast'
  BY <1>7, <1>a DEF OpenPlain
<1>8. ASSUME NEW n \in Names, NEW block \in {"block", "using"}, OpenWithVariable(block, n)
      PROVE  LocalsAreLast'
  <2> DEFINE p == FALSE
  <2>1. /\ decls' = Append(decls, Decl(n, "mut", fn, p)) /\ p \in BOOLEAN /\ ~p /\ fn # 0
        /\ vars' = Append(vars, Entry(n, NextDecl)) /\ UNCHANGED <<fn, scope_base>>
        /\ "mut" \in Qualifiers
    BY <1>8 DEF OpenWithVariable, InBody, VarPush, Qualifiers
  <2> HIDE DEF p
  <2> QED BY <1>b, <2>1
<1>9. CASE CloseBlock
  BY <1>9, <1>a DEF CloseBlock
<1>10. ASSUME NEW n \in Names, NEW op \in {"read", "assign", "increment"}, Touch(n, op)
       PROVE  LocalsAreLast'
  BY <1>10, <1>a DEF Touch
<1>11. CASE Stays
  BY <1>11, <1>a DEF Stays
<1> QED BY <1>1, <1>2, <1>3, <1>4, <1>5, <1>6, <1>7, <1>8, <1>9, <1>10, <1>11 DEF Forwards

\* The locals of the function are as many as the entries above scope_base.
LEMMA OwnFromLast ==
  STypeOK /\ LocalsAreLast => ReleasesOwn
<1> SUFFICES ASSUME STypeOK, LocalsAreLast, fn # 0 PROVE ReleasesOwn
  BY DEF ReleasesOwn
<1> DEFINE k == Len(vars) - scope_base
           last == Len(decls) - k
           locals == {d \in DOMAIN decls : decls[d].fn = fn /\ ~decls[d].param}
           above == SubSeq(vars, scope_base + 1, Len(vars))
<1>1. /\ scope_base \in Nat /\ Len(vars) \in Nat /\ Len(decls) \in Nat /\ k \in Nat
      /\ last \in Nat /\ DOMAIN decls = 1..Len(decls) /\ vars \in Seq(Entries)
      /\ \A i \in 1..k : vars[scope_base + i].decl = last + i
      /\ \A d \in DOMAIN decls : d > last <=> d \in locals
  BY DEF STypeOK, LocalsAreLast
<1>2. Len(above) = k /\ \A i \in 1..k : above[i] = vars[scope_base + i]
  BY <1>1
<1>3. DOMAIN above = 1..k
  BY <1>1
<1>4. k = Len(vars) - scope_base /\ last = Len(decls) - k /\ locals \subseteq DOMAIN decls
  OBVIOUS
<1> HIDE DEF k, last, locals, above
<1>5. locals = (last + 1)..Len(decls)
  <2>1. ASSUME NEW d \in locals PROVE d \in (last + 1)..Len(decls)
    <3>1. d \in DOMAIN decls
      BY <1>4
    <3>2. d > last
      BY <1>1, <3>1
    <3> QED BY <1>1, <3>1, <3>2
  <2>2. ASSUME NEW d \in (last + 1)..Len(decls) PROVE d \in locals
    <3>1. d \in DOMAIN decls /\ d > last
      BY <1>1
    <3> QED BY <1>1, <3>1
  <2> QED BY <2>1, <2>2
<1>6. Cardinality(locals) = k
  <2>1. Cardinality((last + 1)..Len(decls))
          = IF last + 1 > Len(decls) THEN 0 ELSE Len(decls) - (last + 1) + 1
    <3>1. last + 1 \in Int /\ Len(decls) \in Int
      BY <1>1
    <3> QED BY <3>1, FS_Interval
  <2> QED BY <1>1, <1>4, <1>5, <2>1
<1>7. \A i \in DOMAIN above : above[i].decl \in locals
  BY <1>1, <1>2, <1>3, <1>4, <1>5
<1> QED BY <1>2, <1>6, <1>7 DEF ReleasesOwn, locals, above

-----------------------------------------------------------------------------
\* What the program has used is never forgotten.
LEMMA KindsGrow ==
  Forwards => kinds \subseteq kinds'
  BY DEF Forwards, MeetGlobal, Using, Global, BeginPlain, BeginWith, EndFunction, DeclareHere,
         OpenPlain, OpenWithVariable, CloseBlock, Touch, Stays

\* Every step leaves the table empty until codegen meets a declaration.
LEMMA NothingYetKept ==
  STypeOK /\ GlobalsFirst /\ NothingYet /\ Forwards => NothingYet'
<1> SUFFICES ASSUME STypeOK, GlobalsFirst, NothingYet, Forwards PROVE NothingYet'
  OBVIOUS
<1>1. fn \in Nat /\ functions \in Nat /\ ahead \in Nat /\ (fn # 0 => functions # 0)
  BY DEF STypeOK, GlobalsFirst
<1>2. CASE Global \/ BeginPlain \/ \E n \in Names : BeginWith(n)
  <2>1. ahead' # 0 \/ functions' # 0
    <3>1. CASE Global
      BY <1>1, <3>1 DEF Global
    <3>2. CASE BeginPlain \/ \E n \in Names : BeginWith(n)
      <4>1. functions' = functions + 1
        BY <3>2 DEF BeginPlain, BeginWith
      <4> QED BY <1>1, <4>1
    <3> QED BY <1>2, <3>1, <3>2
  <2> QED BY <2>1 DEF NothingYet
<1>3. CASE \/ EndFunction \/ CloseBlock
           \/ \E n \in Names, q \in Qualifiers : DeclareHere(n, q)
           \/ \E block \in {"block", "using"} : OpenPlain(block)
           \/ \E n \in Names, block \in {"block", "using"} : OpenWithVariable(block, n)
  <2>1. functions' # 0
    BY <1>1, <1>3 DEF EndFunction, InBody, CloseBlock, DeclareHere, OpenPlain, OpenWithVariable
  <2> QED BY <2>1 DEF NothingYet
<1>4. CASE \/ Stays \/ \E n \in Names, q \in Qualifiers : MeetGlobal(n, q)
           \/ \E n \in Names, op \in {"read", "assign", "increment"} : Touch(n, op)
  BY <1>4 DEF Stays, MeetGlobal, Touch, NothingYet
<1> QED BY <1>2, <1>3, <1>4 DEF Forwards

-----------------------------------------------------------------------------
\* The look-ups after a step, as formulas over the next state.
LookupNext(n) == LastOf(vars', n)
MayBeNext(g, d) ==
  \/ d = IF g <= ahead' THEN g ELSE 0
  \/ "param" \in kinds' /\ d \in DOMAIN decls' /\ decls'[d].param
OutsideNext == IF fn' = 0 THEN vars' ELSE SubSeq(vars', 1, scope_base')

OneScopeNext ==
  \A n \in Names : \A s, t \in DOMAIN scopes' :
    s < t /\ t > 2 => LastOf(scopes'[s], n) = 0 \/ LastOf(scopes'[t], n) = 0
GlobalsByNameNext ==
  \A d \in DOMAIN decls' : decls'[d].fn = 0 => LastOf(scopes'[1], decls'[d].name) = d
LocalsFoundNext ==
  \A n \in Names : \A s \in DOMAIN scopes' :
    s > 1 /\ LastOf(scopes'[s], n) # 0 => LookupNext(n) = LastOf(scopes'[s], n)
GlobalsFoundNext ==
  \A n \in Names : LastOf(scopes'[1], n) # 0 =>
    /\ MayBeNext(LastOf(scopes'[1], n), LastOf(OutsideNext, n))
    /\ (\A s \in DOMAIN scopes' : s > 1 => LastOf(scopes'[s], n) = 0) =>
         MayBeNext(LastOf(scopes'[1], n), LookupNext(n))

\* The four parts of NamesResolve, in the next state.
LEMMA ResolveFrom ==
  ASSUME OneScopeNext, GlobalsByNameNext, LocalsFoundNext, GlobalsFoundNext
  PROVE  NamesResolve'
<1>1. OneScope'
  BY DEF OneScope, OneScopeNext
<1>2. GlobalsByName'
  BY DEF GlobalsByName, GlobalsByNameNext, Globals
<1>3. LocalsFound'
  BY DEF LocalsFound, LocalsFoundNext, VarLookup, LookupNext
<1>4. GlobalsFound'
  BY DEF GlobalsFound, GlobalsFoundNext, VarLookup, LookupNext, MayBe, MayBeNext, Outside,
         OutsideNext
<1> QED BY <1>1, <1>2, <1>3, <1>4 DEF NamesResolve

\* What codegen may find for a global, it may find later.
LEMMA MayBeGrows ==
  ASSUME Grows, kinds \subseteq kinds', ahead' = ahead, NEW g, NEW d, MayBe(g, d)
  PROVE  MayBeNext(g, d)
  BY DEF MayBe, MayBeNext, Grows

\* What a scope finds is a declaration of that name, a global for the outermost one.
LEMMA ScopeFinds ==
  ASSUME STypeOK, EntriesDescribe, NEW s \in DOMAIN scopes, NEW n, LastOf(scopes[s], n) # 0
  PROVE  /\ LastOf(scopes[s], n) \in DOMAIN decls
         /\ decls[LastOf(scopes[s], n)].name = n
         /\ s = 1 <=> decls[LastOf(scopes[s], n)].fn = 0
<1>1. scopes[s] \in Seq(Entries)
  BY DEF STypeOK
<1>2. PICK i \in DOMAIN scopes[s] :
        scopes[s][i].name = n /\ scopes[s][i].decl = LastOf(scopes[s], n)
  BY <1>1, LastOfFinds
<1> QED BY <1>2 DEF EntriesDescribe, Describes

\* A name that the chain does not have is in none of its scopes.
LEMMA LookedUpNowhere ==
  ASSUME STypeOK, NEW n, ScopeLookup(n) = 0
  PROVE  \A s \in DOMAIN scopes : LastOf(scopes[s], n) = 0
  BY ScopeLookupFinds DEF STypeOK

\* The parts that hold while scopes and tables stay as they are.
LEMMA ResolveSame ==
  ASSUME STypeOK, NamesResolve, Plain,
         kinds \subseteq kinds', UNCHANGED <<decls, ahead, fn, scopes, vars, scope_base>>
  PROVE  NamesResolve'
<1>1. OneScopeNext
  BY DEF NamesResolve, OneScope, OneScopeNext
<1>2. GlobalsByNameNext
  BY DEF NamesResolve, GlobalsByName, GlobalsByNameNext, Globals
<1>3. LocalsFoundNext
  BY DEF NamesResolve, LocalsFound, LocalsFoundNext, VarLookup, LookupNext
<1>4. Grows /\ OutsideNext = Outside /\ \A n : LookupNext(n) = VarLookup(n)
  BY SameDeclsGrow DEF OutsideNext, Outside, LookupNext, VarLookup
<1>5. GlobalsFoundNext
  <2>1. GlobalsFound
    BY DEF NamesResolve
  <2>2. scopes' = scopes /\ ahead' = ahead
    OBVIOUS
  <2> QED BY <1>4, <2>1, <2>2, MayBeGrows DEF GlobalsFound, GlobalsFoundNext
<1> QED BY <1>1, <1>2, <1>3, <1>5, ResolveFrom

\* The type checker meets a global.
LEMMA ResolveMeet ==
  ASSUME STypeOK, EntriesDescribe, GlobalsFirst, NothingYet, ScopesMatchBlocks, NamesResolve,
         Plain, Plain', NEW n \in Names, NEW q \in Qualifiers, MeetGlobal(n, q)
  PROVE  NamesResolve'
<1> DEFINE p == FALSE
<1>1. /\ decls' = Append(decls, Decl(n, q, 0, p)) /\ p \in BOOLEAN
      /\ UNCHANGED <<ahead, fn, functions, vars>> /\ functions = 0 /\ ahead = 0
      /\ scopes' = [scopes EXCEPT ![1] = AddVar(@, n, NextDecl)]
      /\ LastOf(scopes[1], n) = 0 /\ fn = 0
  <2>1. /\ UNCHANGED <<ahead, fn, functions, vars>> /\ functions = 0 /\ ahead = 0
        /\ decls' = Append(decls, Decl(n, q, 0, p))
        /\ scopes' = [scopes EXCEPT ![1] = AddVar(@, n, NextDecl)]
    BY DEF MeetGlobal
  <2>2. LastOf(scopes[1], n) = 0
    <3>1. LastOf(scopes[1], n) # 0 => "redeclare" \in kinds'
      BY DEF MeetGlobal, Using
    <3> QED BY <3>1 DEF Plain
  <2>3. fn = 0
    BY <2>1 DEF GlobalsFirst, STypeOK
  <2> QED BY <2>1, <2>2, <2>3
<1> HIDE DEF p
<1>2. 1 \in DOMAIN scopes /\ Len(scopes) = 1 /\ scopes[1] \in Seq(Entries)
  BY <1>1, CurrentScope DEF STypeOK
<1>3. DOMAIN scopes' = {1} /\ scopes'[1] = AddVar(scopes[1], n, NextDecl)
  BY <1>1, <1>2, ChainWith DEF STypeOK
<1>4. NextDecl \in Nat \ {0}
  BY NumbersAre
<1>5. \A m : LastOf(scopes'[1], m) = IF m = n THEN NextDecl ELSE LastOf(scopes[1], m)
  BY <1>1, <1>2, <1>3, <1>4, AddVarFinds
<1>6. OneScopeNext
  BY <1>3 DEF OneScopeNext
<1>7. LocalsFoundNext
  BY <1>3 DEF LocalsFoundNext
<1>8. GlobalsByNameNext
  <2>1. SUFFICES ASSUME NEW d \in DOMAIN decls', decls'[d].fn = 0
                 PROVE  LastOf(scopes'[1], decls'[d].name) = d
    BY DEF GlobalsByNameNext
  <2>2. CASE d = NextDecl
    BY <1>1, <1>5, <2>2, DeclsWith
  <2>3. CASE d \in DOMAIN decls
    <3>1. decls'[d] = decls[d]
      BY <1>1, <2>3, DeclsWith
    <3>2. LastOf(scopes[1], decls[d].name) = d
      BY <2>1, <2>3, <3>1 DEF NamesResolve, GlobalsByName, Globals
    <3>3. d # 0 /\ decls[d].name # n
      BY <1>1, <2>3, <3>2 DEF STypeOK
    <3> QED BY <1>5, <3>1, <3>2, <3>3
  <2>4. d = NextDecl \/ d \in DOMAIN decls
    BY <1>1, <2>1, DeclsWith, NumbersAre
  <2> QED BY <2>2, <2>3, <2>4
<1>9. GlobalsFoundNext
  <2>1. vars' = <<>> /\ OutsideNext = <<>> /\ ahead' = 0
    BY <1>1 DEF NothingYet, OutsideNext
  <2>2. ASSUME NEW m \in Names PROVE MayBeNext(LastOf(scopes'[1], m), 0)
    <3>1. LastOf(scopes'[1], m) \in Nat
      BY <1>2, <1>4, <1>5, LastOfFinds
    <3> QED BY <2>1, <3>1 DEF MayBeNext
  <2> QED BY <2>1, <2>2, LastOfEmpty DEF GlobalsFoundNext, LookupNext
<1> QED BY <1>6, <1>7, <1>8, <1>9, ResolveFrom

\* Codegen meets a global.
LEMMA ResolveGlobal ==
  ASSUME STypeOK, EntriesDescribe, GlobalsFirst, ScopesMatchBlocks, NamesResolve,
         Plain, Global
  PROVE  NamesResolve'
<1> DEFINE a == ahead + 1
           n == decls[a].name
<1>1. /\ a \in DOMAIN decls /\ decls[a].fn = 0 /\ a \in Nat \ {0} /\ ahead' = a
      /\ UNCHANGED <<kinds, decls, fn, scopes, scope_base>> /\ fn = 0
      /\ vars' = Append(vars, Entry(n, a))
  BY NextGlobal DEF Global, VarPush, STypeOK
<1>2. n \in Names
  <2>1. decls[a] \in Declarations
    BY <1>1 DEF STypeOK
  <2> QED BY <2>1 DEF Declarations
<1>3. Len(scopes) = 1 /\ DOMAIN scopes = {1} /\ 1 \in DOMAIN scopes
  BY <1>1, CurrentScope DEF STypeOK
<1>4. LastOf(scopes[1], n) = a
  BY <1>1 DEF NamesResolve, GlobalsByName, Globals
<1>0. a = ahead + 1 /\ n = decls[a].name /\ ahead \in Nat
  BY DEF STypeOK
<1> HIDE DEF a, n
<1>5. \A m : LastOf(vars', m) = IF m = n THEN a ELSE LastOf(vars, m)
  BY <1>1, <1>2, LastOfAppend DEF STypeOK
<1>6. OneScopeNext
  BY <1>1, <1>3 DEF OneScopeNext
<1>7. LocalsFoundNext
  BY <1>1, <1>3 DEF LocalsFoundNext
<1>8. GlobalsByNameNext
  BY <1>1 DEF NamesResolve, GlobalsByName, Globals, GlobalsByNameNext
<1>9. GlobalsFoundNext
  <2>1. SUFFICES ASSUME NEW m \in Names, LastOf(scopes[1], m) # 0
                 PROVE  MayBeNext(LastOf(scopes[1], m), LastOf(vars', m))
    BY <1>1 DEF GlobalsFoundNext, OutsideNext, LookupNext
  <2> DEFINE g == LastOf(scopes[1], m)
  <2>2. CASE m = n
    BY <1>1, <1>4, <1>5, <2>2 DEF MayBeNext
  <2>3. CASE m # n
    <3>1. MayBe(g, LastOf(vars, m))
      BY <1>1, <2>1 DEF NamesResolve, GlobalsFound, Outside
    <3>2. g \in DOMAIN decls /\ decls[g].name = m
      BY <1>3, <2>1, ScopeFinds
    <3>3. g # a /\ g \in Nat
      BY <1>0, <2>3, <3>2 DEF STypeOK
    <3> HIDE DEF g
    <3>4. (g <= ahead) <=> (g <= ahead')
      BY <1>0, <1>1, <3>3
    <3>5. MayBeNext(g, LastOf(vars, m))
      BY <1>1, <3>1, <3>4 DEF MayBe, MayBeNext
    <3> QED BY <1>5, <2>3, <3>5 DEF g
  <2> QED BY <2>2, <2>3
<1> QED BY <1>6, <1>7, <1>8, <1>9, ResolveFrom

\* A function without parameter begins.
LEMMA ResolveBeginPlain ==
  ASSUME STypeOK, ScopesMatchBlocks, NamesResolve, Plain, BeginPlain, functions \in Nat
  PROVE  NamesResolve'
<1>1. /\ UNCHANGED <<ahead, decls, vars>> /\ kinds \subseteq kinds' /\ fn = 0 /\ fn' # 0
      /\ scopes' = Append(scopes, <<>>) /\ scope_base' = Len(vars)
  BY DEF BeginPlain, STypeOK
<1>2. Len(scopes) = 1
  BY <1>1, CurrentScope
<1>3. /\ DOMAIN scopes' = {1, 2} /\ scopes'[1] = scopes[1] /\ scopes'[2] = <<>>
      /\ 1 \in DOMAIN scopes
  <2>1. <<>> \in Seq(Entries) /\ scopes \in Seq(Seq(Entries))
    BY DEF STypeOK
  <2>2. DOMAIN scopes' = 1..2 /\ scopes'[1] = scopes[1] /\ scopes'[2] = <<>>
    <3>1. /\ DOMAIN scopes' = 1..(Len(scopes) + 1) /\ DOMAIN scopes = 1..Len(scopes)
          /\ \A s \in DOMAIN scopes : scopes'[s] = scopes[s]
          /\ scopes'[Len(scopes) + 1] = <<>>
      BY <1>1, <2>1, ChainPushed
    <3>2. Len(scopes) + 1 = 2 /\ 1 \in DOMAIN scopes
      BY <1>2, <3>1
    <3> QED BY <3>1, <3>2
  <2> QED BY <1>2, <2>1, <2>2
<1>4. OneScopeNext
  BY <1>3 DEF OneScopeNext
<1>5. LocalsFoundNext
  BY <1>3, LastOfEmpty DEF LocalsFoundNext
<1>6. GlobalsByNameNext
  BY <1>1, <1>3 DEF NamesResolve, GlobalsByName, Globals, GlobalsByNameNext
<1>7. Grows
  BY <1>1, SameDeclsGrow
<1>8. GlobalsFoundNext
  <2>1. OutsideNext = vars /\ vars' = vars /\ Outside = vars
    BY <1>1 DEF OutsideNext, Outside, STypeOK
  <2>2. ASSUME NEW m \in Names, LastOf(scopes[1], m) # 0
        PROVE  MayBeNext(LastOf(scopes[1], m), LastOf(vars, m))
    <3>1. MayBe(LastOf(scopes[1], m), LastOf(vars, m))
      BY <2>1, <2>2 DEF NamesResolve, GlobalsFound
    <3> QED BY <1>1, <1>7, <3>1, MayBeGrows
  <2> QED BY <1>3, <2>1, <2>2 DEF GlobalsFoundNext, LookupNext
<1> QED BY <1>4, <1>5, <1>6, <1>8, ResolveFrom

\* A function with a parameter begins: in a plain program no global has its name.
LEMMA ResolveBeginWith ==
  ASSUME STypeOK, ScopesMatchBlocks, NamesResolve, Plain, NEW n \in Names, BeginWith(n)
  PROVE  NamesResolve'
<1> DEFINE p == TRUE
           f == functions + 1
           e == Entry(n, NextDecl)
<1>1. /\ ahead' = ahead /\ kinds \subseteq kinds' /\ fn = 0 /\ fn' # 0
      /\ decls' = Append(decls, Decl(n, "mut", f, p)) /\ p \in BOOLEAN /\ p
      /\ f \in Nat /\ f # 0 /\ "mut" \in Qualifiers
      /\ scopes' = Append(scopes, <<e>>)
      /\ vars' = Append(vars, e) /\ scope_base' = Len(vars) + 1
      /\ ScopeLookup(n) # 0 => "param" \in kinds'
  BY DEF BeginWith, STypeOK, Qualifiers
<1> HIDE DEF p, f
<1>2. Len(scopes) = 1 /\ 1 \in DOMAIN scopes
  BY <1>1, CurrentScope
<1>3. /\ e \in Entries /\ <<e>> \in Seq(Entries) /\ NextDecl \in Nat \ {0}
  BY EntryIs, NumbersAre
<1>4. /\ \A m : LastOf(<<e>>, m) = IF m = n THEN NextDecl ELSE 0
      /\ \A m : LastOf(vars', m) = IF m = n THEN NextDecl ELSE LastOf(vars, m)
  BY <1>1, <1>3, LastOfOne, LastOfAppend DEF STypeOK
<1> HIDE DEF e
<1>5. DOMAIN scopes' = {1, 2} /\ scopes'[1] = scopes[1] /\ scopes'[2] = <<e>>
  <2>1. scopes \in Seq(Seq(Entries))
    BY DEF STypeOK
  <2>2. DOMAIN scopes' = 1..2 /\ scopes'[1] = scopes[1] /\ scopes'[2] = <<e>>
    <3>1. /\ DOMAIN scopes' = 1..(Len(scopes) + 1) /\ DOMAIN scopes = 1..Len(scopes)
          /\ \A s \in DOMAIN scopes : scopes'[s] = scopes[s]
          /\ scopes'[Len(scopes) + 1] = <<e>>
      BY <1>1, <1>3, ChainPushed
    <3>2. Len(scopes) + 1 = 2 /\ 1 \in DOMAIN scopes
      BY <1>2, <3>1
    <3> QED BY <3>1, <3>2
  <2> QED BY <2>2
<1>6. OneScopeNext
  BY <1>5 DEF OneScopeNext
<1>7. LocalsFoundNext
  BY <1>4, <1>5 DEF LocalsFoundNext, LookupNext
<1>8. Grows /\ NextDecl \in DOMAIN decls' /\ decls'[NextDecl].fn = f /\ decls'[NextDecl].param
  BY <1>1, OneMoreGrows, DeclsWith
<1>9. GlobalsByNameNext
  <2>1. \A d \in DOMAIN decls' : d \in DOMAIN decls \/ d = NextDecl
    BY <1>1, DeclsWith, NumbersAre
  <2> QED BY <1>1, <1>5, <1>8, <2>1 DEF Grows, NamesResolve, GlobalsByName, Globals, GlobalsByNameNext
<1>10. GlobalsFoundNext
  <2>1. OutsideNext = vars' /\ Outside = vars
    <3>1. vars' \in Seq(Entries) /\ Len(vars') = Len(vars) + 1
      BY <1>1, <1>3 DEF STypeOK
    <3> QED BY <1>1, <3>1 DEF OutsideNext, Outside
  <2>2. ASSUME NEW m \in Names, LastOf(scopes[1], m) # 0
        PROVE  MayBeNext(LastOf(scopes[1], m), LastOf(vars', m))
    <3>1. CASE m = n
      <4>1. ScopeLookup(n) # 0
        BY <1>2, <2>2, <3>1, LookedUpNowhere
      <4> QED BY <1>1, <1>4, <1>8, <3>1, <4>1 DEF MayBeNext
    <3>2. CASE m # n
      <4>1. MayBe(LastOf(scopes[1], m), LastOf(vars, m))
        BY <2>1, <2>2 DEF NamesResolve, GlobalsFound
      <4>2. MayBeNext(LastOf(scopes[1], m), LastOf(vars, m))
        BY <1>1, <1>8, <4>1, MayBeGrows
      <4> QED BY <1>4, <3>2, <4>2
    <3> QED BY <3>1, <3>2
  <2> QED BY <1>5, <2>1, <2>2 DEF GlobalsFoundNext, LookupNext
<1> QED BY <1>6, <1>7, <1>9, <1>10, ResolveFrom

\* A function ends: its locals leave both tables.
LEMMA ResolveEnd ==
  ASSUME STypeOK, ScopesMatchBlocks, NamesResolve, Plain, EndFunction
  PROVE  NamesResolve'
<1>1. /\ UNCHANGED <<kinds, decls, ahead>> /\ fn # 0 /\ fn' = 0
      /\ scopes' = SubSeq(scopes, 1, Len(scopes) - 1) /\ vars' = SubSeq(vars, 1, scope_base)
      /\ open = <<>>
  BY DEF EndFunction, InBody, ScopePop, Front
<1>2. Len(scopes) = 2
  BY <1>1, CurrentScope
<1>3. DOMAIN scopes' = {1} /\ scopes'[1] = scopes[1]
  BY <1>1, <1>2 DEF STypeOK
<1>4. OneScopeNext
  BY <1>3 DEF OneScopeNext
<1>5. LocalsFoundNext
  BY <1>3 DEF LocalsFoundNext
<1>6. GlobalsByNameNext
  BY <1>1, <1>3 DEF NamesResolve, GlobalsByName, Globals, GlobalsByNameNext
<1>7. GlobalsFoundNext
  <2>1. OutsideNext = Outside /\ vars' = Outside /\ Grows
    BY <1>1, SameDeclsGrow DEF OutsideNext, Outside
  <2>2. ASSUME NEW m \in Names, LastOf(scopes[1], m) # 0
        PROVE  MayBeNext(LastOf(scopes[1], m), LastOf(Outside, m))
    <3>1. MayBe(LastOf(scopes[1], m), LastOf(Outside, m))
      BY <2>2 DEF NamesResolve, GlobalsFound
    <3> QED BY <1>1, <2>1, <3>1, MayBeGrows
  <2> QED BY <1>3, <2>1, <2>2 DEF GlobalsFoundNext, LookupNext
<1> QED BY <1>4, <1>5, <1>6, <1>7, ResolveFrom

\* What the two tables find with one more local, in the current scope or in a new one.
LEMMA ResolveDeclare ==
  ASSUME STypeOK, ScopesMatchBlocks, LocalsAreLast, NamesResolve, Plain, Plain',
         NEW n \in Names, NEW q \in Qualifiers, DeclareHere(n, q)
  PROVE  NamesResolve'
<1> DEFINE p == FALSE
           k == Len(scopes)
<1>1. /\ UNCHANGED <<ahead, fn, scope_base>> /\ kinds \subseteq kinds' /\ fn # 0 /\ fn \in Nat
      /\ decls' = Append(decls, Decl(n, q, fn, p)) /\ p \in BOOLEAN
      /\ scopes' = [scopes EXCEPT ![k] = AddVar(@, n, NextDecl)]
      /\ vars' = Append(vars, Entry(n, NextDecl))
      /\ FormOf(n) \subseteq kinds'
  BY DEF DeclareHere, STypeOK
<1>2. /\ k \in DOMAIN scopes /\ 1 \in DOMAIN scopes /\ k >= 2 /\ Last(scopes) = scopes[k]
      /\ k \in Nat /\ DOMAIN scopes = 1..k
  BY <1>1, CurrentScope DEF STypeOK
<1>3. LastOf(scopes[k], n) = 0 /\ (k > 2 => \A s \in DOMAIN scopes : LastOf(scopes[s], n) = 0)
  <2>1. LastOf(scopes[k], n) # 0 => "redeclare" \in FormOf(n)
    BY <1>2 DEF FormOf
  <2>2. LastOf(scopes[k], n) = 0
    BY <1>1, <2>1 DEF Plain
  <2>3. k > 2 /\ ScopeLookup(n) # 0 => "shadow" \in FormOf(n)
    BY <1>2, <2>2 DEF FormOf
  <2>4. k > 2 => ScopeLookup(n) = 0
    BY <1>1, <2>3 DEF Plain
  <2> QED BY <2>2, <2>4, LookedUpNowhere
<1>4. Entry(n, NextDecl) \in Entries /\ NextDecl \in Nat \ {0} /\ scopes[k] \in Seq(Entries)
  <2>1. scopes[k] \in Seq(Entries)
    BY <1>2 DEF STypeOK
  <2> QED BY <2>1, EntryIs, NumbersAre
<1>5. /\ DOMAIN scopes' = DOMAIN scopes
      /\ \A s \in DOMAIN scopes : s # k => scopes'[s] = scopes[s]
      /\ scopes'[k] = AddVar(scopes[k], n, NextDecl)
  BY <1>1, <1>2, ChainWith
<1> HIDE DEF p, k
<1>6. \A m : LastOf(scopes'[k], m) = IF m = n THEN NextDecl ELSE LastOf(scopes[k], m)
  BY <1>3, <1>4, <1>5, AddVarFinds
<1>7. \A m : LastOf(vars', m) = IF m = n THEN NextDecl ELSE LastOf(vars, m)
  BY <1>1, <1>4, LastOfAppend DEF STypeOK
\* Other names are found as before, and n is in no other block.
<1>8. \A s \in DOMAIN scopes : \A m : m # n => LastOf(scopes'[s], m) = LastOf(scopes[s], m)
  BY <1>5, <1>6
<1>9. \A s \in DOMAIN scopes : s # k /\ (s > 1 \/ k > 2) => LastOf(scopes'[s], n) = 0
  <2>1. SUFFICES ASSUME NEW s \in DOMAIN scopes, s # k, s > 1 \/ k > 2
                 PROVE  LastOf(scopes'[s], n) = 0
    OBVIOUS
  <2>2. k > 2
    BY <1>2, <2>1
  <2> QED BY <1>3, <1>5, <2>1, <2>2
<1>10. OneScopeNext
  <2>1. SUFFICES ASSUME NEW m \in Names, NEW s \in DOMAIN scopes, NEW t \in DOMAIN scopes,
                        s < t, t > 2
                 PROVE  LastOf(scopes'[s], m) = 0 \/ LastOf(scopes'[t], m) = 0
    BY <1>5 DEF OneScopeNext
  <2>2. CASE m # n
    BY <1>8, <2>1, <2>2 DEF NamesResolve, OneScope
  <2>3. CASE m = n
    <3>1. k > 2 /\ s # k
      BY <1>2, <2>1
    <3> QED BY <1>9, <2>1, <2>3, <3>1
  <2> QED BY <2>2, <2>3
<1>11. LocalsFoundNext
  <2>1. SUFFICES ASSUME NEW m \in Names, NEW s \in DOMAIN scopes, s > 1,
                        LastOf(scopes'[s], m) # 0
                 PROVE  LastOf(vars', m) = LastOf(scopes'[s], m)
    BY <1>5 DEF LocalsFoundNext, LookupNext
  <2>2. CASE m # n
    BY <1>7, <1>8, <2>1, <2>2 DEF NamesResolve, LocalsFound, VarLookup
  <2>3. CASE m = n
    <3>1. s = k
      BY <1>9, <2>1, <2>3
    <3> QED BY <1>6, <1>7, <2>3, <3>1
  <2> QED BY <2>2, <2>3
<1>12. Grows /\ decls'[NextDecl].fn = fn
  BY <1>1, OneMoreGrows
<1>13. scopes'[1] = scopes[1]
  BY <1>2, <1>5
<1>14. GlobalsByNameNext
  <2>1. \A d \in DOMAIN decls' : d \in DOMAIN decls \/ d = NextDecl
    BY <1>1, DeclsWith, NumbersAre
  <2> QED BY <1>1, <1>12, <1>13, <2>1
          DEF Grows, NamesResolve, GlobalsByName, Globals, GlobalsByNameNext
<1>15. GlobalsFoundNext
  <2>1. OutsideNext = Outside
    <3>1. scope_base <= Len(vars) /\ scope_base \in Nat /\ vars \in Seq(Entries)
      BY <1>1 DEF LocalsAreLast, STypeOK
    <3>2. SubSeq(vars', 1, scope_base) = SubSeq(vars, 1, scope_base)
      BY <1>1, <1>4, <3>1
    <3> QED BY <1>1, <3>2 DEF OutsideNext, Outside
  <2>2. SUFFICES ASSUME NEW m \in Names, LastOf(scopes[1], m) # 0
                 PROVE  /\ MayBeNext(LastOf(scopes[1], m), LastOf(Outside, m))
                        /\ (\A s \in DOMAIN scopes : s > 1 => LastOf(scopes'[s], m) = 0) =>
                             MayBeNext(LastOf(scopes[1], m), LastOf(vars', m))
    BY <1>5, <1>13, <2>1 DEF GlobalsFoundNext, LookupNext
  <2>3. MayBe(LastOf(scopes[1], m), LastOf(Outside, m))
    BY <2>2 DEF NamesResolve, GlobalsFound
  <2>4. MayBeNext(LastOf(scopes[1], m), LastOf(Outside, m))
    BY <1>1, <1>12, <2>3, MayBeGrows
  <2>5. ASSUME \A s \in DOMAIN scopes : s > 1 => LastOf(scopes'[s], m) = 0
        PROVE  MayBeNext(LastOf(scopes[1], m), LastOf(vars', m))
    <3>1. m # n
      BY <1>2, <1>4, <1>6, <2>5
    <3>2. MayBe(LastOf(scopes[1], m), LastOf(vars, m))
      BY <1>8, <2>2, <2>5, <3>1 DEF NamesResolve, GlobalsFound, VarLookup
    <3>3. MayBeNext(LastOf(scopes[1], m), LastOf(vars, m))
      BY <1>1, <1>12, <3>2, MayBeGrows
    <3> QED BY <1>7, <3>1, <3>3
  <2> QED BY <2>4, <2>5
<1> QED BY <1>10, <1>11, <1>14, <1>15, ResolveFrom

\* A block without variable begins.
LEMMA ResolveOpenPlain ==
  ASSUME STypeOK, ScopesMatchBlocks, NamesResolve, Plain, NEW block, OpenPlain(block)
  PROVE  NamesResolve'
<1> DEFINE k == Len(scopes) + 1
<1>1. /\ UNCHANGED <<ahead, decls, fn, vars, scope_base>> /\ kinds \subseteq kinds'
      /\ scopes' = Append(scopes, <<>>) /\ fn # 0
  BY DEF OpenPlain
<1>2. /\ DOMAIN scopes' = 1..k /\ DOMAIN scopes = 1..(k - 1) /\ k \in Nat /\ k > 2
      /\ \A s \in DOMAIN scopes : scopes'[s] = scopes[s]
      /\ scopes'[k] = <<>> /\ 1 \in DOMAIN scopes
  <2>1. <<>> \in Seq(Entries)
    OBVIOUS
  <2> QED BY <1>1, <2>1, ChainPushed, CurrentScope
<1>3. \A m : LastOf(scopes'[k], m) = 0
  BY <1>2, LastOfEmpty
<1> HIDE DEF k
<1>4. OneScopeNext
  <2>1. SUFFICES ASSUME NEW m \in Names, NEW s \in DOMAIN scopes', NEW t \in DOMAIN scopes',
                        s < t, t > 2
                 PROVE  LastOf(scopes'[s], m) = 0 \/ LastOf(scopes'[t], m) = 0
    BY DEF OneScopeNext
  <2>2. CASE t = k
    BY <1>3, <2>2
  <2>3. CASE t # k
    <3>1. s \in DOMAIN scopes /\ t \in DOMAIN scopes
      BY <1>2, <2>1, <2>3
    <3> QED BY <1>2, <2>1, <3>1 DEF NamesResolve, OneScope
  <2> QED BY <2>2, <2>3
<1>5. LocalsFoundNext
  <2>1. SUFFICES ASSUME NEW m \in Names, NEW s \in DOMAIN scopes', s > 1,
                        LastOf(scopes'[s], m) # 0
                 PROVE  LastOf(vars, m) = LastOf(scopes'[s], m)
    BY <1>1 DEF LocalsFoundNext, LookupNext
  <2>2. s # k
    BY <1>3, <2>1
  <2>3. s \in DOMAIN scopes
    BY <1>2, <2>1, <2>2
  <2> QED BY <1>2, <2>1, <2>3 DEF NamesResolve, LocalsFound, VarLookup
<1>6. GlobalsByNameNext
  BY <1>1, <1>2 DEF NamesResolve, GlobalsByName, Globals, GlobalsByNameNext
<1>7. GlobalsFoundNext
  <2>1. OutsideNext = Outside /\ Grows /\ vars' = vars /\ scopes'[1] = scopes[1]
    BY <1>1, <1>2, SameDeclsGrow DEF OutsideNext, Outside
  <2>2. SUFFICES ASSUME NEW m \in Names, LastOf(scopes[1], m) # 0
                 PROVE  /\ MayBeNext(LastOf(scopes[1], m), LastOf(Outside, m))
                        /\ (\A s \in DOMAIN scopes' : s > 1 => LastOf(scopes'[s], m) = 0) =>
                             MayBeNext(LastOf(scopes[1], m), LastOf(vars, m))
    BY <2>1 DEF GlobalsFoundNext, LookupNext
  <2>3. MayBe(LastOf(scopes[1], m), LastOf(Outside, m))
    BY <2>2 DEF NamesResolve, GlobalsFound
  <2>4. MayBeNext(LastOf(scopes[1], m), LastOf(Outside, m))
    BY <1>1, <2>1, <2>3, MayBeGrows
  <2>5. ASSUME \A s \in DOMAIN scopes' : s > 1 => LastOf(scopes'[s], m) = 0
        PROVE  MayBeNext(LastOf(scopes[1], m), LastOf(vars, m))
    <3>1. \A s \in DOMAIN scopes : s > 1 => LastOf(scopes[s], m) = 0
      BY <1>2, <2>5
    <3>2. MayBe(LastOf(scopes[1], m), LastOf(vars, m))
      BY <2>2, <3>1 DEF NamesResolve, GlobalsFound, VarLookup
    <3> QED BY <1>1, <2>1, <3>2, MayBeGrows
  <2> QED BY <2>4, <2>5
<1> QED BY <1>4, <1>5, <1>6, <1>7, ResolveFrom

\* A block with a variable of its own begins.
LEMMA ResolveOpenWith ==
  ASSUME STypeOK, ScopesMatchBlocks, LocalsAreLast, NamesResolve, Plain, Plain',
         NEW n \in Names, NEW block, OpenWithVariable(block, n)
  PROVE  NamesResolve'
<1> DEFINE k == Len(scopes) + 1
           p == FALSE
           e == Entry(n, NextDecl)
<1>1. /\ UNCHANGED <<ahead, fn, scope_base>> /\ kinds \subseteq kinds' /\ fn # 0 /\ fn \in Nat
      /\ decls' = Append(decls, Decl(n, "mut", fn, p)) /\ p \in BOOLEAN /\ "mut" \in Qualifiers
      /\ scopes' = Append(scopes, <<e>>)
      /\ vars' = Append(vars, e)
  BY DEF OpenWithVariable, InBody, Using, ScopePush, VarPush, STypeOK, Qualifiers
<1>2. \A s \in DOMAIN scopes : LastOf(scopes[s], n) = 0
  <2>1. ScopeLookup(n) # 0 => "shadow" \in kinds'
    BY DEF OpenWithVariable, Using
  <2> QED BY <2>1, LookedUpNowhere DEF Plain
<1>3. e \in Entries /\ <<e>> \in Seq(Entries) /\ NextDecl \in Nat \ {0}
  BY EntryIs, NumbersAre
<1>4. /\ \A m : LastOf(<<e>>, m) = IF m = n THEN NextDecl ELSE 0
      /\ \A m : LastOf(vars', m) = IF m = n THEN NextDecl ELSE LastOf(vars, m)
  BY <1>1, <1>3, LastOfOne, LastOfAppend DEF STypeOK
<1> HIDE DEF p, e
<1>5. /\ DOMAIN scopes' = 1..k /\ DOMAIN scopes = 1..(k - 1) /\ k \in Nat /\ k > 2
      /\ \A s \in DOMAIN scopes : scopes'[s] = scopes[s]
      /\ scopes'[k] = <<e>> /\ 1 \in DOMAIN scopes
  BY <1>1, <1>3, ChainPushed, CurrentScope
<1> HIDE DEF k
<1>6. \A s \in DOMAIN scopes' : s = k \/ s \in DOMAIN scopes
  BY <1>5
<1>7. OneScopeNext
  <2>1. SUFFICES ASSUME NEW m \in Names, NEW s \in DOMAIN scopes', NEW t \in DOMAIN scopes',
                        s < t, t > 2
                 PROVE  LastOf(scopes'[s], m) = 0 \/ LastOf(scopes'[t], m) = 0
    BY DEF OneScopeNext
  <2>2. s \in DOMAIN scopes
    BY <1>5, <2>1
  <2>3. CASE t = k
    BY <1>2, <1>4, <1>5, <2>2, <2>3
  <2>4. CASE t \in DOMAIN scopes
    BY <1>5, <2>1, <2>2, <2>4 DEF NamesResolve, OneScope
  <2> QED BY <1>6, <2>3, <2>4
<1>8. LocalsFoundNext
  <2>1. SUFFICES ASSUME NEW m \in Names, NEW s \in DOMAIN scopes', s > 1,
                        LastOf(scopes'[s], m) # 0
                 PROVE  LastOf(vars', m) = LastOf(scopes'[s], m)
    BY DEF LocalsFoundNext, LookupNext
  <2>2. CASE s = k
    BY <1>4, <1>5, <2>1, <2>2
  <2>3. CASE s \in DOMAIN scopes
    <3>1. scopes'[s] = scopes[s] /\ m # n
      BY <1>2, <1>5, <2>1, <2>3
    <3> QED BY <1>4, <2>1, <2>3, <3>1 DEF NamesResolve, LocalsFound, VarLookup
  <2> QED BY <1>6, <2>2, <2>3
<1>9. Grows /\ decls'[NextDecl].fn = fn
  BY <1>1, OneMoreGrows
<1>10. scopes'[1] = scopes[1]
  BY <1>5
<1>11. GlobalsByNameNext
  <2>1. \A d \in DOMAIN decls' : d \in DOMAIN decls \/ d = NextDecl
    <3>1. /\ DOMAIN decls = 1..Len(decls) /\ Len(decls) \in Nat
          /\ DOMAIN decls' = 1..(Len(decls) + 1)
      BY <1>1, DeclsWith
    <3> QED BY <3>1, NumbersAre
  <2> QED BY <1>1, <1>9, <1>10, <2>1
          DEF Grows, NamesResolve, GlobalsByName, Globals, GlobalsByNameNext
<1>12. GlobalsFoundNext
  <2>1. OutsideNext = Outside
    <3>1. scope_base <= Len(vars) /\ scope_base \in Nat /\ vars \in Seq(Entries)
      BY <1>1 DEF LocalsAreLast, STypeOK
    <3>2. SubSeq(vars', 1, scope_base) = SubSeq(vars, 1, scope_base)
      BY <1>1, <1>3, <3>1
    <3> QED BY <1>1, <3>2 DEF OutsideNext, Outside
  <2>2. SUFFICES ASSUME NEW m \in Names, LastOf(scopes[1], m) # 0
                 PROVE  /\ MayBeNext(LastOf(scopes[1], m), LastOf(Outside, m))
                        /\ (\A s \in DOMAIN scopes' : s > 1 => LastOf(scopes'[s], m) = 0) =>
                             MayBeNext(LastOf(scopes[1], m), LastOf(vars', m))
    BY <1>10, <2>1 DEF GlobalsFoundNext, LookupNext
  <2>3. m # n /\ LastOf(vars', m) = LastOf(vars, m)
    BY <1>2, <1>4, <1>5, <2>2
  <2>4. MayBe(LastOf(scopes[1], m), LastOf(Outside, m))
    BY <2>2 DEF NamesResolve, GlobalsFound
  <2>5. MayBeNext(LastOf(scopes[1], m), LastOf(Outside, m))
    BY <1>1, <1>9, <2>4, MayBeGrows
  <2>6. ASSUME \A s \in DOMAIN scopes' : s > 1 => LastOf(scopes'[s], m) = 0
        PROVE  MayBeNext(LastOf(scopes[1], m), LastOf(vars, m))
    <3>1. \A s \in DOMAIN scopes : s > 1 => LastOf(scopes[s], m) = 0
      BY <1>5, <2>6
    <3>2. MayBe(LastOf(scopes[1], m), LastOf(vars, m))
      BY <2>2, <3>1 DEF NamesResolve, GlobalsFound, VarLookup
    <3> QED BY <1>1, <1>9, <3>2, MayBeGrows
  <2> QED BY <2>3, <2>5, <2>6
<1> QED BY <1>7, <1>8, <1>11, <1>12, ResolveFrom

\* A name that a closed block had is not visible any more: no other scope had it.
LEMMA ResolveClose ==
  ASSUME STypeOK, ScopesMatchBlocks, NamesResolve, Plain, CloseBlock
  PROVE  NamesResolve'
<1> DEFINE k == Len(scopes)
<1>1. /\ UNCHANGED <<kinds, ahead, decls, fn, vars, scope_base>> /\ fn # 0
      /\ scopes' = Front(scopes) /\ open # <<>>
  BY DEF CloseBlock, InBody, ScopePop
<1>2. /\ k \in Nat /\ k > 2 /\ DOMAIN scopes = 1..k /\ DOMAIN scopes' = 1..(k - 1)
      /\ \A s \in DOMAIN scopes' : s \in DOMAIN scopes /\ scopes'[s] = scopes[s]
  BY <1>1, ChainPopped, CurrentScope
<1> HIDE DEF k
<1>3. OneScopeNext
  BY <1>2 DEF NamesResolve, OneScope, OneScopeNext
<1>4. LocalsFoundNext
  BY <1>1, <1>2 DEF NamesResolve, LocalsFound, LocalsFoundNext, VarLookup, LookupNext
<1>5. 1 \in DOMAIN scopes' /\ scopes'[1] = scopes[1] /\ 1 \in DOMAIN scopes
  BY <1>2
<1>6. GlobalsByNameNext
  BY <1>1, <1>5 DEF NamesResolve, GlobalsByName, Globals, GlobalsByNameNext
<1>7. GlobalsFoundNext
  <2>1. OutsideNext = Outside /\ Grows
    BY <1>1, SameDeclsGrow DEF OutsideNext, Outside
  <2>2. SUFFICES ASSUME NEW m \in Names, LastOf(scopes[1], m) # 0
                 PROVE  /\ MayBeNext(LastOf(scopes[1], m), LastOf(Outside, m))
                        /\ (\A s \in DOMAIN scopes' : s > 1 => LastOf(scopes'[s], m) = 0) =>
                             MayBeNext(LastOf(scopes[1], m), LastOf(vars, m))
    BY <1>1, <1>5, <2>1 DEF GlobalsFoundNext, LookupNext
  <2>3. MayBe(LastOf(scopes[1], m), LastOf(Outside, m))
    BY <2>2 DEF NamesResolve, GlobalsFound
  <2>4. MayBeNext(LastOf(scopes[1], m), LastOf(Outside, m))
    BY <1>1, <2>1, <2>3, MayBeGrows
  <2>5. ASSUME \A s \in DOMAIN scopes' : s > 1 => LastOf(scopes'[s], m) = 0
        PROVE  MayBeNext(LastOf(scopes[1], m), LastOf(vars, m))
    <3>1. k \in DOMAIN scopes /\ 1 < k
      BY <1>2
    <3>2. LastOf(scopes[k], m) = 0
      BY <1>2, <1>5, <2>2, <3>1 DEF NamesResolve, OneScope
    <3>3. ASSUME NEW s \in DOMAIN scopes, s > 1 PROVE LastOf(scopes[s], m) = 0
      <4>1. s = k \/ s \in DOMAIN scopes'
        BY <1>2
      <4> QED BY <1>2, <2>5, <3>2, <3>3, <4>1
    <3>4. MayBe(LastOf(scopes[1], m), LastOf(vars, m))
      BY <2>2, <3>3 DEF NamesResolve, GlobalsFound, VarLookup
    <3> QED BY <1>1, <2>1, <3>4, MayBeGrows
  <2> QED BY <2>4, <2>5
<1> QED BY <1>3, <1>4, <1>6, <1>7, ResolveFrom

\* Every step of a plain program leaves both tables in agreement.
LEMMA ResolveKept ==
  STypeOK /\ EntriesDescribe /\ GlobalsFirst /\ NothingYet /\ ScopesMatchBlocks
    /\ LocalsAreLast /\ NamesResolve /\ Forwards => NamesResolve'
<1> SUFFICES ASSUME STypeOK, EntriesDescribe, GlobalsFirst, NothingYet, ScopesMatchBlocks,
                    LocalsAreLast, NamesResolve, Forwards
             PROVE  NamesResolve'
  OBVIOUS
<1>1. CASE ~Plain'
  BY <1>1 DEF NamesResolve
<1>2. CASE Plain'
  <2>1. kinds \subseteq kinds' /\ Plain
    BY <1>2, KindsGrow DEF Plain
  <2>2. functions \in Nat
    BY DEF STypeOK
  <2>3. CASE \E n \in Names, q \in Qualifiers : MeetGlobal(n, q)
    BY <1>2, <2>1, <2>3, ResolveMeet
  <2>4. CASE Global
    BY <2>1, <2>4, ResolveGlobal
  <2>5. CASE BeginPlain
    BY <2>1, <2>2, <2>5, ResolveBeginPlain
  <2>6. CASE \E n \in Names : BeginWith(n)
    BY <2>1, <2>6, ResolveBeginWith
  <2>7. CASE EndFunction
    BY <2>1, <2>7, ResolveEnd
  <2>8. CASE \E n \in Names, q \in Qualifiers : DeclareHere(n, q)
    BY <1>2, <2>1, <2>8, ResolveDeclare
  <2>9. CASE \E block \in {"block", "using"} : OpenPlain(block)
    BY <2>1, <2>9, ResolveOpenPlain
  <2>10. CASE \E n \in Names, block \in {"block", "using"} : OpenWithVariable(block, n)
    BY <1>2, <2>1, <2>10, ResolveOpenWith
  <2>11. CASE CloseBlock
    BY <2>1, <2>11, ResolveClose
  <2>12. CASE \E n \in Names, op \in {"read", "assign", "increment"} : Touch(n, op)
    <3>1. UNCHANGED <<decls, ahead, fn, scopes, vars, scope_base>>
      BY <2>12 DEF Touch
    <3> QED BY <2>1, <3>1, ResolveSame
  <2>13. CASE Stays
    <3>1. UNCHANGED <<decls, ahead, fn, scopes, vars, scope_base>>
      BY <2>13 DEF Stays
    <3> QED BY <2>1, <3>1, ResolveSame
  <2> QED BY <2>3, <2>4, <2>5, <2>6, <2>7, <2>8, <2>9, <2>10, <2>11, <2>12, <2>13 DEF Forwards
<1> QED BY <1>1, <1>2

-----------------------------------------------------------------------------
\* What an accepted access finds: codegen takes the variable that the type checker took,
\* or for a global none or a parameter.
LEMMA AccessFinds ==
  ASSUME STypeOK, EntriesDescribe, NamesResolve, Plain, NEW n \in Names, ScopeLookup(n) # 0
  PROVE  \/ VarLookup(n) = ScopeLookup(n)
         \/ /\ ScopeLookup(n) \in Globals
            /\ \/ VarLookup(n) = IF ScopeLookup(n) <= ahead THEN ScopeLookup(n) ELSE 0
               \/ /\ "param" \in kinds
                  /\ VarLookup(n) \in DOMAIN decls /\ decls[VarLookup(n)].param
<1>1. PICK s \in DOMAIN scopes :
        /\ LastOf(scopes[s], n) # 0 /\ ScopeLookup(n) = LastOf(scopes[s], n)
        /\ \A t \in DOMAIN scopes : t > s => LastOf(scopes[t], n) = 0
  BY ScopeLookupFinds DEF STypeOK
<1>2. DOMAIN scopes \subseteq Nat \ {0}
  BY DEF STypeOK
<1>3. CASE s > 1
  BY <1>1, <1>3 DEF NamesResolve, LocalsFound
<1>4. CASE s = 1
  <2>1. MayBe(ScopeLookup(n), VarLookup(n))
    BY <1>1, <1>4 DEF NamesResolve, GlobalsFound
  <2>2. ScopeLookup(n) \in Globals
    BY <1>1, <1>4, ScopeFinds DEF Globals
  <2> QED BY <2>1, <2>2 DEF MayBe
<1> QED BY <1>2, <1>3, <1>4

\* Steps that touch no variable.
Silent == \/ access' = access /\ UNCHANGED open
          \/ access'.op = "none"

\* An access is recorded by three forms of step only.
LEMMA SilentOrNot ==
  STypeOK /\ Forwards =>
    \/ Silent
    \/ \E n \in Names, q \in Qualifiers : DeclareHere(n, q) /\ "self_init" \in kinds'
                                          /\ access'.op = "read"
    \/ \E n \in Names, op \in {"read", "assign", "increment"} : Touch(n, op)
<1> SUFFICES ASSUME STypeOK, Forwards
             PROVE  \/ Silent
                    \/ \E n \in Names, q \in Qualifiers :
                         DeclareHere(n, q) /\ "self_init" \in kinds' /\ access'.op = "read"
                    \/ \E n \in Names, op \in {"read", "assign", "increment"} : Touch(n, op)
  OBVIOUS
<1>1. NoAccess.op = "none" /\ \A a, b : Access("read", a, b).op = "read"
  BY DEF NoAccess, Access
<1>2. ASSUME NEW n \in Names, NEW q \in Qualifiers, MeetGlobal(n, q) PROVE Silent
  BY <1>2 DEF MeetGlobal, Silent
<1>3. CASE Global
  BY <1>3 DEF Global, Silent
<1>4. CASE BeginPlain
  BY <1>4 DEF BeginPlain, Silent
<1>5. ASSUME NEW n \in Names, BeginWith(n) PROVE Silent
  BY <1>5 DEF BeginWith, Silent
<1>6. CASE EndFunction
  BY <1>1, <1>6 DEF EndFunction, Silent
<1>7. ASSUME NEW n \in Names, NEW q \in Qualifiers, DeclareHere(n, q)
      PROVE  Silent \/ ("self_init" \in kinds' /\ access'.op = "read")
  BY <1>1, <1>7 DEF DeclareHere, Silent
<1>8. ASSUME NEW block \in {"block", "using"}, OpenPlain(block) PROVE Silent
  BY <1>1, <1>8 DEF OpenPlain, Silent
<1>9. ASSUME NEW n \in Names, NEW block \in {"block", "using"}, OpenWithVariable(block, n)
      PROVE  Silent
  BY <1>1, <1>9 DEF OpenWithVariable, Silent
<1>10. CASE CloseBlock
  BY <1>1, <1>10 DEF CloseBlock, Silent
<1>11. CASE Stays
  BY <1>11 DEF Stays, Silent
<1> QED BY <1>2, <1>3, <1>4, <1>5, <1>6, <1>7, <1>8, <1>9, <1>10, <1>11 DEF Forwards

\* No step takes a declaration back or changes it.
LEMMA DeclsGrow ==
  STypeOK /\ Forwards => Grows
<1> SUFFICES ASSUME STypeOK, Forwards PROVE Grows
  OBVIOUS
<1>1. ASSUME NEW n \in Names, NEW q \in Qualifiers, MeetGlobal(n, q) \/ DeclareHere(n, q)
      PROVE  Grows
  <2> DEFINE p == FALSE
  <2>1. PICK f \in Nat : decls' = Append(decls, Decl(n, q, f, p))
    BY <1>1 DEF MeetGlobal, DeclareHere, STypeOK
  <2>2. p \in BOOLEAN
    OBVIOUS
  <2> HIDE DEF p
  <2> QED BY <2>1, <2>2, OneMoreGrows
<1>2. ASSUME NEW n \in Names, BeginWith(n) PROVE Grows
  <2> DEFINE p == TRUE
             f == functions + 1
  <2>1. decls' = Append(decls, Decl(n, "mut", f, p)) /\ p \in BOOLEAN /\ f \in Nat
        /\ "mut" \in Qualifiers
    BY <1>2 DEF BeginWith, STypeOK, Qualifiers
  <2> HIDE DEF p, f
  <2> QED BY <2>1, OneMoreGrows
<1>3. ASSUME NEW n \in Names, NEW block \in {"block", "using"}, OpenWithVariable(block, n)
      PROVE  Grows
  <2> DEFINE p == FALSE
  <2>1. decls' = Append(decls, Decl(n, "mut", fn, p)) /\ p \in BOOLEAN /\ fn \in Nat
        /\ "mut" \in Qualifiers
    BY <1>3 DEF OpenWithVariable, STypeOK, Qualifiers
  <2> HIDE DEF p
  <2> QED BY <2>1, OneMoreGrows
<1>4. CASE \/ Global \/ BeginPlain \/ EndFunction \/ CloseBlock \/ Stays
           \/ \E block \in {"block", "using"} : OpenPlain(block)
           \/ \E n \in Names, op \in {"read", "assign", "increment"} : Touch(n, op)
  <2>1. decls' = decls
    BY <1>4 DEF Global, BeginPlain, EndFunction, CloseBlock, Stays, OpenPlain, Touch
  <2> QED BY <2>1, SameDeclsGrow
<1> QED BY <1>1, <1>2, <1>3, <1>4 DEF Forwards

\* An access that is accepted finds the variable in both passes, in the programs that
\* SameVariable is about.
LEMMA SameKept ==
  STypeOK /\ EntriesDescribe /\ NamesResolve /\ SameVariable /\ Forwards => SameVariable'
<1> SUFFICES ASSUME STypeOK, EntriesDescribe, NamesResolve, SameVariable, Forwards,
                    kinds' \subseteq {"increment"}, access'.op # "none"
             PROVE  access'.cg = access'.tc
  BY DEF SameVariable
<1>1. kinds \subseteq {"increment"}
  BY KindsGrow
<1>2. Plain /\ "param" \notin kinds /\ "forward" \notin kinds' /\ "self_init" \notin kinds'
  BY <1>1 DEF Plain
<1>3. CASE Silent
  BY <1>1, <1>3 DEF Silent, SameVariable
<1>4. ASSUME NEW n \in Names, NEW op \in {"read", "assign", "increment"}, Touch(n, op)
      PROVE  access'.cg = access'.tc
  <2>1. Accepted(n, op) /\ access' = Access(op, ScopeLookup(n), VarLookup(n))
    BY <1>4 DEF Touch, NoAccess, Access
  <2>2. access'.tc = ScopeLookup(n) /\ access'.cg = VarLookup(n)
    BY <2>1 DEF Access
  <2>3. ScopeLookup(n) # 0 /\ ScopeLookup(n) \in Nat /\ ahead \in Nat
    BY <2>1, NumbersAre DEF Accepted, STypeOK
  <2>4. ScopeLookup(n) \in Globals /\ ScopeLookup(n) > ahead => "forward" \in kinds'
    BY <1>4 DEF Touch, Using
  <2>5. ScopeLookup(n) \in Globals => ScopeLookup(n) <= ahead
    BY <1>2, <2>3, <2>4
  <2> QED BY <1>2, <2>2, <2>3, <2>5, AccessFinds
<1> QED BY <1>2, <1>3, <1>4, SilentOrNot

\* A store that is accepted keeps to the qualifier of the variable that codegen takes.
LEMMA WritesKept ==
  STypeOK /\ EntriesDescribe /\ ScopesMatchBlocks /\ NamesResolve /\ WritesAllowed /\ Forwards
    => WritesAllowed'
<1> SUFFICES ASSUME STypeOK, EntriesDescribe, ScopesMatchBlocks, NamesResolve, WritesAllowed,
                    Forwards, kinds' \subseteq {"param", "forward", "self_init"},
                    access'.op \in {"assign", "increment"}, access'.cg # 0
             PROVE  /\ decls'[access'.cg].qualifier # "const"
                    /\ decls'[access'.cg].qualifier = "shared" =>
                         \E i \in DOMAIN open' : open'[i] = "using"
  BY DEF WritesAllowed, Stored, InUsing
<1>1. kinds \subseteq {"param", "forward", "self_init"} /\ Plain /\ "increment" \notin kinds'
  BY KindsGrow DEF Plain
<1>2. Grows
  BY DeclsGrow
<1>3. CASE Silent
  <2>1. access' = access /\ open' = open
    BY <1>3 DEF Silent
  <2>2. access.cg \in DOMAIN decls
    BY <2>1 DEF EntriesDescribe
  <2>3. decls'[access.cg] = decls[access.cg]
    BY <1>2, <2>2 DEF Grows
  <2> QED BY <1>1, <2>1, <2>3 DEF WritesAllowed, Stored, InUsing
<1>4. ASSUME NEW n \in Names, NEW op \in {"read", "assign", "increment"}, Touch(n, op)
      PROVE  /\ decls'[access'.cg].qualifier # "const"
             /\ decls'[access'.cg].qualifier = "shared" =>
                  \E i \in DOMAIN open' : open'[i] = "using"
  <2>1. /\ Accepted(n, op) /\ access' = Access(op, ScopeLookup(n), VarLookup(n))
        /\ decls' = decls /\ open' = open
    BY <1>4 DEF Touch, NoAccess, Access
  <2>2. access'.op = op /\ access'.cg = VarLookup(n)
    BY <2>1 DEF Access
  <2>3. op = "assign"
    <3>1. op = "increment" => "increment" \in kinds'
      BY <1>4 DEF Touch, Using
    <3> QED BY <1>1, <2>2, <3>1
  <2>4. /\ ScopeLookup(n) # 0
        /\ decls[ScopeLookup(n)].qualifier # "const"
        /\ decls[ScopeLookup(n)].qualifier = "shared" => using_depth > 0
    BY <2>1, <2>3 DEF Accepted
  <2>5. \/ VarLookup(n) = ScopeLookup(n)
        \/ VarLookup(n) = 0
        \/ VarLookup(n) \in DOMAIN decls /\ decls[VarLookup(n)].param
    BY <1>1, <2>4, AccessFinds
  <2>6. decls[VarLookup(n)].qualifier # "const"
        /\ (decls[VarLookup(n)].qualifier = "shared" => using_depth > 0)
    <3>1. CASE VarLookup(n) = ScopeLookup(n)
      BY <2>4, <3>1
    <3>2. CASE VarLookup(n) \in DOMAIN decls /\ decls[VarLookup(n)].param
      BY <3>2 DEF EntriesDescribe
    <3> QED BY <2>2, <2>5, <3>1, <3>2
  <2>7. using_depth > 0 => \E i \in DOMAIN open : open[i] = "using"
    <3>1. using_depth = Cardinality(Usings(open))
      BY DEF ScopesMatchBlocks, Usings
    <3>2. Usings(open) = {} => using_depth = 0
      BY <3>1, FS_EmptySet
    <3> QED BY <3>2 DEF Usings
  <2> QED BY <2>1, <2>2, <2>6, <2>7
<1> QED BY <1>3, <1>4, SilentOrNot

-----------------------------------------------------------------------------
\* The invariant holds of the empty program.
LEMMA Initially == Init => SInv
<1> SUFFICES ASSUME Init PROVE SInv
  OBVIOUS
<1>1. /\ kinds = {} /\ decls = <<>> /\ ahead = 0 /\ fn = 0 /\ functions = 0 /\ open = <<>>
      /\ using_depth = 0 /\ vars = <<>> /\ scope_base = 0 /\ access = NoAccess
      /\ scopes = << <<>> >>
  BY DEF Init
<1>2. access.op = "none" /\ access.cg = 0 /\ access.tc = 0
  BY <1>1 DEF NoAccess, Access
<1>3. Len(scopes) = 1 /\ DOMAIN scopes = {1} /\ scopes[1] = <<>> /\ scopes \in Seq(Seq(Entries))
  <2>1. <<>> \in Seq(Entries)
    OBVIOUS
  <2> QED BY <1>1, <2>1
<1>4. STypeOK
  BY <1>1, <1>2, <1>3 DEF STypeOK
<1>5. EntriesDescribe
  BY <1>1, <1>2, <1>3 DEF EntriesDescribe
<1>6. GlobalsFirst /\ NothingYet /\ LocalsAreLast
  BY <1>1 DEF GlobalsFirst, NothingYet, LocalsAreLast
<1>7. ScopesMatchBlocks
  <2>1. {i \in DOMAIN open : open[i] = "using"} = {}
    BY <1>1
  <2> QED BY <1>1, <1>3, <2>1, FS_EmptySet DEF ScopesMatchBlocks
<1>8. NamesResolve
  <2>1. OneScope /\ LocalsFound
    BY <1>3 DEF OneScope, LocalsFound
  <2>2. GlobalsByName
    BY <1>1 DEF GlobalsByName, Globals
  <2>3. GlobalsFound
    BY <1>3, LastOfEmpty DEF GlobalsFound
  <2> QED BY <2>1, <2>2, <2>3 DEF NamesResolve
<1>9. SameVariable /\ WritesAllowed
  BY <1>2 DEF SameVariable, WritesAllowed, Stored
<1> QED BY <1>4, <1>5, <1>6, <1>7, <1>8, <1>9 DEF SInv

\* The invariant that the theorems below rest on: it holds at first and in every step.
THEOREM NamesInOrder == Spec => []SInv
<1>1. ASSUME SInv, [Next]_svars PROVE SInv'
  <2>1. /\ STypeOK /\ EntriesDescribe /\ GlobalsFirst /\ NothingYet /\ ScopesMatchBlocks
        /\ LocalsAreLast /\ NamesResolve /\ SameVariable /\ WritesAllowed
    BY <1>1 DEF SInv
  <2>2. Forwards
    BY <1>1, <2>1, StepForms
  <2>3. STypeOK' /\ EntriesDescribe' /\ GlobalsFirst' /\ NothingYet'
    BY <2>1, <2>2, TypesKept, EntriesKept, GlobalsKept, NothingYetKept
  <2>4. ScopesMatchBlocks' /\ LocalsAreLast' /\ NamesResolve'
    BY <2>1, <2>2, BlocksKept, LocalsKept, ResolveKept
  <2>5. SameVariable' /\ WritesAllowed'
    BY <2>1, <2>2, SameKept, WritesKept
  <2> QED BY <2>3, <2>4, <2>5 DEF SInv
<1> QED BY <1>1, Initially, PTL DEF Spec

\* In programs of any size that keep to the forms named in SameVariable, codegen loads
\* and stores the variable that the type checker has checked.
THEOREM PassesAgree == Spec => []SameVariable
<1>1. SInv => SameVariable
  BY DEF SInv
<1> QED BY <1>1, NamesInOrder, PTL

\* No accepted program of these forms has a store to a constant, or to a shared variable
\* outside of every using.
THEOREM StoresKeepQualifiers == Spec => []WritesAllowed
<1>1. SInv => WritesAllowed
  BY DEF SInv
<1> QED BY <1>1, NamesInOrder, PTL

\* The releases at a return walk over each local of the function once, and over nothing
\* else, whatever forms the program uses.
THEOREM ReturnReleasesLocals == Spec => []ReleasesOwn
<1>1. SInv => ReleasesOwn
  BY OwnFromLast DEF SInv
<1> QED BY <1>1, NamesInOrder, PTL

=============================================================================
