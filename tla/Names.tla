------------------------------- MODULE Names -------------------------------
(***************************************************************************)
(* The types that decide which function a call reaches, and the names that *)
(* functions have in the object file: _pC, the name in the source, and the *)
(* letters of the parameter types (codegen/mangle.c).  A name is a         *)
(* sequence of characters, or of longer pieces where these do not matter.  *)
(***************************************************************************)
EXTENDS Integers, Sequences, SequencesExt

\* The letter of a type in a mangled name.
LetterOf ==
  [int |-> "2", long |-> "2", i64 |-> "2", u64 |-> "2", float |-> "f", f64 |-> "f",
   bool |-> "b", string |-> "s", void |-> "v", char |-> "c", i8 |-> "8", u8 |-> "8",
   i16 |-> "6", u16 |-> "6", i32 |-> "4", u32 |-> "4", i128 |-> "Q", u128 |-> "Q",
   isize |-> "S", usize |-> "U", f32 |-> "F"]

\* Types that have a name but no letter: their first character.
InitialOf == [File |-> "F", Thread |-> "T", i64 |-> "i", u64 |-> "u"]

Pointers == {"int*", "string*"}

\* resolve_type: what LLVM knows of a type.  All pointers are one type, and the handle of
\* a class is an integer.
MachineOf ==
  [int |-> "i64", long |-> "i64", i64 |-> "i64", u64 |-> "i64", isize |-> "i64", usize |-> "i64",
   float |-> "double", f64 |-> "double", f32 |-> "single", bool |-> "i1", void |-> "void",
   char |-> "i8", i8 |-> "i8", u8 |-> "i8", i16 |-> "i16", u16 |-> "i16", i32 |-> "i32",
   u32 |-> "i32", i128 |-> "i128", u128 |-> "i128"]
MachineType(t, classes) ==
  CASE t \in DOMAIN MachineOf -> MachineOf[t]
    [] t \in classes \ DOMAIN MachineOf -> "i64"
    [] OTHER -> "pointer"
MachineTypes(ts, classes) == [i \in DOMAIN ts |-> MachineType(ts[i], classes)]

WidthOf == [i1 |-> 1, i8 |-> 8, i16 |-> 16, i32 |-> 32, i64 |-> 64, i128 |-> 128]
Narrower(a, b) == a \in DOMAIN WidthOf /\ b \in DOMAIN WidthOf /\ WidthOf[a] < WidthOf[b]

-----------------------------------------------------------------------------
(* The type checker's types (resolve_tc_type): int and long are one.       *)
IntKinds == {"int", "char", "i8", "u8", "i16", "u16", "i32", "u32", "i64", "u64", "i128", "u128",
             "isize", "usize"}
FloatKinds == {"float", "f32", "f64"}

KindOf(t, classes) ==
  CASE t = "long" -> "int"
    [] t \in (DOMAIN LetterOf \cup Pointers \cup classes) \ {"long"} -> t
    [] OTHER -> "unknown"
KindsOf(ts, classes) == [i \in DOMAIN ts |-> KindOf(ts[i], classes)]

\* is_coercible
Coercible(from, to) ==
  \/ from = to
  \/ "unknown" \in {from, to}
  \/ {from, to} \subseteq IntKinds \cup FloatKinds
  \/ from = "bool" /\ to \in IntKinds
  \/ from \in IntKinds /\ to = "bool"

-----------------------------------------------------------------------------
(* Mangled names.                                                          *)

\* mangle_name, and the same table in parse_header_file
Letters(t) ==
  CASE t \in Pointers -> <<"p">>
    [] t \in DOMAIN LetterOf -> <<LetterOf[t]>>
    [] OTHER -> <<"p", InitialOf[t]>>

\* The table in parse_pc_file.
PcLetters(t) ==
  CASE t \in {"int", "long"} -> <<"i">>
    [] t \in {"i64", "u64"} -> <<"p", InitialOf[t]>>
    [] OTHER -> Letters(t)

Mangled(name, letters) == <<"_pC">> \o name \o letters
MangledAs(name, params, Of(_)) == Mangled(name, FlattenSeq([i \in DOMAIN params |-> Of(params[i])]))
MangleName(name, params) == MangledAs(name, params, Letters)

Qualified(module, name) == <<module, ".">> \o name
=============================================================================
