---------------------------- MODULE MCArcCodegen ----------------------------
\* Model values for ArcCodegen and the programs that are checked.
EXTENDS ArcCodegen, TLC

\* Every string has one owner; parameters and globals are read, and globals replaced.
Disciplined == {"assign_global", "return_param", "return_global"}

\* Strings are dropped on the way.
Leaky == {"assign_global", "temp_arg", "literal_arg", "discard", "redeclare",
          "return_global", "return_void"}

\* Pointers that are not blocks at all.
NoHeaders == {"uninitialised", "literal_arg", "return_literal", "return_param"}

\* Two variables on one count.
Aliases == {"copy", "assign_global", "global_arg", "fstring_var",
            "return_local", "return_param", "return_global"}

\* A parameter replaced by the callee, and what is left of it.
Borrowed == {"assign_param", "assign_global", "return_param"}

MCPrograms == {Disciplined, Leaky, NoHeaders, Aliases, Borrowed}

ReturnsLocal == {{"return_local"}}

Interchangeable == Permutations(Objects)
=============================================================================
