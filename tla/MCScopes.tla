------------------------------ MODULE MCScopes ------------------------------
\* Programs that use at most one of the forms.
EXTENDS Scopes, TLC

CONSTANTS x, y

MCNames == {x, y}
NameSymmetry == Permutations(MCNames)

MCPrograms == {{}} \cup {{f} : f \in Forms}
=============================================================================
