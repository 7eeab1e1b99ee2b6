--------------------------- MODULE MCUsingCounter ---------------------------
\* Three workers for UsingCounter, as in the test program, and two programs: the
\* test program itself, and one whose body may be left in every way.
EXTENDS UsingCounter

CONSTANTS w1, w2, w3

MCOrder    == <<w1, w2, w3>>
MCAnswer   == [w \in {w1, w2, w3} |-> 1]
MCPrograms == {{"end"}, {"end", "return", "break", "continue"}}
=============================================================================
