-------------------------- MODULE MCThreadHandles --------------------------
\* Two callers and three threads for ThreadHandles; every thread has an answer of
\* its own.
EXTENDS ThreadHandles

CONSTANTS c1, c2, h1, h2, h3

MCCallers == {c1, c2}
MCHandles == {h1, h2, h3}
MCAnswer  == [h \in MCHandles |-> IF h = h1 THEN 1 ELSE IF h = h2 THEN 2 ELSE 3]
=============================================================================
