---------------------------- MODULE MCArcRuntime ----------------------------
\* Model values for ArcRuntime: three threads, one of them with a single
\* variable, one plain object and two shared ones.
EXTENDS ArcRuntime

CONSTANTS t1, t2, t3, a1, a2, b1, b2, c1, plainObj, shared1, shared2

MCThreads == {t1, t2, t3}
MCObjects == {plainObj, shared1, shared2}
MCRefs    == {a1, a2, b1, b2, c1}
MCOwner   == [r \in MCRefs |->
                IF r \in {a1, a2} THEN t1 ELSE IF r = c1 THEN t3 ELSE t2]
MCShared  == {shared1, shared2}
=============================================================================
