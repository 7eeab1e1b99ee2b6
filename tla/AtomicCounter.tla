--------------------------- MODULE AtomicCounter ---------------------------
(***************************************************************************)
(* What the program of tests/runtime/test_39_mutex_race.pc promises: every *)
(* worker adds one to the counter a given number of times, each addition   *)
(* in one step, and when all are done the total is printed.  A worker of a *)
(* program whose bodies may be left early can stop before its last round.  *)
(***************************************************************************)
EXTENDS Naturals

CONSTANTS Workers, Rounds, NotPrinted

VARIABLES value, left, mayStop, printed

Init ==
  /\ value = 0
  /\ left = [w \in Workers |-> Rounds]
  /\ mayStop \in BOOLEAN
  /\ printed = NotPrinted

Add(w) ==
  /\ left[w] > 0
  /\ value' = value + 1
  /\ left' = [left EXCEPT ![w] = @ - 1]
  /\ UNCHANGED <<mayStop, printed>>

Stop(w) ==
  /\ mayStop /\ left[w] > 0
  /\ left' = [left EXCEPT ![w] = 0]
  /\ UNCHANGED <<value, mayStop, printed>>

PrintTotal ==
  /\ \A w \in Workers : left[w] = 0
  /\ printed = NotPrinted
  /\ printed' = value
  /\ UNCHANGED <<value, left, mayStop>>

Next == (\E w \in Workers : Add(w) \/ Stop(w)) \/ PrintTotal

vars == <<value, left, mayStop, printed>>

Spec == Init /\ [][Next]_vars
=============================================================================
