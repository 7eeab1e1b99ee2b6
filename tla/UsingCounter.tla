---------------------------- MODULE UsingCounter ----------------------------
(***************************************************************************)
(* A threaded program as codegen compiles it, on top of ThreadHandles and  *)
(* Mutex: tests/runtime/test_39_mutex_race.pc.  main creates a mutex and   *)
(* starts the workers; each worker runs                                    *)
(*                                                                         *)
(*     for i in 0..Rounds { using(m) { counter = counter + 1 } }           *)
(*                                                                         *)
(* codegen_using emits a call of enter, the body, and a call of exit after *)
(* the body; nothing is emitted for a body that is left by a return, a     *)
(* break or a continue, whose branch goes past the call of exit.           *)
(***************************************************************************)
EXTENDS Integers, FiniteSets, Sequences

CONSTANTS
  Order,       \* the workers, in the order main starts and joins them
  Main, TheMutex,  \* the main thread; the mutex
  Rounds,      \* iterations of each worker
  Programs,    \* the programs to consider, see leaves
  Answer,      \* what the workers return
  NoThread, NoMutex, NoHandle, NotPrinted

\* A program is the set of ways in which its body may be left.
ASSUME ProgramsAssumption ==
  Programs \subseteq SUBSET {"end", "return", "break", "continue"}
ASSUME RoundsAssumption == Rounds \in Nat

Workers == {Order[i] : i \in DOMAIN Order}

\* main starts one worker or more, each one once, and the values that stand for no
\* thread, no mutex and no handle are none.
ASSUME OrderAssumption ==
  /\ Len(Order) \in Nat \ {0} /\ DOMAIN Order = 1..Len(Order)
  /\ \A i, j \in DOMAIN Order : Order[i] = Order[j] => i = j
ASSUME ThreadsAssumption ==
  /\ Main \notin Workers /\ NoThread \notin Workers \cup {Main}
  /\ NoMutex # TheMutex /\ NoHandle \notin Workers
ASSUME AnswerAssumption == Answer \in [Workers -> Int]

VARIABLES
  leaves,   \* the program: how the body of its using may be left
  mutex, mcall,                                     \* Mutex
  handle, thread, joined, used, tcall, undefined,   \* ThreadHandles
  main,     \* main's program counter and the worker it has got to
  at,       \* at[w]: where worker w is
  round,    \* round[w]: its loop variable
  loaded,   \* loaded[w]: the value of counter it has read
  counter, printed

M == INSTANCE Mutex WITH Threads <- Workers \cup {Main}, Mutexes <- {TheMutex}
T == INSTANCE ThreadHandles WITH
       Callers <- {Main}, Handles <- Workers, Uses <- 1, CreateFails <- FALSE

mvars == <<mutex, mcall>>
tvars == <<handle, thread, joined, used, tcall, undefined>>
wvars == <<at, round, loaded, counter>>
vars  == <<leaves, mvars, tvars, wvars, main, printed>>

Init ==
  /\ leaves \in Programs
  /\ M!MInit /\ T!TInit
  /\ main = [at |-> "create", next |-> 1]
  /\ at = [w \in Workers |-> "head"]
  /\ round = [w \in Workers |-> 0]
  /\ loaded = [w \in Workers |-> 0]
  /\ counter = 0
  /\ printed = NotPrinted

-----------------------------------------------------------------------------
\* main: m = mutex.create()
CreateMutex ==
  /\ main.at = "create"
  /\ M!Create(Main, TheMutex)
  /\ main' = [at |-> "run", next |-> 1]
  /\ UNCHANGED <<leaves, tvars, wvars, printed>>

\* The loop over the workers in main: all are started, then all are waited for.
Advance(here, there) ==
  main' = IF main.next < Len(Order) THEN [at |-> here, next |-> main.next + 1]
          ELSE [at |-> there, next |-> 1]

\* threads.run(increment)
RunWorker ==
  /\ main.at = "run"
  /\ T!ThreadRun(Main, Order[main.next])
  /\ Advance("run", "get")
  /\ UNCHANGED <<leaves, mvars, wvars, printed>>

\* t.get()
GetWorker ==
  /\ main.at = "get"
  /\ T!Call(Main, Order[main.next], "get")
  /\ main' = [main EXCEPT !.at = "getting"]
  /\ UNCHANGED <<leaves, mvars, wvars, printed>>

InsideGet ==
  /\ main.at = "getting"
  /\ T!Proceed(Main)
  /\ IF tcall'[Main].op = "got" THEN Advance("get", "print") ELSE UNCHANGED main
  /\ UNCHANGED <<leaves, mvars, wvars, printed>>

\* Mutant: main does not wait for the workers.
PrintAtOnce ==
  /\ main.at = "get"
  /\ printed' = counter
  /\ main' = [main EXCEPT !.at = "destroy"]
  /\ UNCHANGED <<leaves, mvars, tvars, wvars>>

\* console.println_int(counter); mutex.destroy(m)
PrintTotal ==
  /\ main.at = "print"
  /\ printed' = counter
  /\ main' = [main EXCEPT !.at = "destroy"]
  /\ UNCHANGED <<leaves, mvars, tvars, wvars>>

DestroyMutex ==
  /\ main.at = "destroy"
  /\ M!Destroy(Main, TheMutex)
  /\ main' = [main EXCEPT !.at = "end"]
  /\ UNCHANGED <<leaves, tvars, wvars, printed>>

-----------------------------------------------------------------------------
Executing(w) == thread[w] = "running"

Jump(w, place) == at' = [at EXCEPT ![w] = place]

\* Mutant: the type of the resource is not resolved, no call of enter is emitted.
BodyWithoutEnter(w) ==
  /\ Executing(w) /\ at[w] = "head" /\ round[w] < Rounds
  /\ Jump(w, "load")
  /\ UNCHANGED <<leaves, mvars, tvars, round, loaded, counter, main, printed>>

\* The condition of the loop holds: using(m) calls enter.
UsingEnter(w) ==
  /\ Executing(w) /\ at[w] = "head" /\ round[w] < Rounds
  /\ M!Enter(w, TheMutex)
  /\ Jump(w, "entering")
  /\ UNCHANGED <<leaves, tvars, round, loaded, counter, main, printed>>

\* Inside mutex_enter or mutex_exit.
InsideMutex(w) ==
  /\ Executing(w) /\ at[w] \in {"entering", "exiting"}
  /\ M!Proceed(w)
  /\ IF mcall'[w].at # "idle" THEN UNCHANGED <<at, round>>
     ELSE IF at[w] = "entering" THEN Jump(w, "load") /\ UNCHANGED round
     ELSE Jump(w, "head") /\ round' = [round EXCEPT ![w] = @ + 1]
  /\ UNCHANGED <<leaves, tvars, loaded, counter, main, printed>>

\* counter = counter + 1: the load ...
LoadCounter(w) ==
  /\ Executing(w) /\ at[w] = "load"
  /\ loaded' = [loaded EXCEPT ![w] = counter]
  /\ Jump(w, "store")
  /\ UNCHANGED <<leaves, mvars, tvars, round, counter, main, printed>>

\* ... and the store.
StoreCounter(w) ==
  /\ Executing(w) /\ at[w] = "store"
  /\ counter' = loaded[w] + 1
  /\ Jump(w, "stored")
  /\ UNCHANGED <<leaves, mvars, tvars, round, loaded, main, printed>>

\* Mutant: no call of exit is emitted.
BodyWithoutExit(w) ==
  /\ Executing(w) /\ at[w] = "stored" /\ "end" \in leaves
  /\ round' = [round EXCEPT ![w] = @ + 1]
  /\ Jump(w, "head")
  /\ UNCHANGED <<leaves, mvars, tvars, loaded, counter, main, printed>>

\* The end of the body: exit is called.
UsingExit(w) ==
  /\ Executing(w) /\ at[w] = "stored" /\ "end" \in leaves
  /\ M!Exit(w, TheMutex)
  /\ Jump(w, "exiting")
  /\ UNCHANGED <<leaves, tvars, round, loaded, counter, main, printed>>

\* A branch out of the body: to the loop's step, to its end, or a return.
LeaveBody(w) ==
  /\ Executing(w) /\ at[w] = "stored"
  /\ \/ /\ "continue" \in leaves
        /\ Jump(w, "head") /\ round' = [round EXCEPT ![w] = @ + 1]
     \/ /\ {"break", "return"} \cap leaves # {}
        /\ Jump(w, "returned") /\ UNCHANGED round
  /\ UNCHANGED <<leaves, mvars, tvars, loaded, counter, main, printed>>

LoopEnds(w) ==
  /\ Executing(w) /\ at[w] = "head" /\ round[w] = Rounds
  /\ Jump(w, "returned")
  /\ UNCHANGED <<leaves, mvars, tvars, round, loaded, counter, main, printed>>

\* The trampoline goes on when the worker's function has returned.
Trampoline(w) ==
  /\ at[w] = "returned"
  /\ T!Trampoline(w)
  /\ UNCHANGED <<leaves, mvars, wvars, main, printed>>

-----------------------------------------------------------------------------
MainStep ==
  CreateMutex \/ RunWorker \/ GetWorker \/ InsideGet \/ PrintTotal \/ DestroyMutex

WorkerStep(w) ==
  \/ UsingEnter(w) \/ InsideMutex(w) \/ LoadCounter(w) \/ StoreCounter(w)
  \/ UsingExit(w) \/ LeaveBody(w) \/ LoopEnds(w) \/ Trampoline(w)

Next == MainStep \/ \E w \in Workers : WorkerStep(w)

\* The scheduler runs every thread that is not blocked.
Fairness == WF_vars(MainStep) /\ \A w \in Workers : WF_vars(WorkerStep(w))

Spec == Init /\ [][Next]_vars /\ Fairness

-----------------------------------------------------------------------------
InBody(w) == at[w] \in {"load", "store", "stored"}

\* The additions worker w has stored.
Stored(w) ==
  IF \/ at[w] \in {"stored", "exiting"}
     \/ at[w] = "returned" /\ round[w] < Rounds
  THEN round[w] + 1 ELSE round[w]

\* Every body comes to its end, where the call of exit is.
Disciplined == leaves = {"end"}

\* Two threads are never in the body of a using of the same mutex, even when other
\* threads have left theirs without the call of exit (src/codegen/stmt.c:800-843).
MutualExclusion ==
  \A v, w \in Workers : InBody(v) /\ InBody(w) => v = w

\* The mutex is alive whenever a thread is inside a call on it, though main destroys
\* it without asking the workers, and no freed handle is read or written
\* (stdlib/mutex/mutex.c:17-23, stdlib/threads/threads.c:50).
NoUseAfterFree ==
  /\ ~undefined
  /\ \A t \in Workers \cup {Main} :
       mcall[t].on = TheMutex => mutex[TheMutex].state = "live"

\* A disciplined program ends: no thread waits for the mutex, and main for no
\* thread, for ever (src/codegen/stmt.c:820-843, stdlib/threads/threads.c:45-54).
Terminates == Disciplined => <>(main.at = "end")

Counter ==
  INSTANCE AtomicCounter WITH
    value   <- counter,
    left    <- [w \in Workers |-> IF at[w] = "returned" THEN 0 ELSE Rounds - Stored(w)],
    mayStop <- ~Disciplined

\* The load and the store between enter and exit are one atomic addition, main
\* prints once, when every worker is done, and a worker stops early only in a
\* program with a branch out of its body.
ImplementsAtomicCounter == Counter!Spec
=============================================================================
