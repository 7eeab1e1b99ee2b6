------------------------- MODULE UsingCounterProofs -------------------------
(***************************************************************************)
(* Proofs about UsingCounter for any number of workers and rounds and any  *)
(* way of leaving the body: the bodies exclude each other, the mutex and   *)
(* the handles outlive their users, and the program implements the atomic  *)
(* counter.                                                                *)
(***************************************************************************)
EXTENDS UsingCounter, TLAPS

USE RoundsAssumption, OrderAssumption, ThreadsAssumption

Places == {"head", "entering", "load", "store", "stored", "exiting", "returned"}

\* main has not started worker i, or has got its answer.
Unstarted(i) == main.at = "create" \/ (main.at = "run" /\ i >= main.next)

Fetched(i) ==
  \/ main.at \in {"print", "destroy", "end"}
  \/ main.at \in {"get", "getting"} /\ i < main.next

Blocks == [state : {"none", "live", "freed"}, result : Int, done : BOOLEAN]

GetCalls == [op : {"none", "get", "got"}, on : Workers \cup {NoHandle},
             at : {"idle", "join", "read", "free"}, result : Int]

ThreadTypes ==
  /\ main \in [at : {"create", "run", "get", "getting", "print", "destroy", "end"}, next : 1..Len(Order)]
  /\ handle \in [Workers -> Blocks]
  /\ thread \in [Workers -> {"none", "running", "returned", "ended"}]
  /\ joined \in [Workers -> BOOLEAN]
  /\ tcall \in [{Main} -> GetCalls]
  /\ at \in [Workers -> Places]
  /\ ~undefined

\* The call main is in.
MainCall ==
  IF main.at = "getting"
    THEN /\ tcall[Main].op = "get" /\ tcall[Main].at \in {"join", "read", "free"}
         /\ tcall[Main].on = Order[main.next]
         /\ tcall[Main].at # "join" => thread[Order[main.next]] = "ended"
    ELSE tcall[Main].at = "idle"

\* What main's loops have come to says how far worker i can be.
Follows(i) ==
  LET w == Order[i]
  IN  /\ Unstarted(i) <=> thread[w] = "none"
      /\ Unstarted(i) => handle[w].state = "none" /\ at[w] = "head"
      /\ ~Unstarted(i) /\ ~Fetched(i) => handle[w].state = "live"
      /\ Fetched(i) => thread[w] = "ended"
      /\ thread[w] \in {"returned", "ended"} => at[w] = "returned"
      /\ joined[w] => \/ Fetched(i)
                      \/ main.at = "getting" /\ i = main.next /\ tcall[Main].at # "join"

ThreadsInv == ThreadTypes /\ MainCall /\ \A i \in DOMAIN Order : Follows(i)

MutexTypes ==
  /\ mutex \in [{TheMutex} -> [state : {"none", "live", "freed"},
                               owner : Workers \cup {Main, NoThread}, lock_count : Int]]
  /\ mcall \in [Workers \cup {Main} ->
                  [at : {"idle", "lock", "increment", "incremented", "decrement", "decremented", "unlock"},
                   on : {TheMutex, NoMutex}, loaded : Int, result : Int]]

\* The call of enter or exit that worker w is in.
WorkerCall(w) ==
  /\ at[w] = "entering" => mcall[w].at \in {"lock", "increment", "incremented"} /\ mcall[w].on = TheMutex
  /\ at[w] = "exiting" => mcall[w].at \in {"decrement", "decremented", "unlock"} /\ mcall[w].on = TheMutex
  /\ at[w] \notin {"entering", "exiting"} => mcall[w].at = "idle" /\ mcall[w].on = NoMutex

\* Between the lock of enter and the unlock of exit.
Inside(w) ==
  \/ InBody(w) \/ at[w] = "exiting"
  \/ at[w] = "entering" /\ mcall[w].at # "lock"

\* Between the lock and the unlock of pthread the mutex is the worker's.
MutexInv ==
  /\ MutexTypes
  /\ \A w \in Workers : WorkerCall(w) /\ (Inside(w) => mutex[TheMutex].owner = w)
  /\ mcall[Main].on = NoMutex
  /\ main.at \in {"run", "get", "getting", "print", "destroy"} <=> mutex[TheMutex].state = "live"

\* No deadlock in a disciplined program: whoever has the mutex is on the way to its
\* unlock, so nobody waits for a thread that has gone past the call of exit, returned
\* or ended, or for main (src/codegen/stmt.c:820-843).
HeldOnlyInside ==
  Disciplined => mutex[TheMutex].owner \in {NoThread} \cup {w \in Workers : Inside(w)}

\* The loop of a worker, what it has read of the counter, and what main has printed.
LoopInv ==
  /\ round \in [Workers -> 0..Rounds] /\ loaded \in [Workers -> Int] /\ counter \in Int
  /\ \A w \in Workers : /\ at[w] \in Places \ {"head", "returned"} => round[w] < Rounds
                        /\ at[w] = "store" => loaded[w] = counter
  /\ main.at \notin {"destroy", "end"} => printed = NotPrinted

UInv == ThreadsInv /\ MutexInv /\ LoopInv /\ HeldOnlyInside

-----------------------------------------------------------------------------
\* Main starts every worker, and only workers.
LEMMA WorkerOrder ==
  /\ \A i \in DOMAIN Order : Order[i] \in Workers
  /\ \A w \in Workers : \E i \in DOMAIN Order : w = Order[i]
BY DEF Workers

\* Storing a field of a handle stores that field and no other.
LEMMA HandleTyped ==
  ASSUME handle \in [Workers -> Blocks], NEW w \in Workers,
         NEW s \in {"none", "live", "freed"}, NEW b \in BOOLEAN
  PROVE  /\ [handle EXCEPT ![w].state = s] \in [Workers -> Blocks]
         /\ [handle EXCEPT ![w].state = s][w].state = s
         /\ \A n \in Int : /\ [handle EXCEPT ![w].result = n] \in [Workers -> Blocks]
                          /\ [handle EXCEPT ![w].result = n][w].state = handle[w].state
         /\ [handle EXCEPT ![w].done = b] \in [Workers -> Blocks]
         /\ [handle EXCEPT ![w].done = b][w].state = handle[w].state
BY DEF Blocks

\* The steps of a call of get or join stay within its type.
LEMMA GetCallTyped ==
  ASSUME tcall \in [{Main} -> GetCalls], NEW a \in {"idle", "join", "read", "free"},
         NEW o \in {"none", "get", "got"}
  PROVE  /\ [tcall EXCEPT ![Main] = [tcall[Main] EXCEPT !.at = a]] \in [{Main} -> GetCalls]
         /\ [tcall EXCEPT ![Main] = [tcall[Main] EXCEPT !.op = o, !.at = a]] \in [{Main} -> GetCalls]
         /\ \A n \in Int : [tcall EXCEPT ![Main].at = a, ![Main].result = n] \in [{Main} -> GetCalls]
BY DEF GetCalls

\* The invariant holds when main begins.
LEMMA InitUInv == Init => UInv
<1> SUFFICES ASSUME Init PROVE UInv
  OBVIOUS
<1>1. /\ main = [at |-> "create", next |-> 1]
      /\ at = [w \in Workers |-> "head"] /\ round = [w \in Workers |-> 0]
      /\ loaded = [w \in Workers |-> 0] /\ counter = 0 /\ printed = NotPrinted
  BY DEF Init
<1>2. ThreadsInv
  <2>1. ThreadTypes
    BY <1>1 DEF Init, T!TInit, T!NoCall, ThreadTypes, Places, Blocks, GetCalls
  <2>2. MainCall
    BY <1>1 DEF Init, T!TInit, T!NoCall, MainCall
  <2>3. \A i \in DOMAIN Order : Follows(i)
    BY <1>1, WorkerOrder DEF Init, T!TInit, Follows, Unstarted, Fetched
  <2>4. QED
    BY <2>1, <2>2, <2>3 DEF ThreadsInv
<1>3. MutexInv
  BY <1>1 DEF Init, M!MInit, M!FreshHandle, M!NotCalling, MutexInv, MutexTypes, WorkerCall, Inside, InBody
<1>4. LoopInv
  BY <1>1 DEF LoopInv
<1>5. HeldOnlyInside
  BY DEF Init, M!MInit, M!FreshHandle, HeldOnlyInside
<1>6. QED
  BY <1>2, <1>3, <1>4, <1>5 DEF UInv

-----------------------------------------------------------------------------
\* The threads.  Main goes on to the next worker, or to the next loop.
LEMMA RunThreads ==
  ASSUME ThreadsInv, RunWorker
  PROVE  ThreadsInv'
<1> DEFINE k == main.next
           w == Order[k]
<1>1. /\ ThreadTypes /\ MainCall /\ main.at = "run" /\ k \in 1..Len(Order) /\ w \in Workers
      /\ \A i \in DOMAIN Order : Follows(i)
  BY WorkerOrder DEF RunWorker, ThreadsInv, ThreadTypes
<1>2. /\ handle[w].state = "none" /\ handle' = [handle EXCEPT ![w].state = "live"]
      /\ thread' = [thread EXCEPT ![w] = "running"] /\ UNCHANGED <<joined, tcall, undefined, at>>
  BY DEF RunWorker, T!ThreadRun, wvars
<1>3. main' = IF k < Len(Order) THEN [at |-> "run", next |-> k + 1] ELSE [at |-> "get", next |-> 1]
  BY DEF RunWorker, Advance
<1>4. ThreadTypes'
  <2>1. main' \in [at : {"create", "run", "get", "getting", "print", "destroy", "end"}, next : 1..Len(Order)]
    BY <1>1, <1>3
  <2>2. handle' \in [Workers -> Blocks]
    BY <1>1, <1>2, HandleTyped DEF ThreadTypes
  <2>3. QED
    BY <1>1, <1>2, <2>1, <2>2 DEF ThreadTypes
<1>5. MainCall'
  BY <1>1, <1>2, <1>3 DEF MainCall
<1>6. ASSUME NEW i \in DOMAIN Order PROVE Follows(i)'
  <2>1. /\ Unstarted(i) <=> i >= k
        /\ Unstarted(i)' <=> i >= k + 1
        /\ ~Fetched(i) /\ ~Fetched(i)'
        /\ i \in 1..Len(Order)
    BY <1>1, <1>3 DEF Unstarted, Fetched
  <2>2. CASE i = k
    <3>1. handle'[w].state = "live" /\ thread'[w] = "running" /\ ~joined[w]
      BY <1>1, <1>2, <2>1, <2>2, HandleTyped DEF ThreadTypes, Follows
    <3>2. ~Unstarted(i)'
      BY <1>1, <2>1, <2>2
    <3>3. QED
      BY <1>2, <2>1, <2>2, <3>1, <3>2 DEF Follows
  <2>3. CASE i # k
    <3>1. Order[i] # w /\ Order[i] \in Workers
      BY <1>1, <2>3, WorkerOrder
    <3>2. handle'[Order[i]] = handle[Order[i]] /\ thread'[Order[i]] = thread[Order[i]]
      BY <1>1, <1>2, <3>1 DEF ThreadTypes
    <3>3. Unstarted(i)' <=> Unstarted(i)
      BY <1>1, <2>1, <2>3
    <3>4. Follows(i)
      BY <1>1
    <3>5. QED
      BY <1>1, <1>2, <2>1, <3>2, <3>3, <3>4 DEF Follows
  <2>4. QED
    BY <2>2, <2>3
<1>7. QED
  BY <1>4, <1>5, <1>6 DEF ThreadsInv

\* The call of get.
LEMMA GetThreads ==
  ASSUME ThreadsInv, GetWorker
  PROVE  ThreadsInv'
<1> DEFINE k == main.next
<1>1. /\ ThreadTypes /\ MainCall /\ main.at = "get" /\ k \in 1..Len(Order) /\ Order[k] \in Workers
      /\ \A i \in DOMAIN Order : Follows(i)
  BY WorkerOrder DEF GetWorker, ThreadsInv, ThreadTypes
<1>2. /\ tcall' = [tcall EXCEPT ![Main] = [op |-> "get", on |-> Order[k], at |-> "join", result |-> 0]]
      /\ main' = [main EXCEPT !.at = "getting"]
      /\ UNCHANGED <<handle, thread, joined, undefined, at>>
  BY DEF GetWorker, T!Call, wvars
<1>3. main'.at = "getting" /\ main'.next = k /\ tcall'[Main] = [op |-> "get", on |-> Order[k], at |-> "join", result |-> 0]
  BY <1>1, <1>2 DEF ThreadTypes
<1>4. ThreadTypes'
  BY <1>1, <1>2 DEF ThreadTypes, GetCalls
<1>5. MainCall'
  BY <1>3 DEF MainCall
<1>6. ASSUME NEW i \in DOMAIN Order PROVE Follows(i)'
  <2>1. ~Unstarted(i) /\ ~Unstarted(i)' /\ (Fetched(i)' <=> Fetched(i))
    BY <1>1, <1>3 DEF Unstarted, Fetched
  <2>2. Follows(i) /\ (joined[Order[i]] => Fetched(i))
    BY <1>1 DEF Follows
  <2>3. QED
    BY <1>2, <2>1, <2>2 DEF Follows
<1>7. QED
  BY <1>4, <1>5, <1>6 DEF ThreadsInv

\* Inside get: the thread has ended and nobody else has waited for it or freed its handle.
LEMMA InsideGetThreads ==
  ASSUME ThreadsInv, InsideGet
  PROVE  ThreadsInv'
<1> DEFINE k == main.next
           w == Order[k]
<1>1. /\ ThreadTypes /\ main.at = "getting" /\ k \in 1..Len(Order) /\ w \in Workers
      /\ \A i \in DOMAIN Order : Follows(i)
      /\ tcall[Main].op = "get" /\ tcall[Main].at \in {"join", "read", "free"} /\ tcall[Main].on = w
      /\ tcall[Main].at # "join" => thread[w] = "ended"
  BY WorkerOrder DEF InsideGet, ThreadsInv, ThreadTypes, MainCall
<1>2. handle[w].state = "live" /\ (tcall[Main].at = "join" => ~joined[w]) /\ thread[w] # "failed"
  <2>1. ~Unstarted(k) /\ ~Fetched(k) /\ k \in DOMAIN Order
    BY <1>1 DEF Unstarted, Fetched
  <2>2. Follows(k)
    BY <1>1, <2>1
  <2>3. QED
    BY <1>1, <2>1, <2>2 DEF Follows, ThreadTypes
<1>3. UNCHANGED <<thread, at>> /\ (IF tcall'[Main].op = "got" THEN Advance("get", "print") ELSE UNCHANGED main)
  BY DEF InsideGet, T!Proceed, T!Join, T!JoinUndefined, T!ReadResult, T!FreeHandle, wvars
<1>4. \A i \in DOMAIN Order : ~Unstarted(i) /\ (Fetched(i) <=> i < k)
  BY <1>1 DEF Unstarted, Fetched
<1>5. ~T!JoinUndefined(Main)
  BY <1>1, <1>2 DEF T!JoinUndefined, T!Live
<1>6. CASE T!Join(Main)
  <2>1. /\ tcall[Main].at = "join" /\ thread[w] = "ended" /\ joined' = [joined EXCEPT ![w] = TRUE]
        /\ tcall' = [tcall EXCEPT ![Main] = [tcall[Main] EXCEPT !.at = "read"]]
        /\ UNCHANGED <<handle, undefined>>
    BY <1>1, <1>6 DEF T!Join
  <2>2. tcall'[Main].op = "get" /\ tcall'[Main].at = "read" /\ tcall'[Main].on = w
    BY <1>1, <2>1 DEF ThreadTypes, GetCalls
  <2>3. UNCHANGED main
    BY <1>3, <2>2
  <2>4. ThreadTypes'
    <3>1. tcall' \in [{Main} -> GetCalls]
      BY <1>1, <2>1, GetCallTyped DEF ThreadTypes
    <3>2. QED
      BY <1>1, <1>3, <2>1, <2>3, <3>1 DEF ThreadTypes
  <2>5. MainCall'
    BY <1>1, <1>3, <2>1, <2>2, <2>3 DEF MainCall
  <2>6. ASSUME NEW i \in DOMAIN Order PROVE Follows(i)'
    <3>1. joined'[Order[i]] => joined[Order[i]] \/ i = k
      BY <1>1, <2>1 DEF ThreadTypes
    <3>2. Follows(i) /\ (Fetched(i)' <=> Fetched(i)) /\ (Unstarted(i)' <=> Unstarted(i))
      BY <1>1, <2>3 DEF Fetched, Unstarted
    <3>3. QED
      BY <1>1, <1>3, <2>1, <2>2, <2>3, <3>1, <3>2 DEF Follows
  <2>7. QED
    BY <2>4, <2>5, <2>6 DEF ThreadsInv
<1>7. CASE T!ReadResult(Main)
  <2>1. /\ tcall[Main].at = "read" /\ UNCHANGED <<handle, joined, undefined>>
        /\ tcall' = [tcall EXCEPT ![Main].at = "free", ![Main].result = handle[w].result]
    BY <1>1, <1>2, <1>7 DEF T!ReadResult, T!Live
  <2>2. /\ tcall'[Main].op = "get" /\ tcall'[Main].at = "free" /\ tcall'[Main].on = w
        /\ tcall' \in [{Main} -> GetCalls]
    <3>1. handle[w].result \in Int /\ tcall \in [{Main} -> GetCalls]
      BY <1>1 DEF ThreadTypes, Blocks
    <3>2. tcall' \in [{Main} -> GetCalls]
      BY <2>1, <3>1, GetCallTyped
    <3>3. QED
      BY <1>1, <2>1, <3>1, <3>2 DEF GetCalls
  <2>3. UNCHANGED main
    BY <1>3, <2>2
  <2>4. ThreadTypes'
    BY <1>1, <1>3, <2>1, <2>2, <2>3 DEF ThreadTypes
  <2>5. MainCall'
    BY <1>1, <1>3, <2>1, <2>2, <2>3 DEF MainCall
  <2>6. ASSUME NEW i \in DOMAIN Order PROVE Follows(i)'
    <3>1. Follows(i) /\ (Fetched(i)' <=> Fetched(i)) /\ (Unstarted(i)' <=> Unstarted(i))
      BY <1>1, <2>3 DEF Fetched, Unstarted
    <3>2. QED
      BY <1>1, <1>3, <2>1, <2>2, <2>3, <3>1 DEF Follows
  <2>7. QED
    BY <2>4, <2>5, <2>6 DEF ThreadsInv
<1>8. CASE T!FreeHandle(Main)
  <2>1. /\ tcall[Main].at = "free" /\ handle' = [handle EXCEPT ![w].state = "freed"]
        /\ UNCHANGED <<joined, undefined>>
        /\ tcall' = [tcall EXCEPT ![Main] = [tcall[Main] EXCEPT !.op = "got", !.at = "idle"]]
    BY <1>1, <1>2, <1>8 DEF T!FreeHandle, T!Live
  <2>2. tcall'[Main].op = "got" /\ tcall'[Main].at = "idle"
    BY <1>1, <2>1 DEF ThreadTypes, GetCalls
  <2>3. main' = IF k < Len(Order) THEN [at |-> "get", next |-> k + 1] ELSE [at |-> "print", next |-> 1]
    BY <1>3, <2>2 DEF Advance
  <2>4. ThreadTypes'
    <3>1. tcall' \in [{Main} -> GetCalls]
      BY <1>1, <2>1, GetCallTyped DEF ThreadTypes
    <3>2. main' \in [at : {"create", "run", "get", "getting", "print", "destroy", "end"}, next : 1..Len(Order)]
      BY <1>1, <2>3
    <3>3. handle' \in [Workers -> Blocks]
      BY <1>1, <2>1, HandleTyped DEF ThreadTypes
    <3>4. QED
      BY <1>1, <1>3, <2>1, <3>1, <3>2, <3>3 DEF ThreadTypes
  <2>5. MainCall'
    BY <2>2, <2>3 DEF MainCall
  <2>6. ASSUME NEW i \in DOMAIN Order PROVE Follows(i)'
    <3>1. /\ ~Unstarted(i)' /\ (Fetched(i)' <=> i < k + 1) /\ i \in 1..Len(Order)
      BY <1>1, <2>3 DEF Unstarted, Fetched
    <3>2. CASE i = k
      <4>1. Fetched(i)' /\ thread'[w] = "ended"
        BY <1>1, <1>3, <2>1, <3>1, <3>2 DEF ThreadTypes
      <4>2. at'[w] = "returned"
        BY <1>1, <1>3, <2>1, <3>2 DEF Follows
      <4>3. QED
        BY <3>1, <3>2, <4>1, <4>2 DEF Follows
    <3>3. CASE i # k
      <4>1. Order[i] # w /\ Order[i] \in Workers
        BY <1>1, <3>3, WorkerOrder
      <4>2. handle'[Order[i]] = handle[Order[i]]
        BY <1>1, <2>1, <4>1 DEF ThreadTypes
      <4>3. Fetched(i)' <=> Fetched(i)
        BY <1>1, <1>4, <3>1, <3>3
      <4>4. Follows(i) /\ ~Unstarted(i) /\ (joined[Order[i]] => Fetched(i))
        BY <1>1, <1>4, <3>3 DEF Follows
      <4>5. QED
        BY <1>3, <2>1, <3>1, <4>2, <4>3, <4>4 DEF Follows
    <3>4. QED
      BY <3>2, <3>3
  <2>7. QED
    BY <2>4, <2>5, <2>6 DEF ThreadsInv
<1>9. QED
  BY <1>5, <1>6, <1>7, <1>8 DEF InsideGet, T!Proceed


\* The steps of main that do not concern a worker.
LEMMA OtherMainThreads ==
  ASSUME ThreadsInv, CreateMutex \/ PrintTotal \/ DestroyMutex
  PROVE  ThreadsInv'
<1>1. /\ ThreadTypes /\ MainCall /\ \A i \in DOMAIN Order : Follows(i)
      /\ UNCHANGED <<handle, thread, joined, tcall, undefined, at>>
  BY DEF ThreadsInv, CreateMutex, PrintTotal, DestroyMutex, tvars, wvars
<1>2. \/ main.at = "create" /\ main' = [at |-> "run", next |-> 1]
      \/ main.at = "print" /\ main' = [main EXCEPT !.at = "destroy"]
      \/ main.at = "destroy" /\ main' = [main EXCEPT !.at = "end"]
  BY DEF CreateMutex, PrintTotal, DestroyMutex
<1>3. \/ main.at = "create" /\ main'.at = "run" /\ main'.next = 1
      \/ main.at = "print" /\ main'.at = "destroy"
      \/ main.at = "destroy" /\ main'.at = "end"
  BY <1>1, <1>2 DEF ThreadTypes
<1>4. ThreadTypes'
  BY <1>1, <1>2 DEF ThreadTypes
<1>5. MainCall'
  BY <1>1, <1>3 DEF MainCall
<1>6. ASSUME NEW i \in DOMAIN Order PROVE Follows(i)'
  <2>1. i \in 1..Len(Order) /\ Follows(i)
    BY <1>1
  <2>2. (Unstarted(i)' <=> Unstarted(i)) /\ (Fetched(i)' <=> Fetched(i)) /\ main.at # "getting" /\ main'.at # "getting"
    BY <1>3, <2>1 DEF Unstarted, Fetched
  <2>3. QED
    BY <1>1, <2>1, <2>2 DEF Follows
<1>7. QED
  BY <1>4, <1>5, <1>6 DEF ThreadsInv

\* A worker moves only while it runs.
LEMMA MoveThreads ==
  ASSUME ThreadsInv, NEW w \in Workers, Executing(w), UNCHANGED <<tvars, main>>,
         NEW place \in Places, Jump(w, place) \/ UNCHANGED at
  PROVE  ThreadsInv'
<1>1. /\ ThreadTypes /\ MainCall /\ \A i \in DOMAIN Order : Follows(i)
      /\ UNCHANGED <<handle, thread, joined, tcall, undefined, main>> /\ thread[w] = "running"
  BY DEF ThreadsInv, Executing, tvars
<1>2. at' \in [Workers -> Places] /\ \A v \in Workers : v # w => at'[v] = at[v]
  <2>1. at \in [Workers -> Places]
    BY <1>1 DEF ThreadTypes
  <2>2. CASE UNCHANGED at
    BY <2>1, <2>2
  <2>3. CASE Jump(w, place)
    BY <2>1, <2>3 DEF Jump
  <2>4. QED
    BY <2>2, <2>3
<1>3. ThreadTypes' /\ MainCall'
  BY <1>1, <1>2 DEF ThreadTypes, MainCall
<1>4. ASSUME NEW i \in DOMAIN Order PROVE Follows(i)'
  <2>1. Follows(i) /\ Order[i] \in Workers
    BY <1>1, WorkerOrder
  <2>2. (Unstarted(i)' <=> Unstarted(i)) /\ (Fetched(i)' <=> Fetched(i))
    BY <1>1 DEF Unstarted, Fetched
  <2>3. QED
    BY <1>1, <1>2, <2>1, <2>2 DEF Follows
<1>5. QED
  BY <1>3, <1>4 DEF ThreadsInv

\* The trampoline finds the handle there.
LEMMA TrampolineThreads ==
  ASSUME ThreadsInv, NEW w \in Workers, Trampoline(w)
  PROVE  ThreadsInv'
<1>1. /\ ThreadTypes /\ MainCall /\ \A i \in DOMAIN Order : Follows(i)
      /\ UNCHANGED <<main, at>> /\ at[w] = "returned" /\ T!Trampoline(w)
  BY DEF ThreadsInv, Trampoline, wvars
<1>2. PICK k \in DOMAIN Order : w = Order[k]
  BY WorkerOrder
<1>3. thread[w] \in {"running", "returned"} /\ UNCHANGED <<joined, tcall>>
  BY <1>1 DEF T!Trampoline, T!StoreResult, T!StoreDone
<1>4. handle[w].state = "live" /\ ~Unstarted(k) /\ ~Fetched(k)
  BY <1>1, <1>2, <1>3 DEF Follows
<1>5. /\ \/ handle' = [handle EXCEPT ![w].result = Answer[w]]
         \/ handle' = [handle EXCEPT ![w].done = TRUE]
      /\ \/ thread' = [thread EXCEPT ![w] = "returned"]
         \/ thread' = [thread EXCEPT ![w] = "ended"]
      /\ UNCHANGED undefined
  BY <1>1, <1>4 DEF T!Trampoline, T!StoreResult, T!StoreDone, T!Live
<1>6. handle' \in [Workers -> Blocks] /\ handle'[w].state = "live"
  <2>1. handle \in [Workers -> Blocks] /\ Answer[w] \in Int
    BY <1>1, AnswerAssumption DEF ThreadTypes
  <2>2. CASE handle' = [handle EXCEPT ![w].result = Answer[w]]
    BY <1>4, <2>1, <2>2, HandleTyped
  <2>3. CASE handle' = [handle EXCEPT ![w].done = TRUE]
    BY <1>4, <2>1, <2>3, HandleTyped
  <2>4. QED
    BY <1>5, <2>2, <2>3
<1>7. /\ thread' \in [Workers -> {"none", "running", "returned", "ended"}] /\ thread'[w] \in {"returned", "ended"}
      /\ \A v \in Workers : v # w => thread'[v] = thread[v] /\ handle'[v] = handle[v]
  BY <1>1, <1>5 DEF ThreadTypes
<1>8. ThreadTypes'
  BY <1>1, <1>3, <1>5, <1>6, <1>7 DEF ThreadTypes
<1>9. MainCall'
  <2>1. main.at = "getting" => main.next \in DOMAIN Order /\ Order[main.next] \in Workers
    BY <1>1, WorkerOrder DEF ThreadTypes
  <2>2. main.at = "getting" /\ tcall[Main].at # "join" => Order[main.next] # w
    BY <1>1, <1>3 DEF MainCall
  <2>3. QED
    BY <1>1, <1>3, <1>7, <2>1, <2>2 DEF MainCall
<1>10. ASSUME NEW i \in DOMAIN Order PROVE Follows(i)'
  <2>1. Follows(i) /\ Order[i] \in Workers
    BY <1>1, WorkerOrder
  <2>2. (Unstarted(i)' <=> Unstarted(i)) /\ (Fetched(i)' <=> Fetched(i))
    BY <1>1 DEF Unstarted, Fetched
  <2>3. CASE Order[i] = w
    <3>1. i = k
      BY <1>2, <2>3
    <3>2. QED
      BY <1>1, <1>3, <1>4, <1>6, <1>7, <2>1, <2>2, <2>3, <3>1 DEF Follows
  <2>4. CASE Order[i] # w
    BY <1>1, <1>3, <1>7, <2>1, <2>2, <2>4 DEF Follows
  <2>5. QED
    BY <2>3, <2>4
<1>11. QED
  BY <1>8, <1>9, <1>10 DEF ThreadsInv

\* The part on handles and threads is inductive by itself.
LEMMA NextThreads == ThreadsInv /\ [Next]_vars => ThreadsInv'
<1> SUFFICES ASSUME ThreadsInv, [Next]_vars PROVE ThreadsInv'
  OBVIOUS
<1>1. CASE MainStep
  BY <1>1, RunThreads, GetThreads, InsideGetThreads, OtherMainThreads DEF MainStep
<1>2. ASSUME NEW w \in Workers, Trampoline(w) PROVE ThreadsInv'
  BY <1>2, TrampolineThreads
<1>3. ASSUME NEW w \in Workers, WorkerStep(w), ~Trampoline(w) PROVE ThreadsInv'
  <2>1. /\ Executing(w) /\ UNCHANGED <<tvars, main>>
        /\ \E place \in Places : Jump(w, place) \/ UNCHANGED at
    BY <1>3 DEF WorkerStep, UsingEnter, InsideMutex, LoadCounter, StoreCounter, UsingExit, LeaveBody, LoopEnds, Places
  <2>2. QED
    BY <2>1, MoveThreads
<1>4. CASE UNCHANGED vars
  BY <1>4 DEF vars, tvars, wvars, ThreadsInv, ThreadTypes, MainCall, Follows, Unstarted, Fetched
<1>5. QED
  BY <1>1, <1>2, <1>3, <1>4 DEF Next

-----------------------------------------------------------------------------
\* The mutex is there for a thread that executes, and no thread executes before it is made.
LEMMA MutexThere ==
  ASSUME ThreadsInv
  PROVE  /\ \A w \in Workers : Executing(w) => main.at \in {"run", "get", "getting"}
         /\ main.at = "create" => \A w \in Workers : at[w] = "head"
         /\ main.at \in {"print", "destroy", "end"} => \A w \in Workers : at[w] = "returned"
<1>1. ASSUME NEW w \in Workers
      PROVE  /\ Executing(w) => main.at \in {"run", "get", "getting"}
             /\ main.at = "create" => at[w] = "head"
             /\ main.at \in {"print", "destroy", "end"} => at[w] = "returned"
  <2>1. PICK i \in DOMAIN Order : w = Order[i]
    BY WorkerOrder
  <2>2. Follows(i) /\ main.at \in {"create", "run", "get", "getting", "print", "destroy", "end"}
    BY DEF ThreadsInv, ThreadTypes
  <2>3. QED
    BY <2>1, <2>2 DEF Follows, Unstarted, Fetched, Executing
<1>2. QED
  BY <1>1


\* Who is inside is known by the place of the worker and the step of its call.
Calls == [at : {"idle", "lock", "increment", "incremented", "decrement", "decremented", "unlock"},
          on : {TheMutex, NoMutex}, loaded : Int, result : Int]

\* Storing a field of the mutex stores that field and no other.
LEMMA MutexTyped ==
  ASSUME MutexTypes, NEW o \in Workers \cup {Main, NoThread}, NEW n \in Int,
         NEW s \in {"none", "live", "freed"}
  PROVE  /\ \A e \in {[mutex EXCEPT ![TheMutex].owner = o], [mutex EXCEPT ![TheMutex].lock_count = n],
                      [mutex EXCEPT ![TheMutex].state = s]} :
              e \in [{TheMutex} -> [state : {"none", "live", "freed"},
                                    owner : Workers \cup {Main, NoThread}, lock_count : Int]]
         /\ [mutex EXCEPT ![TheMutex].owner = o][TheMutex].owner = o
         /\ [mutex EXCEPT ![TheMutex].owner = o][TheMutex].state = mutex[TheMutex].state
         /\ [mutex EXCEPT ![TheMutex].lock_count = n][TheMutex].owner = mutex[TheMutex].owner
         /\ [mutex EXCEPT ![TheMutex].lock_count = n][TheMutex].state = mutex[TheMutex].state
         /\ [mutex EXCEPT ![TheMutex].state = s][TheMutex].owner = mutex[TheMutex].owner
         /\ [mutex EXCEPT ![TheMutex].state = s][TheMutex].state = s
BY DEF MutexTypes

\* A step of one thread inside enter or exit leaves the other threads where they are.
LEMMA MovesCall ==
  ASSUME mcall \in [Workers \cup {Main} -> Calls], NEW t \in Workers \cup {Main}, NEW n \in Int,
         NEW step \in {"idle", "lock", "increment", "incremented", "decrement", "decremented", "unlock"},
         \/ mcall' = [mcall EXCEPT ![t].at = step]
         \/ mcall' = [mcall EXCEPT ![t].at = step, ![t].loaded = n]
  PROVE  /\ mcall' \in [Workers \cup {Main} -> Calls]
         /\ mcall'[t].at = step /\ mcall'[t].on = mcall[t].on
         /\ \A u \in Workers \cup {Main} : u # t => mcall'[u] = mcall[u]
<1>1. CASE mcall' = [mcall EXCEPT ![t].at = step]
  BY <1>1 DEF Calls
<1>2. CASE mcall' = [mcall EXCEPT ![t].at = step, ![t].loaded = n]
  <2>1. mcall' \in [Workers \cup {Main} -> Calls]
    <3>1. mcall[t] \in Calls
      OBVIOUS
    <3>2. [[mcall[t] EXCEPT !.at = step] EXCEPT !.loaded = n] \in Calls
      BY <3>1 DEF Calls
    <3>3. mcall' = [mcall EXCEPT ![t] = [[mcall[t] EXCEPT !.at = step] EXCEPT !.loaded = n]]
      BY <1>2
    <3>4. QED
      BY <3>2, <3>3
  <2>2. mcall'[t].at = step /\ mcall'[t].on = mcall[t].on
    BY <1>2 DEF Calls
  <2>3. \A u \in Workers \cup {Main} : u # t => mcall'[u] = mcall[u]
    BY <1>2
  <2>4. QED
    BY <2>1, <2>2, <2>3
<1>3. QED
  BY <1>1, <1>2

\* A worker that is not inside does not own the mutex on entering its body: at most one is.
LEMMA OneInside ==
  ASSUME MutexInv, NEW v \in Workers, NEW w \in Workers, Inside(v), Inside(w)
  PROVE  v = w
BY DEF MutexInv

\* A step of a worker outside the calls on the mutex.
LEMMA MoveMutex ==
  ASSUME ThreadsInv, MutexInv, NEW w \in Workers, UNCHANGED <<mvars, main>>, NEW place \in Places, Jump(w, place),
         at[w] \notin {"entering", "exiting"}, place \notin {"entering", "exiting"},
         place \in {"load", "store", "stored"} => InBody(w)
  PROVE  MutexInv'
<1>1. /\ UNCHANGED <<mutex, mcall, main>> /\ at'[w] = place /\ \A v \in Workers : v # w => at'[v] = at[v]
  BY DEF mvars, Jump, ThreadsInv, ThreadTypes
<1>2. ASSUME NEW v \in Workers PROVE WorkerCall(v)' /\ (Inside(v)' => mutex'[TheMutex].owner = v)
  <2>1. WorkerCall(v) /\ (Inside(v) => mutex[TheMutex].owner = v)
    BY DEF MutexInv
  <2>2. CASE v = w
    BY <1>1, <2>1, <2>2 DEF WorkerCall, Inside, InBody
  <2>3. CASE v # w
    BY <1>1, <2>1, <2>3 DEF WorkerCall, Inside, InBody
  <2>4. QED
    BY <2>2, <2>3
<1>3. QED
  BY <1>1, <1>2 DEF MutexInv, MutexTypes

\* Main creates the mutex before the first worker and destroys it after the last.
LEMMA MainMutex ==
  ASSUME ThreadsInv, MutexInv, MainStep
  PROVE  MutexInv'
<1>1. ThreadTypes /\ MutexTypes /\ UNCHANGED at
  BY DEF MainStep, CreateMutex, RunWorker, GetWorker, InsideGet, PrintTotal, DestroyMutex, ThreadsInv, MutexInv, wvars
<1>2. CASE CreateMutex
  <2>1. /\ mutex[TheMutex].state = "none" /\ UNCHANGED mcall
        /\ mutex' = [mutex EXCEPT ![TheMutex] = [M!FreshHandle EXCEPT !.state = "live"]]
        /\ main.at = "create" /\ main'.at = "run"
    BY <1>2 DEF CreateMutex, M!Create
  <2>2. mutex'[TheMutex] = [state |-> "live", owner |-> NoThread, lock_count |-> 0]
    BY <1>1, <2>1 DEF MutexTypes, M!FreshHandle
  <2>3. MutexTypes'
    BY <1>1, <2>1, <2>2 DEF MutexTypes
  <2>4. \A w \in Workers : at[w] = "head"
    BY <2>1, MutexThere
  <2>5. \A w \in Workers : WorkerCall(w)' /\ ~Inside(w)'
    BY <1>1, <2>1, <2>4 DEF MutexInv, WorkerCall, Inside, InBody
  <2>6. QED
    BY <2>1, <2>2, <2>3, <2>5 DEF MutexInv
<1>3. CASE DestroyMutex
  <2>1. /\ UNCHANGED mcall /\ mutex' = [mutex EXCEPT ![TheMutex].state = "freed"]
        /\ main.at = "destroy" /\ main' = [main EXCEPT !.at = "end"]
    BY <1>3 DEF DestroyMutex, M!Destroy
  <2>2. main'.at = "end"
    BY <1>1, <2>1 DEF ThreadTypes
  <2>3. /\ mutex'[TheMutex].owner = mutex[TheMutex].owner /\ mutex'[TheMutex].state = "freed"
        /\ MutexTypes'
    BY <1>1, <2>1, MutexTyped DEF MutexTypes
  <2>4. \A w \in Workers : WorkerCall(w)' /\ (Inside(w)' => mutex'[TheMutex].owner = w)
    BY <1>1, <2>1, <2>3 DEF MutexInv, WorkerCall, Inside, InBody
  <2>5. QED
    BY <2>1, <2>2, <2>3, <2>4 DEF MutexInv
<1>4. CASE RunWorker \/ GetWorker \/ InsideGet \/ PrintTotal
  <2>1. UNCHANGED <<mutex, mcall>>
    BY <1>4 DEF RunWorker, GetWorker, InsideGet, PrintTotal, mvars
  <2>2. /\ main.at \in {"run", "get", "getting", "print"}
        /\ main'.at \in {"run", "get", "getting", "print", "destroy"}
    BY <1>1, <1>4 DEF RunWorker, GetWorker, InsideGet, PrintTotal, Advance, ThreadTypes
  <2>3. \A w \in Workers : WorkerCall(w)' /\ (Inside(w)' => mutex'[TheMutex].owner = w)
    BY <1>1, <2>1 DEF MutexInv, WorkerCall, Inside, InBody
  <2>4. QED
    BY <2>1, <2>2, <2>3 DEF MutexInv, MutexTypes
<1>5. QED
  BY <1>2, <1>3, <1>4 DEF MainStep

\* The calls of enter and exit.
LEMMA BeginMutex ==
  ASSUME ThreadsInv, MutexInv, NEW w \in Workers, UsingEnter(w) \/ UsingExit(w)
  PROVE  MutexInv'
<1>1. /\ ThreadTypes /\ MutexTypes /\ UNCHANGED <<mutex, main>>
      /\ at[w] \in {"head", "stored"} /\ (at[w] = "stored" => mutex[TheMutex].owner = w)
  BY DEF ThreadsInv, MutexInv, UsingEnter, UsingExit, M!Enter, M!Exit
<1>2. PICK step \in {"lock", "decrement"} :
        /\ M!Begin(w, step, TheMutex)
        /\ \/ step = "lock" /\ Jump(w, "entering")
           \/ step = "decrement" /\ Jump(w, "exiting") /\ at[w] = "stored"
  BY DEF UsingEnter, UsingExit, M!Enter, M!Exit
<1>3. /\ mcall'[w] = [at |-> step, on |-> TheMutex, loaded |-> 0, result |-> 0]
      /\ \A u \in Workers \cup {Main} : u # w => mcall'[u] = mcall[u]
      /\ MutexTypes'
  BY <1>1, <1>2 DEF M!Begin, MutexTypes
<1>4. /\ at'[w] = (IF step = "lock" THEN "entering" ELSE "exiting")
      /\ \A v \in Workers : v # w => at'[v] = at[v]
  BY <1>1, <1>2 DEF Jump, ThreadTypes
<1>5. ASSUME NEW v \in Workers PROVE WorkerCall(v)' /\ (Inside(v)' => mutex'[TheMutex].owner = v)
  <2>1. WorkerCall(v) /\ (Inside(v) => mutex[TheMutex].owner = v)
    BY DEF MutexInv
  <2>2. CASE v = w
    BY <1>1, <1>2, <1>3, <1>4, <2>1, <2>2 DEF WorkerCall, Inside, InBody
  <2>3. CASE v # w
    BY <1>1, <1>3, <1>4, <2>1, <2>3 DEF WorkerCall, Inside, InBody
  <2>4. QED
    BY <2>2, <2>3
<1>6. QED
  BY <1>1, <1>3, <1>5 DEF MutexInv


\* Inside enter and exit.
LEMMA InsideMutexMutex ==
  ASSUME ThreadsInv, MutexInv, NEW w \in Workers, InsideMutex(w)
  PROVE  MutexInv'
<1>1. /\ ThreadTypes /\ MutexTypes /\ UNCHANGED main /\ at[w] \in {"entering", "exiting"}
      /\ WorkerCall(w) /\ mcall[w].on = TheMutex /\ mcall[w].at # "idle"
      /\ mcall \in [Workers \cup {Main} -> Calls] /\ mcall[w].loaded \in Int /\ mutex[TheMutex].lock_count \in Int
      /\ mcall[Main].on = NoMutex
  BY DEF ThreadsInv, MutexInv, MutexTypes, InsideMutex, WorkerCall, Calls
<1>2. (IF mcall'[w].at # "idle" THEN UNCHANGED at
       ELSE IF at[w] = "entering" THEN Jump(w, "load") ELSE Jump(w, "head"))
  BY DEF InsideMutex
<1>3. ASSUME MutexTypes', \A u \in Workers \cup {Main} : u # w => mcall'[u] = mcall[u],
             WorkerCall(w)', Inside(w)' => mutex'[TheMutex].owner = w,
             mutex'[TheMutex].state = mutex[TheMutex].state,
             \/ mutex'[TheMutex].owner = mutex[TheMutex].owner
             \/ mutex[TheMutex].owner = NoThread
             \/ Inside(w)
      PROVE  MutexInv'
  <2>1. \A v \in Workers : v # w => at'[v] = at[v] /\ mcall'[v] = mcall[v]
    BY <1>1, <1>2, <1>3 DEF Jump, ThreadTypes
  <2>2. ASSUME NEW v \in Workers, v # w PROVE WorkerCall(v)' /\ (Inside(v)' => mutex'[TheMutex].owner = v)
    <3>1. WorkerCall(v) /\ (Inside(v) => mutex[TheMutex].owner = v) /\ (Inside(w) => mutex[TheMutex].owner = w)
      BY DEF MutexInv
    <3>2. WorkerCall(v)' /\ (Inside(v)' <=> Inside(v))
      BY <2>1, <2>2, <3>1 DEF WorkerCall, Inside, InBody
    <3>3. QED
      BY <1>3, <2>2, <3>1, <3>2
  <2>3. mcall'[Main] = mcall[Main]
    BY <1>3
  <2>4. QED
    BY <1>1, <1>3, <2>2, <2>3 DEF MutexInv
<1>4. CASE M!Lock(w)
  <2>1. /\ mcall[w].at = "lock" /\ mutex[TheMutex].owner = NoThread
        /\ mutex' = [mutex EXCEPT ![TheMutex].owner = w] /\ mcall' = [mcall EXCEPT ![w].at = "increment"]
    BY <1>1, <1>4 DEF M!Lock, M!Goto
  <2>2. /\ mcall' \in [Workers \cup {Main} -> Calls]
        /\ mcall'[w].at = "increment" /\ mcall'[w].on = TheMutex
        /\ \A u \in Workers \cup {Main} : u # w => mcall'[u] = mcall[u]
    BY <1>1, <2>1, MovesCall
  <2>3. mutex'[TheMutex].owner = w /\ mutex'[TheMutex].state = mutex[TheMutex].state /\ MutexTypes'
    BY <1>1, <2>1, <2>2, MutexTyped DEF MutexTypes, Calls
  <2>4. at[w] = "entering" /\ UNCHANGED at
    BY <1>1, <1>2, <2>1, <2>2 DEF WorkerCall
  <2>5. WorkerCall(w)'
    BY <2>2, <2>4 DEF WorkerCall
  <2>6. QED
    BY <1>3, <2>1, <2>2, <2>3, <2>5
<1>5. CASE M!LoadForIncrement(w) \/ M!LoadForDecrement(w)
  <2> DEFINE n == mutex[TheMutex].lock_count
  <2>1. PICK step \in {"incremented", "decremented"} :
          /\ mcall' = [mcall EXCEPT ![w].at = step, ![w].loaded = n] /\ UNCHANGED mutex
          /\ \/ step = "incremented" /\ mcall[w].at = "increment"
             \/ step = "decremented" /\ mcall[w].at = "decrement"
    BY <1>1, <1>5 DEF M!LoadForIncrement, M!LoadForDecrement
  <2>2. /\ mcall' \in [Workers \cup {Main} -> Calls]
        /\ mcall'[w].at = step /\ mcall'[w].on = TheMutex
        /\ \A u \in Workers \cup {Main} : u # w => mcall'[u] = mcall[u]
    BY <1>1, <2>1, MovesCall
  <2>3. UNCHANGED at
    BY <1>2, <2>2
  <2>4. WorkerCall(w)' /\ (Inside(w)' => Inside(w))
    BY <1>1, <2>1, <2>2, <2>3 DEF WorkerCall, Inside, InBody
  <2>5. MutexTypes'
    BY <1>1, <2>1, <2>2 DEF MutexTypes, Calls
  <2>6. Inside(w) => mutex[TheMutex].owner = w
    BY DEF MutexInv
  <2>7. QED
    BY <1>3, <2>1, <2>2, <2>4, <2>5, <2>6
<1>6. CASE M!StoreIncremented(w) \/ M!Unlock(w)
  <2>1. PICK r \in {0, 1} : mcall' = [mcall EXCEPT ![w] = [M!NotCalling EXCEPT !.result = r]]
    BY <1>6 DEF M!StoreIncremented, M!Unlock, M!Done
  <2>2. /\ mcall' \in [Workers \cup {Main} -> Calls]
        /\ mcall'[w].at = "idle" /\ mcall'[w].on = NoMutex
        /\ \A u \in Workers \cup {Main} : u # w => mcall'[u] = mcall[u]
    BY <1>1, <2>1 DEF M!NotCalling, Calls
  <2>3. at'[w] = (IF at[w] = "entering" THEN "load" ELSE "head")
    BY <1>1, <1>2, <2>2 DEF Jump, ThreadTypes
  <2>4. WorkerCall(w)'
    BY <2>2, <2>3 DEF WorkerCall
  <2>5. CASE M!StoreIncremented(w)
    <3>1. /\ mcall[w].at = "incremented"
          /\ mutex' = [mutex EXCEPT ![TheMutex].lock_count = mcall[w].loaded + 1]
      BY <1>1, <2>5 DEF M!StoreIncremented
    <3>2. mcall[w].loaded + 1 \in Int
      BY <1>1
    <3>3. /\ mutex'[TheMutex].owner = mutex[TheMutex].owner /\ mutex'[TheMutex].state = mutex[TheMutex].state
          /\ MutexTypes'
      BY <1>1, <2>2, <3>1, <3>2, MutexTyped DEF MutexTypes, Calls
    <3>4. Inside(w) /\ mutex[TheMutex].owner = w
      BY <1>1, <3>1 DEF Inside, WorkerCall, MutexInv
    <3>5. QED
      BY <1>3, <2>2, <2>4, <3>3, <3>4
  <2>6. CASE M!Unlock(w)
    <3>1. mcall[w].at = "unlock" /\ mutex' = [mutex EXCEPT ![TheMutex].owner = NoThread]
      BY <1>1, <2>6 DEF M!Unlock
    <3>2. mutex'[TheMutex].state = mutex[TheMutex].state /\ MutexTypes'
      BY <1>1, <2>2, <3>1, MutexTyped DEF MutexTypes, Calls
    <3>3. at[w] = "exiting" /\ Inside(w)
      BY <1>1, <3>1 DEF Inside, WorkerCall
    <3>4. ~Inside(w)'
      BY <2>3, <3>3 DEF Inside, InBody
    <3>5. QED
      BY <1>3, <2>2, <2>4, <3>2, <3>3, <3>4
  <2>7. QED
    BY <1>6, <2>5, <2>6
<1>7. CASE M!StoreDecremented(w)
  <2>1. /\ mcall[w].at = "decremented" /\ mcall' = [mcall EXCEPT ![w].at = "unlock"]
        /\ mutex' = [mutex EXCEPT ![TheMutex].lock_count = mcall[w].loaded - 1]
    BY <1>1, <1>7 DEF M!StoreDecremented, M!Goto
  <2>2. /\ mcall' \in [Workers \cup {Main} -> Calls]
        /\ mcall'[w].at = "unlock" /\ mcall'[w].on = TheMutex
        /\ \A u \in Workers \cup {Main} : u # w => mcall'[u] = mcall[u]
    BY <1>1, <2>1, MovesCall
  <2>3. mcall[w].loaded - 1 \in Int
    BY <1>1
  <2>4. /\ mutex'[TheMutex].owner = mutex[TheMutex].owner /\ mutex'[TheMutex].state = mutex[TheMutex].state
        /\ MutexTypes'
    BY <1>1, <2>1, <2>2, <2>3, MutexTyped DEF MutexTypes, Calls
  <2>5. UNCHANGED at /\ at[w] = "exiting"
    BY <1>1, <1>2, <2>1, <2>2 DEF WorkerCall
  <2>6. WorkerCall(w)' /\ Inside(w)
    BY <2>2, <2>5 DEF WorkerCall, Inside
  <2>7. mutex[TheMutex].owner = w
    BY <2>6 DEF MutexInv
  <2>8. QED
    BY <1>3, <2>2, <2>4, <2>6, <2>7
<1>8. QED
  BY <1>4, <1>5, <1>6, <1>7 DEF InsideMutex, M!Proceed

\* The part on the mutex is inductive, given the part on threads.
LEMMA NextMutex == ThreadsInv /\ MutexInv /\ [Next]_vars => MutexInv'
<1> SUFFICES ASSUME ThreadsInv, MutexInv, [Next]_vars PROVE MutexInv'
  OBVIOUS
<1>1. ASSUME NEW w \in Workers, UsingEnter(w) \/ UsingExit(w) PROVE MutexInv'
  BY <1>1, BeginMutex
<1>2. ASSUME NEW w \in Workers, LoadCounter(w) \/ StoreCounter(w) \/ LeaveBody(w) \/ LoopEnds(w) PROVE MutexInv'
  <2>1. /\ UNCHANGED <<mvars, main>> /\ at[w] \notin {"entering", "exiting"}
        /\ \E place \in Places : /\ Jump(w, place) /\ place \notin {"entering", "exiting"}
                                 /\ place \in {"load", "store", "stored"} => InBody(w)
    BY <1>2 DEF LoadCounter, StoreCounter, LeaveBody, LoopEnds, Places, InBody
  <2>2. QED
    BY <2>1, MoveMutex
<1>3. CASE (\E w \in Workers : Trampoline(w)) \/ UNCHANGED vars
  <2>1. UNCHANGED <<mutex, mcall, at, main>>
    BY <1>3 DEF Trampoline, vars, mvars, wvars
  <2>2. QED
    BY <2>1 DEF MutexInv, MutexTypes, WorkerCall, Inside, InBody
<1>4. QED
  BY <1>1, <1>2, <1>3, MainMutex, InsideMutexMutex DEF Next, WorkerStep

-----------------------------------------------------------------------------
\* A worker that moves within the body, or outside it, keeps what it has or has nothing.
LEMMA MoveHeld ==
  ASSUME ThreadsInv, MutexInv, HeldOnlyInside, NEW w \in Workers,
         UNCHANGED leaves, \A v \in Workers : v # w => at'[v] = at[v] /\ mcall'[v] = mcall[v],
         \/ mutex'[TheMutex].owner = mutex[TheMutex].owner /\ (Disciplined /\ Inside(w) => Inside(w)')
         \/ mutex'[TheMutex].owner = w /\ Inside(w)'
         \/ mutex'[TheMutex].owner = NoThread
  PROVE  HeldOnlyInside'
<1> SUFFICES ASSUME Disciplined, mutex'[TheMutex].owner # NoThread
             PROVE  \E v \in Workers : mutex'[TheMutex].owner = v /\ Inside(v)'
  BY DEF HeldOnlyInside, Disciplined
<1>1. CASE mutex'[TheMutex].owner = w /\ Inside(w)'
  BY <1>1
<1>2. CASE mutex'[TheMutex].owner = mutex[TheMutex].owner /\ (Disciplined /\ Inside(w) => Inside(w)')
  <2>1. PICK v \in Workers : mutex[TheMutex].owner = v /\ Inside(v)
    BY <1>2 DEF HeldOnlyInside
  <2>2. CASE v = w
    BY <1>2, <2>1, <2>2
  <2>3. CASE v # w
    <3>1. at'[v] = at[v] /\ mcall'[v] = mcall[v]
      BY <2>3
    <3>2. Inside(v)'
      BY <2>1, <3>1 DEF Inside, InBody
    <3>3. QED
      BY <1>2, <2>1, <3>2
  <2>4. QED
    BY <2>2, <2>3
<1>3. QED
  BY <1>1, <1>2

\* The steps of enter and exit: the lock and the unlock are where the mutex changes hands.
LEMMA InsideMutexHeld ==
  ASSUME ThreadsInv, MutexInv, HeldOnlyInside, NEW w \in Workers, InsideMutex(w)
  PROVE  HeldOnlyInside'
<1>1. /\ ThreadTypes /\ MutexTypes /\ UNCHANGED leaves /\ at[w] \in {"entering", "exiting"}
      /\ WorkerCall(w) /\ mcall[w].on = TheMutex
      /\ mcall \in [Workers \cup {Main} -> Calls] /\ mutex[TheMutex].lock_count \in Int
      /\ mcall[w].loaded \in Int
  BY DEF ThreadsInv, MutexInv, MutexTypes, InsideMutex, WorkerCall, Calls
<1>2. (IF mcall'[w].at # "idle" THEN UNCHANGED at
       ELSE IF at[w] = "entering" THEN Jump(w, "load") ELSE Jump(w, "head"))
  BY DEF InsideMutex
<1>3. \A v \in Workers : v # w => at'[v] = at[v]
  BY <1>1, <1>2 DEF Jump, ThreadTypes
<1>4. CASE M!Lock(w)
  <2>1. /\ mutex' = [mutex EXCEPT ![TheMutex].owner = w] /\ mcall' = [mcall EXCEPT ![w].at = "increment"]
        /\ mcall[w].at = "lock"
    BY <1>1, <1>4 DEF M!Lock, M!Goto
  <2>2. /\ mcall'[w].at = "increment"
        /\ \A u \in Workers \cup {Main} : u # w => mcall'[u] = mcall[u]
    BY <1>1, <2>1, MovesCall
  <2>3. mutex'[TheMutex].owner = w
    BY <1>1, <2>1, MutexTyped DEF MutexTypes
  <2>4. Inside(w)'
    BY <1>1, <1>2, <2>1, <2>2 DEF WorkerCall, Inside
  <2>5. QED
    BY <1>1, <1>3, <2>2, <2>3, <2>4, MoveHeld
<1>5. CASE M!LoadForIncrement(w) \/ M!LoadForDecrement(w)
  <2>1. PICK step \in {"incremented", "decremented"} :
          /\ mcall' = [mcall EXCEPT ![w].at = step, ![w].loaded = mutex[TheMutex].lock_count]
          /\ UNCHANGED mutex
    BY <1>1, <1>5 DEF M!LoadForIncrement, M!LoadForDecrement
  <2>2. /\ mcall'[w].at = step
        /\ \A u \in Workers \cup {Main} : u # w => mcall'[u] = mcall[u]
    BY <1>1, <2>1, MovesCall
  <2>3. UNCHANGED at
    BY <1>2, <2>2
  <2>4. Inside(w)'
    BY <1>1, <2>2, <2>3 DEF Inside
  <2>5. QED
    BY <1>1, <1>3, <2>1, <2>2, <2>4, MoveHeld
<1>6. CASE M!StoreDecremented(w)
  <2>1. /\ mcall' = [mcall EXCEPT ![w].at = "unlock"]
        /\ mutex' = [mutex EXCEPT ![TheMutex].lock_count = mcall[w].loaded - 1]
    BY <1>1, <1>6 DEF M!StoreDecremented, M!Goto
  <2>2. /\ mcall'[w].at = "unlock"
        /\ \A u \in Workers \cup {Main} : u # w => mcall'[u] = mcall[u]
    BY <1>1, <2>1, MovesCall
  <2>3. mutex'[TheMutex].owner = mutex[TheMutex].owner
    BY <1>1, <2>1, MutexTyped DEF MutexTypes
  <2>4. Inside(w)'
    BY <1>1, <1>2, <2>2 DEF Inside
  <2>5. QED
    BY <1>1, <1>3, <2>2, <2>3, <2>4, MoveHeld
<1>7. CASE M!StoreIncremented(w)
  <2>1. /\ mcall' = [mcall EXCEPT ![w] = [M!NotCalling EXCEPT !.result = 1]]
        /\ mutex' = [mutex EXCEPT ![TheMutex].lock_count = mcall[w].loaded + 1]
        /\ mcall[w].at = "incremented"
    BY <1>1, <1>7 DEF M!StoreIncremented, M!Done
  <2>2. /\ mcall'[w].at = "idle"
        /\ \A u \in Workers \cup {Main} : u # w => mcall'[u] = mcall[u]
    BY <1>1, <2>1 DEF M!NotCalling, Calls
  <2>3. mutex'[TheMutex].owner = mutex[TheMutex].owner
    BY <1>1, <2>1, MutexTyped DEF MutexTypes
  <2>4. at'[w] = "load"
    BY <1>1, <1>2, <2>1, <2>2 DEF Jump, ThreadTypes, WorkerCall
  <2>5. QED
    BY <1>1, <1>3, <2>2, <2>3, <2>4, MoveHeld DEF Inside, InBody
<1>8. CASE M!Unlock(w)
  <2>1. /\ mcall' = [mcall EXCEPT ![w] = [M!NotCalling EXCEPT !.result = 0]]
        /\ mutex' = [mutex EXCEPT ![TheMutex].owner = NoThread]
    BY <1>1, <1>8 DEF M!Unlock, M!Done
  <2>2. \A u \in Workers \cup {Main} : u # w => mcall'[u] = mcall[u]
    BY <1>1, <2>1
  <2>3. mutex'[TheMutex].owner = NoThread
    BY <1>1, <2>1, MutexTyped DEF MutexTypes
  <2>4. QED
    BY <1>1, <1>3, <2>2, <2>3, MoveHeld
<1>9. QED
  BY <1>4, <1>5, <1>6, <1>7, <1>8 DEF InsideMutex, M!Proceed

\* In a disciplined program nobody takes the mutex past the call of exit.
LEMMA NextHeld == ThreadsInv /\ MutexInv /\ HeldOnlyInside /\ [Next]_vars => HeldOnlyInside'
<1> SUFFICES ASSUME ThreadsInv, MutexInv, HeldOnlyInside, [Next]_vars PROVE HeldOnlyInside'
  OBVIOUS
<1>1. ThreadTypes /\ MutexTypes
  BY DEF ThreadsInv, MutexInv
<1>2. ASSUME UNCHANGED <<leaves, at, mcall>>,
             mutex'[TheMutex].owner \in {NoThread, mutex[TheMutex].owner}
      PROVE  HeldOnlyInside'
  BY <1>2 DEF HeldOnlyInside, Disciplined, Inside, InBody
<1>3. CASE MainStep
  <2>1. UNCHANGED <<leaves, at, mcall>>
    BY <1>3 DEF MainStep, CreateMutex, RunWorker, GetWorker, InsideGet, PrintTotal, DestroyMutex,
                M!Create, M!Destroy, mvars, wvars
  <2>2. \/ mutex' = [mutex EXCEPT ![TheMutex] = [M!FreshHandle EXCEPT !.state = "live"]]
        \/ mutex' = [mutex EXCEPT ![TheMutex].state = "freed"]
        \/ UNCHANGED mutex
    BY <1>3 DEF MainStep, CreateMutex, RunWorker, GetWorker, InsideGet, PrintTotal, DestroyMutex,
                M!Create, M!Destroy, mvars
  <2>3. mutex'[TheMutex].owner \in {NoThread, mutex[TheMutex].owner}
    BY <1>1, <2>2 DEF MutexTypes, M!FreshHandle
  <2>4. QED
    BY <1>2, <2>1, <2>3
<1>4. ASSUME NEW w \in Workers, UsingEnter(w) \/ UsingExit(w) PROVE HeldOnlyInside'
  <2>1. /\ UNCHANGED <<leaves, mutex>>
        /\ \A v \in Workers : v # w => at'[v] = at[v] /\ mcall'[v] = mcall[v]
    BY <1>1, <1>4 DEF UsingEnter, UsingExit, M!Enter, M!Exit, M!Begin, Jump, ThreadTypes, MutexTypes
  <2>2. at[w] = "head" \/ at'[w] = "exiting"
    BY <1>1, <1>4 DEF UsingEnter, UsingExit, Jump, ThreadTypes
  <2>3. Inside(w) => Inside(w)'
    BY <2>2 DEF Inside, InBody
  <2>4. QED
    BY <2>1, <2>3, MoveHeld
<1>5. ASSUME NEW w \in Workers, LoadCounter(w) \/ StoreCounter(w) \/ LeaveBody(w) \/ LoopEnds(w)
      PROVE  HeldOnlyInside'
  <2>1. /\ UNCHANGED <<leaves, mutex, mcall>>
        /\ \A v \in Workers : v # w => at'[v] = at[v]
    BY <1>1, <1>5 DEF LoadCounter, StoreCounter, LeaveBody, LoopEnds, mvars, Jump, ThreadTypes
  <2>2. at[w] = "head" \/ at'[w] \in {"store", "stored"} \/ ~Disciplined
    BY <1>1, <1>5 DEF LoadCounter, StoreCounter, LeaveBody, LoopEnds, Jump, ThreadTypes, Disciplined
  <2>3. Disciplined /\ Inside(w) => Inside(w)'
    BY <2>2 DEF Inside, InBody
  <2>4. QED
    BY <2>1, <2>3, MoveHeld
<1>6. CASE (\E w \in Workers : Trampoline(w)) \/ UNCHANGED vars
  BY <1>2, <1>6 DEF Trampoline, vars, mvars, wvars
<1>7. QED
  BY <1>3, <1>4, <1>5, <1>6, InsideMutexHeld DEF Next, WorkerStep

-----------------------------------------------------------------------------
\* The loops of the workers.
LEMMA NextLoop == ThreadsInv /\ MutexInv /\ LoopInv /\ [Next]_vars => LoopInv'
<1> SUFFICES ASSUME ThreadsInv, MutexInv, LoopInv, [Next]_vars PROVE LoopInv'
  OBVIOUS
<1>1. /\ round \in [Workers -> 0..Rounds] /\ loaded \in [Workers -> Int] /\ counter \in Int
      /\ at \in [Workers -> Places] /\ Rounds \in Nat
      /\ \A w \in Workers : /\ at[w] \in Places \ {"head", "returned"} => round[w] < Rounds
                            /\ at[w] = "store" => loaded[w] = counter
      /\ main.at \notin {"destroy", "end"} => printed = NotPrinted
  BY DEF LoopInv, ThreadsInv, ThreadTypes
<1>2. CASE MainStep
  <2>1. UNCHANGED <<at, round, loaded, counter>>
    BY <1>2 DEF MainStep, CreateMutex, RunWorker, GetWorker, InsideGet, PrintTotal, DestroyMutex, wvars
  <2>2. main \in [at : {"create", "run", "get", "getting", "print", "destroy", "end"}, next : 1..Len(Order)]
    BY DEF ThreadsInv, ThreadTypes
  <2>3. main'.at \notin {"destroy", "end"} => main.at \notin {"destroy", "end"} /\ printed' = printed
    BY <1>2, <2>2 DEF MainStep, CreateMutex, RunWorker, GetWorker, InsideGet, PrintTotal, DestroyMutex, Advance
  <2>4. QED
    BY <1>1, <2>1, <2>3 DEF LoopInv
<1>3. ASSUME NEW w \in Workers, WorkerStep(w) PROVE LoopInv'
  <2>1. UNCHANGED <<main, printed>>
    BY <1>3 DEF WorkerStep, UsingEnter, InsideMutex, LoadCounter, StoreCounter, UsingExit, LeaveBody, LoopEnds, Trampoline
  <2>2. CASE UsingEnter(w)
    <3>1. UNCHANGED <<round, loaded, counter>> /\ round[w] < Rounds /\ at' = [at EXCEPT ![w] = "entering"]
      BY <2>2 DEF UsingEnter, Jump
    <3>2. QED
      BY <1>1, <2>1, <3>1 DEF LoopInv
  <2>3. CASE InsideMutex(w)
    <3>1. UNCHANGED <<loaded, counter>> /\ at[w] \in {"entering", "exiting"}
      BY <2>3 DEF InsideMutex
    <3>2. \/ UNCHANGED <<at, round>>
          \/ at' = [at EXCEPT ![w] = "load"] /\ UNCHANGED round
          \/ at' = [at EXCEPT ![w] = "head"] /\ round' = [round EXCEPT ![w] = round[w] + 1]
      BY <2>3 DEF InsideMutex, Jump
    <3>3. round[w] + 1 \in 0..Rounds
      <4>1. round[w] \in 0..Rounds /\ round[w] < Rounds
        BY <1>1, <3>1 DEF Places
      <4>2. QED
        BY <4>1
    <3>4. /\ round' \in [Workers -> 0..Rounds]
          /\ \A v \in Workers : v # w => at'[v] = at[v] /\ round'[v] = round[v]
          /\ at'[w] # "store"
          /\ at'[w] \in Places \ {"head", "returned"} => round'[w] < Rounds
      <4>1. round[w] < Rounds
        BY <1>1, <3>1 DEF Places
      <4>2. QED
        BY <1>1, <3>1, <3>2, <3>3, <4>1
    <3>5. QED
      BY <1>1, <2>1, <3>1, <3>4 DEF LoopInv
  <2>4. CASE LoadCounter(w)
    <3>1. /\ UNCHANGED <<round, counter>> /\ loaded' = [loaded EXCEPT ![w] = counter]
          /\ at' = [at EXCEPT ![w] = "store"] /\ at[w] = "load"
      BY <2>4 DEF LoadCounter, Jump
    <3>2. QED
      BY <1>1, <2>1, <3>1 DEF LoopInv, Places
  <2>5. CASE StoreCounter(w)
    <3>1. /\ UNCHANGED <<round, loaded>> /\ counter' = loaded[w] + 1
          /\ at' = [at EXCEPT ![w] = "stored"] /\ at[w] = "store"
      BY <2>5 DEF StoreCounter, Jump
    <3>2. ASSUME NEW v \in Workers, at[v] = "store" PROVE v = w
      <4>1. Inside(v) /\ Inside(w)
        BY <3>1, <3>2 DEF Inside, InBody
      <4>2. QED
        BY <4>1, OneInside
    <3>3. \A v \in Workers : at'[v] # "store"
      BY <1>1, <3>1, <3>2
    <3>4. counter' \in Int
      BY <1>1, <3>1
    <3>5. QED
      BY <1>1, <2>1, <3>1, <3>3, <3>4 DEF LoopInv, Places
  <2>6. CASE UsingExit(w)
    <3>1. UNCHANGED <<round, loaded, counter>> /\ at' = [at EXCEPT ![w] = "exiting"] /\ at[w] = "stored"
      BY <2>6 DEF UsingExit, Jump
    <3>2. QED
      BY <1>1, <2>1, <3>1 DEF LoopInv, Places
  <2>7. CASE LeaveBody(w)
    <3>1. UNCHANGED <<loaded, counter>> /\ at[w] = "stored"
      BY <2>7 DEF LeaveBody
    <3>2. \/ at' = [at EXCEPT ![w] = "head"] /\ round' = [round EXCEPT ![w] = round[w] + 1]
          \/ at' = [at EXCEPT ![w] = "returned"] /\ UNCHANGED round
      BY <2>7 DEF LeaveBody, Jump
    <3>3. round[w] + 1 \in 0..Rounds
      <4>1. round[w] \in 0..Rounds /\ round[w] < Rounds
        BY <1>1, <3>1 DEF Places
      <4>2. QED
        BY <4>1
    <3>4. /\ round' \in [Workers -> 0..Rounds]
          /\ \A v \in Workers : v # w => at'[v] = at[v] /\ round'[v] = round[v]
          /\ at'[w] # "store"
          /\ at'[w] \in Places \ {"head", "returned"} => round'[w] < Rounds
      <4>1. round[w] < Rounds
        BY <1>1, <3>1 DEF Places
      <4>2. QED
        BY <1>1, <3>1, <3>2, <3>3, <4>1
    <3>5. QED
      BY <1>1, <2>1, <3>1, <3>4 DEF LoopInv
  <2>8. CASE LoopEnds(w)
    <3>1. UNCHANGED <<round, loaded, counter>> /\ at' = [at EXCEPT ![w] = "returned"]
      BY <2>8 DEF LoopEnds, Jump
    <3>2. QED
      BY <1>1, <2>1, <3>1 DEF LoopInv
  <2>9. CASE Trampoline(w)
    <3>1. UNCHANGED <<at, round, loaded, counter>>
      BY <2>9 DEF Trampoline, wvars
    <3>2. QED
      BY <1>1, <2>1, <3>1 DEF LoopInv
  <2>10. QED
    BY <1>3, <2>2, <2>3, <2>4, <2>5, <2>6, <2>7, <2>8, <2>9 DEF WorkerStep
<1>4. CASE UNCHANGED vars
  BY <1>1, <1>4 DEF vars, wvars, LoopInv
<1>5. QED
  BY <1>2, <1>3, <1>4 DEF Next

\* The four parts hold in every state.
LEMMA UsingInOrder == Spec => []UInv
<1>1. UInv /\ [Next]_vars => UInv'
  BY NextThreads, NextMutex, NextHeld, NextLoop DEF UInv
<1>2. QED
  BY <1>1, InitUInv, PTL DEF Spec


\* Two workers are never in the body of the using at once, whatever bodies were left
\* without the call of exit before.
THEOREM BodiesExclude == Spec => []MutualExclusion
<1>1. UInv => MutualExclusion
  <2> SUFFICES ASSUME UInv, NEW v \in Workers, NEW w \in Workers, InBody(v), InBody(w) PROVE v = w
    BY DEF MutualExclusion
  <2>1. Inside(v) /\ Inside(w)
    BY DEF Inside
  <2>2. QED
    BY <2>1, OneInside DEF UInv
<1>2. QED
  BY <1>1, UsingInOrder, PTL

\* In a program whose bodies come to their end, the mutex others wait for is always in
\* the hands of a worker on the way to its unlock: no deadlock.
THEOREM NobodyKeepsTheMutex == Spec => []HeldOnlyInside
BY UsingInOrder, PTL DEF UInv

\* The mutex outlives every call on it, and every handle the stores of its thread.
THEOREM NothingUsedAfterFree == Spec => []NoUseAfterFree
<1>1. UInv => NoUseAfterFree
  <2> SUFFICES ASSUME UInv PROVE NoUseAfterFree
    OBVIOUS
  <2>1. ASSUME NEW t \in Workers \cup {Main}, mcall[t].on = TheMutex PROVE mutex[TheMutex].state = "live"
    <3>1. t \in Workers /\ WorkerCall(t) /\ NoMutex # TheMutex
      BY <2>1 DEF UInv, MutexInv
    <3>2. at[t] \in {"entering", "exiting"}
      BY <2>1, <3>1 DEF WorkerCall
    <3>3. main.at \in {"create", "run", "get", "getting", "print", "destroy", "end"}
      BY DEF UInv, ThreadsInv, ThreadTypes
    <3>4. main.at \in {"run", "get", "getting"}
      BY <3>1, <3>2, <3>3, MutexThere DEF UInv
    <3>5. QED
      BY <3>4 DEF UInv, MutexInv
  <2>2. QED
    BY <2>1 DEF NoUseAfterFree, UInv, ThreadsInv, ThreadTypes
<1>2. QED
  BY <1>1, UsingInOrder, PTL

-----------------------------------------------------------------------------
\* The additions left to worker w, and to all.
LeftTo(w) == IF at[w] = "returned" THEN 0 ELSE Rounds - Stored(w)
Left == [w \in Workers |-> LeftTo(w)]

\* The counter starts at zero, with all additions to come.
LEMMA InitCounter == Init => Counter!Init
<1> SUFFICES ASSUME Init PROVE Counter!Init
  OBVIOUS
<1>1. ASSUME NEW w \in Workers PROVE LeftTo(w) = Rounds
  BY DEF Init, LeftTo, Stored
<1>2. Left = [w \in Workers |-> Rounds]
  BY <1>1 DEF Left
<1>3. QED
  BY <1>2 DEF Init, Counter!Init, Left, LeftTo

\* Every step is an addition, an early stop, the output, or nothing of the counter.
LEMMA StepCounter == UInv /\ [Next]_vars => [Counter!Next]_(Counter!vars)
<1> SUFFICES ASSUME UInv, [Next]_vars PROVE [Counter!Next]_(Counter!vars)
  OBVIOUS
<1>1. /\ round \in [Workers -> 0..Rounds] /\ loaded \in [Workers -> Int] /\ counter \in Int
      /\ at \in [Workers -> Places] /\ Rounds \in Nat
      /\ \A w \in Workers : /\ at[w] \in Places \ {"head", "returned"} => round[w] < Rounds
                            /\ at[w] = "store" => loaded[w] = counter
      /\ main.at \notin {"destroy", "end"} => printed = NotPrinted
  BY DEF UInv, LoopInv, ThreadsInv, ThreadTypes
<1>2. ASSUME UNCHANGED <<counter, leaves, printed>>, \A w \in Workers : LeftTo(w)' = LeftTo(w)
      PROVE  UNCHANGED Counter!vars
  <2>1. Left' = Left
    BY <1>2 DEF Left
  <2>2. QED
    BY <1>2, <2>1 DEF Counter!vars, Left, LeftTo, Disciplined
<1>3. CASE MainStep /\ ~PrintTotal
  <2>1. UNCHANGED <<at, round, counter, leaves, printed>>
    BY <1>3 DEF MainStep, CreateMutex, RunWorker, GetWorker, InsideGet, DestroyMutex, wvars
  <2>2. QED
    BY <1>2, <2>1 DEF LeftTo, Stored
<1>4. CASE PrintTotal
  <2>1. UNCHANGED <<at, round, counter, leaves>> /\ main.at = "print" /\ printed' = counter
    BY <1>4 DEF PrintTotal, wvars
  <2>2. printed = NotPrinted
    BY <1>1, <2>1
  <2>3. \A w \in Workers : at[w] = "returned"
    BY <2>1, MutexThere DEF UInv
  <2>4. \A w \in Workers : Left[w] = 0
    BY <2>3 DEF Left, LeftTo
  <2>5. Left' = Left
    BY <2>1 DEF Left, LeftTo, Stored
  <2>6. Counter!PrintTotal
    BY <2>1, <2>2, <2>4, <2>5 DEF Counter!PrintTotal, Left, LeftTo, Disciplined
  <2>7. QED
    BY <2>6 DEF Counter!Next
<1>5. ASSUME NEW w \in Workers, StoreCounter(w) PROVE Counter!Add(w)
  <2>1. /\ UNCHANGED <<round, leaves, printed>> /\ counter' = loaded[w] + 1
        /\ at' = [at EXCEPT ![w] = "stored"] /\ at[w] = "store"
    BY <1>5 DEF StoreCounter, Jump
  <2>2. counter' = counter + 1 /\ round[w] \in 0..Rounds /\ round[w] < Rounds
    BY <1>1, <2>1 DEF Places
  <2>3. LeftTo(w) = Rounds - round[w] /\ LeftTo(w)' = Rounds - (round[w] + 1)
    BY <1>1, <2>1 DEF LeftTo, Stored
  <2>4. LeftTo(w) > 0 /\ LeftTo(w)' = LeftTo(w) - 1
    BY <1>1, <2>2, <2>3
  <2>5. \A v \in Workers : v # w => LeftTo(v)' = LeftTo(v)
    BY <1>1, <2>1 DEF LeftTo, Stored
  <2>6. Left' = [Left EXCEPT ![w] = Left[w] - 1] /\ Left[w] > 0
    BY <2>4, <2>5 DEF Left
  <2>7. QED
    BY <2>1, <2>2, <2>6 DEF Counter!Add, Left, LeftTo, Disciplined
<1>6. ASSUME NEW w \in Workers, LeaveBody(w) PROVE Counter!Stop(w) \/ UNCHANGED Counter!vars
  <2>1. UNCHANGED <<leaves, printed, counter>> /\ at[w] = "stored" /\ round[w] \in 0..Rounds /\ round[w] < Rounds
    BY <1>1, <1>6 DEF LeaveBody, Places
  <2>2. LeftTo(w) = Rounds - (round[w] + 1)
    BY <2>1 DEF LeftTo, Stored
  <2>3. CASE at' = [at EXCEPT ![w] = "head"] /\ round' = [round EXCEPT ![w] = round[w] + 1]
    <3>1. LeftTo(w)' = Rounds - (round[w] + 1)
      BY <1>1, <2>3 DEF LeftTo, Stored
    <3>2. \A v \in Workers : v # w => LeftTo(v)' = LeftTo(v)
      BY <1>1, <2>3 DEF LeftTo, Stored
    <3>3. QED
      BY <1>2, <2>1, <2>2, <3>1, <3>2
  <2>4. CASE {"break", "return"} \cap leaves # {} /\ at' = [at EXCEPT ![w] = "returned"] /\ UNCHANGED round
    <3>1. LeftTo(w)' = 0
      BY <1>1, <2>4 DEF LeftTo
    <3>2. \A v \in Workers : v # w => LeftTo(v)' = LeftTo(v)
      BY <1>1, <2>4 DEF LeftTo, Stored
    <3>3. CASE LeftTo(w) = 0
      BY <1>2, <2>1, <3>1, <3>2, <3>3
    <3>4. CASE LeftTo(w) # 0
      <4>1. LeftTo(w) > 0
        BY <1>1, <2>1, <2>2, <3>4
      <4>2. Left' = [Left EXCEPT ![w] = 0] /\ Left[w] > 0
        BY <3>1, <3>2, <4>1 DEF Left
      <4>3. ~Disciplined
        BY <2>4 DEF Disciplined
      <4>4. QED
        BY <2>1, <4>2, <4>3 DEF Counter!Stop, Left, LeftTo, Disciplined
    <3>5. QED
      BY <3>3, <3>4
  <2>5. QED
    BY <1>6, <2>3, <2>4 DEF LeaveBody, Jump
<1>7. ASSUME NEW w \in Workers, WorkerStep(w), ~StoreCounter(w), ~LeaveBody(w) PROVE UNCHANGED Counter!vars
  <2>1. UNCHANGED <<counter, leaves, printed>>
    BY <1>7 DEF WorkerStep, UsingEnter, InsideMutex, LoadCounter, UsingExit, LoopEnds, Trampoline, wvars
  <2>2. \A v \in Workers : v # w => at'[v] = at[v] /\ round'[v] = round[v]
    BY <1>1, <1>7 DEF WorkerStep, UsingEnter, InsideMutex, LoadCounter, UsingExit, LoopEnds, Trampoline, wvars, Jump
  <2>3. \/ at'[w] = at[w] /\ round'[w] = round[w]
        \/ at[w] \in {"head", "entering", "load"} /\ at'[w] \in {"entering", "load", "store"} /\ round'[w] = round[w]
        \/ at[w] = "stored" /\ at'[w] = "exiting" /\ round'[w] = round[w]
        \/ at[w] = "exiting" /\ at'[w] = "head" /\ round'[w] = round[w] + 1
        \/ at[w] = "head" /\ at'[w] = "returned" /\ round[w] = Rounds
    BY <1>1, <1>7 DEF WorkerStep, UsingEnter, InsideMutex, LoadCounter, UsingExit, LoopEnds, Trampoline, wvars, Jump
  <2>4. \A v \in Workers : v # w => LeftTo(v)' = LeftTo(v)
    BY <2>2 DEF LeftTo, Stored
  <2>5. LeftTo(w)' = LeftTo(w)
    BY <1>1, <2>3 DEF LeftTo, Stored
  <2>6. QED
    BY <1>2, <2>1, <2>4, <2>5
<1>8. CASE UNCHANGED vars
  BY <1>2, <1>8 DEF vars, wvars, LeftTo, Stored
<1>9. QED
  BY <1>3, <1>4, <1>5, <1>6, <1>7, <1>8 DEF Next, Counter!Next

\* The program implements the atomic counter: its loads and stores between enter and
\* exit are single additions, and the total is printed when all workers are done.
THEOREM UsingIsAtomic == Spec => ImplementsAtomicCounter
BY InitCounter, StepCounter, UsingInOrder, PTL DEF Spec, ImplementsAtomicCounter, Counter!Spec
=============================================================================
