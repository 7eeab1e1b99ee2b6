--------------------------- MODULE ThreadHandles ---------------------------
(***************************************************************************)
(* stdlib/threads/threads.c: handles of threads, and the calls thread_run, *)
(* thread_join and thread_get that a program makes on them.                *)
(*                                                                         *)
(* The thread itself runs the trampoline, which writes its result and then *)
(* its done flag into the handle; thread_get reads the result and frees    *)
(* the handle.  pthread_create and pthread_join are external: create       *)
(* starts the thread or fails, join waits for the thread to end.           *)
(*                                                                         *)
(* What POSIX leaves undefined (joining a thread twice, or one that was    *)
(* never created) and what C leaves undefined (touching a freed handle) is *)
(* recorded in `undefined`, and the program is not followed any further.   *)
(***************************************************************************)
EXTENDS Integers, FiniteSets

CONSTANTS
  Callers,     \* threads that start and wait for other threads
  Handles,     \* one handle for each thread that can be started
  Answer,      \* Answer[h]: what the function of the thread returns
  Uses,        \* how many calls of join or get the program makes on a handle
  CreateFails, \* can pthread_create fail?
  NoHandle

ASSUME AnswerAssumption == Answer \in [Handles -> Int]
ASSUME UsesAssumption   == Uses \in Nat /\ CreateFails \in BOOLEAN
ASSUME HandleAssumption == NoHandle \notin Handles

VARIABLES
  handle,    \* handle[h]: the thread_handle block
  thread,    \* thread[h]: the trampoline's progress
  joined,    \* joined[h]: has a pthread_join of the thread returned?
  used,      \* used[h]: calls of join or get begun on h
  tcall,     \* tcall[c]: the call c is in
  undefined  \* has the program done something undefined?

tvars == <<handle, thread, joined, used, tcall, undefined>>

NoCall == [op |-> "none", on |-> NoHandle, at |-> "idle", result |-> 0]

TInit ==
  /\ handle = [h \in Handles |-> [state |-> "none", result |-> 0, done |-> FALSE]]
  /\ thread = [h \in Handles |-> "none"]
  /\ joined = [h \in Handles |-> FALSE]
  /\ used   = [h \in Handles |-> 0]
  /\ tcall  = [c \in Callers |-> NoCall]
  /\ undefined = FALSE

Defined == ~undefined
Live(h) == handle[h].state = "live"

-----------------------------------------------------------------------------
\* thread_run: the handle is allocated and filled in before the thread exists, and
\* returned whether or not pthread_create succeeded.
ThreadRun(c, h) ==
  /\ Defined /\ tcall[c].at = "idle" /\ handle[h].state = "none"
  /\ handle' = [handle EXCEPT ![h].state = "live"]
  /\ \E outcome \in {"running"} \cup (IF CreateFails THEN {"failed"} ELSE {}) :
       thread' = [thread EXCEPT ![h] = outcome]
  /\ UNCHANGED <<joined, used, tcall, undefined>>

\* trampoline: h->result = h->fn(h->arg) ...
StoreResult(h) ==
  /\ Defined /\ thread[h] = "running"
  /\ IF Live(h)
       THEN /\ handle' = [handle EXCEPT ![h].result = Answer[h]]
            /\ thread' = [thread EXCEPT ![h] = "returned"]
            /\ UNCHANGED undefined
       ELSE undefined' = TRUE /\ UNCHANGED <<handle, thread>>
  /\ UNCHANGED <<joined, used, tcall>>

\* ... h->done = 1, and the thread ends.
StoreDone(h) ==
  /\ Defined /\ thread[h] = "returned"
  /\ IF Live(h)
       THEN /\ handle' = [handle EXCEPT ![h].done = TRUE]
            /\ thread' = [thread EXCEPT ![h] = "ended"]
            /\ UNCHANGED undefined
       ELSE undefined' = TRUE /\ UNCHANGED <<handle, thread>>
  /\ UNCHANGED <<joined, used, tcall>>

-----------------------------------------------------------------------------
\* Mutant: thread_get does not join the thread.
CallWithoutJoin(c, h, op) ==
  /\ Defined /\ tcall[c].at = "idle" /\ handle[h].state # "none" /\ used[h] < Uses
  /\ used' = [used EXCEPT ![h] = @ + 1]
  /\ tcall' = [tcall EXCEPT ![c] = [op |-> op, on |-> h, result |-> 0,
                                   at |-> IF op = "get" THEN "read" ELSE "join"]]
  /\ UNCHANGED <<handle, thread, joined, undefined>>

\* The program calls thread_join or thread_get on a handle it was given.
Call(c, h, op) ==
  /\ Defined /\ tcall[c].at = "idle" /\ handle[h].state # "none" /\ used[h] < Uses
  /\ used' = [used EXCEPT ![h] = @ + 1]
  /\ tcall' = [tcall EXCEPT ![c] = [op |-> op, on |-> h, at |-> "join", result |-> 0]]
  /\ UNCHANGED <<handle, thread, joined, undefined>>

\* pthread_join(h->thread, NULL) returns when the thread has ended.
Join(c) ==
  LET h == tcall[c].on
  IN  /\ Defined /\ tcall[c].at = "join"
      /\ thread[h] = "ended" /\ Live(h) /\ ~joined[h]
      /\ joined' = [joined EXCEPT ![h] = TRUE]
      /\ tcall' = [tcall EXCEPT ![c] = IF @.op = "get" THEN [@ EXCEPT !.at = "read"] ELSE NoCall]
      /\ UNCHANGED <<handle, thread, used, undefined>>

\* The handle is freed, the thread was joined before, or it never existed.
JoinUndefined(c) ==
  LET h == tcall[c].on
  IN  /\ Defined /\ tcall[c].at = "join"
      /\ ~Live(h) \/ joined[h] \/ thread[h] = "failed"
      /\ undefined' = TRUE
      /\ UNCHANGED <<handle, thread, joined, used, tcall>>

\* thread_get: long result = h->result ...
ReadResult(c) ==
  LET h == tcall[c].on
  IN  /\ Defined /\ tcall[c].at = "read"
      /\ IF Live(h)
           THEN /\ tcall' = [tcall EXCEPT ![c].at = "free", ![c].result = handle[h].result]
                /\ UNCHANGED undefined
           ELSE undefined' = TRUE /\ UNCHANGED tcall
      /\ UNCHANGED <<handle, thread, joined, used>>

\* Mutant: the handle is not freed.
ReturnUnfreed(c) ==
  /\ Defined /\ tcall[c].at = "free"
  /\ tcall' = [tcall EXCEPT ![c] = [@ EXCEPT !.op = "got", !.at = "idle"]]
  /\ UNCHANGED <<handle, thread, joined, used, undefined>>

\* ... free(h), and the result is returned.
FreeHandle(c) ==
  LET h == tcall[c].on
  IN  /\ Defined /\ tcall[c].at = "free"
      /\ IF Live(h)
           THEN /\ handle' = [handle EXCEPT ![h].state = "freed"]
                /\ UNCHANGED undefined
           ELSE undefined' = TRUE /\ UNCHANGED handle
      /\ tcall' = [tcall EXCEPT ![c] = [@ EXCEPT !.op = "got", !.at = "idle"]]
      /\ UNCHANGED <<thread, joined, used>>

-----------------------------------------------------------------------------
Trampoline(h) == StoreResult(h) \/ StoreDone(h)

Proceed(c) == Join(c) \/ JoinUndefined(c) \/ ReadResult(c) \/ FreeHandle(c)

TNext ==
  \/ \E h \in Handles : Trampoline(h)
  \/ \E c \in Callers :
       \/ Proceed(c)
       \/ \E h \in Handles :
            ThreadRun(c, h) \/ \E op \in {"join", "get"} : Call(c, h, op)

\* The functions of the threads end, and a caller goes on inside its call.
TFairness ==
  /\ \A h \in Handles : WF_tvars(Trampoline(h))
  /\ \A c \in Callers : WF_tvars(Proceed(c))

TSpec == TInit /\ [][TNext]_tvars /\ TFairness

-----------------------------------------------------------------------------
\* Only a second wait for the same thread or a failed creation leads there: the
\* trampoline, the joins and the frees of different callers and threads, in any
\* order, do not (stdlib/threads/threads.c:15-20, 38-54).
UndefinedOnlyByMisuse ==
  undefined => \E h \in Handles : used[h] > 1 \/ thread[h] = "failed"

\* What get returns is what the thread's function returned, never the zero the
\* handle starts with (stdlib/threads/threads.c:17, 49).
GetReturnsAnswer ==
  \A c \in Callers :
    tcall[c].at = "free" \/ tcall[c].op = "got" => tcall[c].result = Answer[tcall[c].on]

\* A handle is freed only when its thread has written to it for the last time
\* (stdlib/threads/threads.c:17-18, 50).
FreedAfterEnd == \A h \in Handles : handle[h].state = "freed" => thread[h] = "ended"

\* Every get returns, and its handle is freed, unless the program did something
\* undefined: no caller waits for ever (stdlib/threads/threads.c:45-54).
GetReturns ==
  \A c \in Callers, h \in Handles :
    tcall[c].op = "get" /\ tcall[c].on = h
      ~> \/ undefined
         \/ handle[h].state = "freed" /\ tcall[c].op = "got"
=============================================================================
