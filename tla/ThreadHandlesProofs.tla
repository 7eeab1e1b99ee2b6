------------------------ MODULE ThreadHandlesProofs ------------------------
(***************************************************************************)
(* Proofs about ThreadHandles for any number of callers and threads and any *)
(* number of calls: a caller that waits once for each thread never touches *)
(* a freed handle, and gets what the thread returned.                      *)
(***************************************************************************)
EXTENDS ThreadHandles, TLAPS

USE AnswerAssumption, UsesAssumption, HandleAssumption

Blocks == [state : {"none", "live", "freed"}, result : Int, done : BOOLEAN]

Calls == [op : {"none", "join", "get", "got"}, on : Handles \cup {NoHandle},
          at : {"idle", "join", "read", "free"}, result : Int]

TTypeOK ==
  /\ handle \in [Handles -> Blocks]
  /\ thread \in [Handles -> {"none", "running", "failed", "returned", "ended"}]
  /\ joined \in [Handles -> BOOLEAN]
  /\ used \in [Handles -> Nat]
  /\ tcall \in [Callers -> Calls]
  /\ undefined \in BOOLEAN
  /\ \A c \in Callers : tcall[c].at # "idle" \/ tcall[c].op = "got" => tcall[c].on \in Handles

\* The life of a handle follows the life of its thread.
HandleFollowsThread ==
  \A h \in Handles :
    /\ handle[h].state = "none" <=> thread[h] = "none"
    /\ joined[h] => thread[h] = "ended"
    /\ handle[h].state = "freed" => joined[h]
    /\ thread[h] \in {"returned", "ended"} => handle[h].result = Answer[h]

\* The caller of get that joined the thread is the only one that has it to itself.
Reading(c) == tcall[c].at \in {"read", "free"}

OneReader ==
  /\ \A c \in Callers : Reading(c) => /\ handle[tcall[c].on].state = "live"
                                      /\ joined[tcall[c].on]
  /\ \A c, d \in Callers : Reading(c) /\ Reading(d) /\ c # d => tcall[c].on # tcall[d].on

\* A wait under way is a use of the handle, and so is the one that joined the thread.
Joining(c, h) == tcall[c].at = "join" /\ tcall[c].on = h

WaitsAreUses ==
  \A h \in Handles :
    /\ joined[h] => used[h] >= 1
    /\ \A c \in Callers : Joining(c, h) => /\ handle[h].state # "none"
                                           /\ used[h] >= 1
                                           /\ joined[h] => used[h] > 1
    /\ \A c, d \in Callers : Joining(c, h) /\ Joining(d, h) /\ c # d => used[h] > 1

\* A call that returned an answer is over.
GotIsIdle == \A c \in Callers : tcall[c].op = "got" => tcall[c].at = "idle"

TInv ==
  /\ TTypeOK /\ HandleFollowsThread /\ OneReader /\ WaitsAreUses /\ GetReturnsAnswer /\ GotIsIdle
  /\ UndefinedOnlyByMisuse

-----------------------------------------------------------------------------
\* The steps of thread_get leave a call.
LEMMA CallTyped ==
  ASSUME tcall \in [Callers -> Calls], NEW c \in Callers, NEW n \in Int
  PROVE  /\ [tcall EXCEPT ![c].at = "free", ![c].result = n] \in [Callers -> Calls]
         /\ [tcall EXCEPT ![c].op = "got", ![c].at = "idle"] \in [Callers -> Calls]
BY DEF Calls

\* No thread exists at first.
LEMMA InitTInv == TInit => TInv
<1> SUFFICES ASSUME TInit PROVE TInv
  OBVIOUS
<1> USE DEF TInit, NoCall
<1>1. TTypeOK
  <2>1. 0 \in Int /\ 0 \in Nat
    OBVIOUS
  <2>2. [state |-> "none", result |-> 0, done |-> FALSE] \in Blocks
    BY <2>1 DEF Blocks
  <2>3. [op |-> "none", on |-> NoHandle, at |-> "idle", result |-> 0] \in Calls
    BY <2>1 DEF Calls
  <2>4. QED
    BY <2>2, <2>3 DEF TTypeOK
<1>2. HandleFollowsThread /\ UndefinedOnlyByMisuse
  BY DEF HandleFollowsThread, UndefinedOnlyByMisuse
<1>3. OneReader /\ WaitsAreUses /\ GetReturnsAnswer /\ GotIsIdle
  BY DEF OneReader, Reading, WaitsAreUses, Joining, GetReturnsAnswer, GotIsIdle
<1>4. QED
  BY <1>1, <1>2, <1>3 DEF TInv

\* thread_run.
LEMMA ThreadRunTInv ==
  ASSUME TInv, NEW c \in Callers, NEW h \in Handles, ThreadRun(c, h)
  PROVE  TInv'
<1> USE DEF TInv
<1>1. PICK outcome \in {"running", "failed"} : thread' = [thread EXCEPT ![h] = outcome]
  BY DEF ThreadRun
<1>2. /\ handle[h].state = "none" /\ handle' = [handle EXCEPT ![h].state = "live"]
      /\ UNCHANGED <<joined, used, tcall, undefined>> /\ ~undefined
  BY DEF ThreadRun, Defined
<1>3. ~joined[h]
  BY <1>2 DEF HandleFollowsThread
<1>4. TTypeOK'
  BY <1>1, <1>2 DEF TTypeOK, Blocks
<1>5. HandleFollowsThread'
  BY <1>1, <1>2 DEF HandleFollowsThread, TTypeOK, Blocks
<1>6. OneReader' /\ WaitsAreUses'
  BY <1>2, <1>3 DEF OneReader, Reading, WaitsAreUses, Joining, TTypeOK, Blocks
<1>7. GetReturnsAnswer' /\ GotIsIdle' /\ UndefinedOnlyByMisuse'
  BY <1>2 DEF GetReturnsAnswer, GotIsIdle, UndefinedOnlyByMisuse
<1>8. QED
  BY <1>4, <1>5, <1>6, <1>7

\* The two stores of the trampoline find the handle there.
LEMMA StoreResultTInv ==
  ASSUME TInv, NEW h \in Handles, StoreResult(h)
  PROVE  TInv'
<1> USE DEF TInv
<1>1. thread[h] = "running" /\ Live(h) /\ ~undefined
  BY DEF StoreResult, Defined, HandleFollowsThread, TTypeOK, Blocks, Live
<1>2. /\ handle' = [handle EXCEPT ![h].result = Answer[h]]
      /\ thread' = [thread EXCEPT ![h] = "returned"]
      /\ UNCHANGED <<joined, used, tcall, undefined>>
  BY <1>1 DEF StoreResult
<1>3. ~joined[h]
  BY <1>1 DEF HandleFollowsThread
<1>4. TTypeOK'
  BY <1>2 DEF TTypeOK, Blocks
<1>5. HandleFollowsThread'
  BY <1>1, <1>2, <1>3 DEF HandleFollowsThread, TTypeOK, Blocks, Live
<1>6. OneReader' /\ WaitsAreUses'
  BY <1>2 DEF OneReader, Reading, WaitsAreUses, Joining, TTypeOK, Blocks
<1>7. GetReturnsAnswer' /\ GotIsIdle' /\ UndefinedOnlyByMisuse'
  BY <1>1, <1>2 DEF GetReturnsAnswer, GotIsIdle, UndefinedOnlyByMisuse
<1>8. QED
  BY <1>4, <1>5, <1>6, <1>7

\* The last store of a thread, handle->done.
LEMMA StoreDoneTInv ==
  ASSUME TInv, NEW h \in Handles, StoreDone(h)
  PROVE  TInv'
<1> USE DEF TInv
<1>1. thread[h] = "returned" /\ Live(h) /\ ~undefined
  BY DEF StoreDone, Defined, HandleFollowsThread, TTypeOK, Blocks, Live
<1>2. /\ handle' = [handle EXCEPT ![h].done = TRUE]
      /\ thread' = [thread EXCEPT ![h] = "ended"]
      /\ UNCHANGED <<joined, used, tcall, undefined>>
  BY <1>1 DEF StoreDone
<1>4. TTypeOK'
  BY <1>2 DEF TTypeOK, Blocks
<1>5. HandleFollowsThread'
  BY <1>1, <1>2 DEF HandleFollowsThread, TTypeOK, Blocks, Live
<1>6. OneReader' /\ WaitsAreUses'
  BY <1>2 DEF OneReader, Reading, WaitsAreUses, Joining, TTypeOK, Blocks
<1>7. GetReturnsAnswer' /\ GotIsIdle' /\ UndefinedOnlyByMisuse'
  BY <1>1, <1>2 DEF GetReturnsAnswer, GotIsIdle, UndefinedOnlyByMisuse
<1>8. QED
  BY <1>4, <1>5, <1>6, <1>7

\* The call of thread_join or thread_get: one more use of the handle.
LEMMA CallTInv ==
  ASSUME TInv, NEW c \in Callers, NEW h \in Handles, NEW op \in {"join", "get"}, Call(c, h, op)
  PROVE  TInv'
<1> USE DEF TInv
<1>1. /\ tcall[c].at = "idle" /\ handle[h].state # "none" /\ ~undefined
      /\ used' = [used EXCEPT ![h] = used[h] + 1]
      /\ tcall' = [tcall EXCEPT ![c] = [op |-> op, on |-> h, at |-> "join", result |-> 0]]
      /\ UNCHANGED <<handle, thread, joined, undefined>>
  BY DEF Call, Defined
<1>2. /\ \A d \in Callers \ {c} : tcall'[d] = tcall[d]
      /\ tcall'[c] = [op |-> op, on |-> h, at |-> "join", result |-> 0]
      /\ used'[h] = used[h] + 1 /\ \A g \in Handles \ {h} : used'[g] = used[g]
  BY <1>1 DEF TTypeOK
<1>3. TTypeOK'
  BY <1>1, <1>2 DEF TTypeOK, Calls
<1>4. HandleFollowsThread' /\ UndefinedOnlyByMisuse'
  BY <1>1 DEF HandleFollowsThread, UndefinedOnlyByMisuse
<1>5. OneReader'
  BY <1>1, <1>2 DEF OneReader, Reading
<1>6. WaitsAreUses'
  BY <1>1, <1>2 DEF WaitsAreUses, Joining, TTypeOK
<1>7. GetReturnsAnswer' /\ GotIsIdle'
  BY <1>2 DEF GetReturnsAnswer, GotIsIdle
<1>8. QED
  BY <1>3, <1>4, <1>5, <1>6, <1>7

\* pthread_join returns, to one caller.
LEMMA JoinTInv ==
  ASSUME TInv, NEW c \in Callers, Join(c)
  PROVE  TInv'
<1> USE DEF TInv
<1>1. PICK h \in Handles : h = tcall[c].on
  BY DEF Join, TTypeOK
<1>2. /\ tcall[c].at = "join" /\ thread[h] = "ended" /\ Live(h) /\ ~joined[h] /\ ~undefined
      /\ joined' = [joined EXCEPT ![h] = TRUE]
      /\ tcall' = [tcall EXCEPT ![c] = IF @.op = "get" THEN [@ EXCEPT !.at = "read"] ELSE NoCall]
      /\ UNCHANGED <<handle, thread, used, undefined>>
  BY <1>1 DEF Join, Defined
<1>3. /\ \A d \in Callers \ {c} : tcall'[d] = tcall[d]
      /\ tcall'[c] = IF tcall[c].op = "get" THEN [tcall[c] EXCEPT !.at = "read"] ELSE NoCall
      /\ joined'[h] /\ \A g \in Handles \ {h} : joined'[g] = joined[g]
  BY <1>2 DEF TTypeOK
<1>4. (tcall'[c].at = "read" /\ tcall'[c].on = h /\ tcall'[c].op = "get") \/ tcall'[c] = NoCall
  BY <1>1, <1>3 DEF TTypeOK, Calls
<1>5. TTypeOK'
  <2>1. tcall'[c] \in Calls
    BY <1>3 DEF TTypeOK, Calls, NoCall
  <2>2. tcall' \in [Callers -> Calls]
    BY <1>2, <1>3, <2>1 DEF TTypeOK
  <2>3. QED
    BY <1>2, <1>3, <1>4, <2>2 DEF TTypeOK, NoCall
<1>6. HandleFollowsThread' /\ UndefinedOnlyByMisuse'
  BY <1>2, <1>3 DEF HandleFollowsThread, UndefinedOnlyByMisuse
<1>7. \A d \in Callers : Reading(d) => tcall[d].on # h
  BY <1>2 DEF OneReader
<1>8. OneReader'
  BY <1>2, <1>3, <1>4, <1>7 DEF OneReader, Reading, NoCall, Live, TTypeOK
<1>9. WaitsAreUses'
  BY <1>1, <1>2, <1>3, <1>4 DEF WaitsAreUses, Joining, NoCall, TTypeOK
<1>10. GetReturnsAnswer' /\ GotIsIdle'
  <2>1. tcall'[c].at # "free" /\ tcall'[c].op # "got"
    BY <1>4 DEF NoCall
  <2>2. QED
    BY <1>3, <2>1 DEF GetReturnsAnswer, GotIsIdle
<1>11. QED
  BY <1>5, <1>6, <1>8, <1>9, <1>10

\* A join that POSIX or C leaves undefined: the thread was waited for before, or
\* was never created.
LEMMA JoinUndefinedTInv ==
  ASSUME TInv, NEW c \in Callers, JoinUndefined(c)
  PROVE  TInv'
<1> USE DEF TInv
<1>1. PICK h \in Handles : h = tcall[c].on
  BY DEF JoinUndefined, TTypeOK
<1>2. /\ Joining(c, h) /\ (~Live(h) \/ joined[h] \/ thread[h] = "failed")
      /\ undefined' = TRUE /\ UNCHANGED <<handle, thread, joined, used, tcall>>
  BY <1>1 DEF JoinUndefined, Joining
<1>3. used[h] > 1 \/ thread[h] = "failed"
  BY <1>2 DEF HandleFollowsThread, WaitsAreUses, Live, TTypeOK, Blocks
<1>4. TTypeOK' /\ HandleFollowsThread' /\ OneReader' /\ WaitsAreUses'
  BY <1>2 DEF TTypeOK, HandleFollowsThread, OneReader, Reading, WaitsAreUses, Joining
<1>5. GetReturnsAnswer' /\ GotIsIdle' /\ UndefinedOnlyByMisuse'
  BY <1>2, <1>3 DEF GetReturnsAnswer, GotIsIdle, UndefinedOnlyByMisuse
<1>6. QED
  BY <1>4, <1>5

\* thread_get reads the result ...
LEMMA ReadResultTInv ==
  ASSUME TInv, NEW c \in Callers, ReadResult(c)
  PROVE  TInv'
<1> USE DEF TInv
<1>1. PICK h \in Handles : h = tcall[c].on
  BY DEF ReadResult, TTypeOK
<1>2. Reading(c) /\ tcall[c].at = "read" /\ Live(h) /\ joined[h] /\ ~undefined
  BY <1>1 DEF ReadResult, Reading, OneReader, Live, Defined
<1>3. handle[h].result = Answer[h] /\ Answer[h] \in Int
  BY <1>2 DEF HandleFollowsThread
<1>4. /\ tcall' = [tcall EXCEPT ![c].at = "free", ![c].result = Answer[h]]
      /\ UNCHANGED <<handle, thread, joined, used, undefined>>
  BY <1>1, <1>2, <1>3 DEF ReadResult
<1>5. /\ \A d \in Callers \ {c} : tcall'[d] = tcall[d]
      /\ tcall'[c].at = "free" /\ tcall'[c].result = Answer[h]
      /\ tcall'[c].on = h /\ tcall'[c].op = tcall[c].op
  BY <1>1, <1>4 DEF TTypeOK, Calls
<1>6. TTypeOK'
  <2>1. tcall' \in [Callers -> Calls]
    BY <1>3, <1>4, CallTyped DEF TTypeOK
  <2>2. QED
    BY <1>4, <1>5, <2>1 DEF TTypeOK
<1>7. HandleFollowsThread' /\ UndefinedOnlyByMisuse'
  BY <1>4 DEF HandleFollowsThread, UndefinedOnlyByMisuse
<1>8. OneReader'
  BY <1>1, <1>2, <1>4, <1>5 DEF OneReader, Reading, TTypeOK
<1>9. WaitsAreUses'
  BY <1>2, <1>4, <1>5 DEF WaitsAreUses, Joining, TTypeOK
<1>10. GetReturnsAnswer' /\ GotIsIdle'
  <2>1. tcall'[c].op # "got"
    BY <1>2, <1>5 DEF GotIsIdle
  <2>2. QED
    BY <1>4, <1>5, <2>1 DEF GetReturnsAnswer, GotIsIdle
<1>11. QED
  BY <1>6, <1>7, <1>8, <1>9, <1>10

\* ... and frees the handle.
LEMMA FreeHandleTInv ==
  ASSUME TInv, NEW c \in Callers, FreeHandle(c)
  PROVE  TInv'
<1> USE DEF TInv
<1>1. PICK h \in Handles : h = tcall[c].on
  BY DEF FreeHandle, TTypeOK
<1>2. Reading(c) /\ tcall[c].at = "free" /\ Live(h) /\ joined[h] /\ ~undefined
  BY <1>1 DEF FreeHandle, Reading, OneReader, Live, Defined
<1>3. /\ handle' = [handle EXCEPT ![h].state = "freed"]
      /\ tcall' = [tcall EXCEPT ![c].op = "got", ![c].at = "idle"]
      /\ UNCHANGED <<thread, joined, used, undefined>>
  BY <1>1, <1>2 DEF FreeHandle
<1>4. /\ \A d \in Callers \ {c} : tcall'[d] = tcall[d]
      /\ tcall'[c].op = "got" /\ tcall'[c].at = "idle"
      /\ tcall'[c].on = h /\ tcall'[c].result = tcall[c].result
      /\ \A g \in Handles \ {h} : handle'[g] = handle[g]
      /\ handle'[h].state = "freed" /\ handle'[h].result = handle[h].result
  BY <1>1, <1>3 DEF TTypeOK, Calls, Blocks
<1>5. TTypeOK'
  <2>1. tcall' \in [Callers -> Calls]
    BY <1>3, CallTyped DEF TTypeOK
  <2>2. handle' \in [Handles -> Blocks]
    BY <1>3 DEF TTypeOK, Blocks
  <2>3. QED
    BY <1>3, <1>4, <2>1, <2>2 DEF TTypeOK
<1>6. HandleFollowsThread' /\ UndefinedOnlyByMisuse'
  BY <1>2, <1>3, <1>4 DEF HandleFollowsThread, UndefinedOnlyByMisuse, Live
<1>7. \A d \in Callers \ {c} : Reading(d) => tcall[d].on # h
  BY <1>1, <1>2 DEF OneReader
<1>8. OneReader'
  BY <1>3, <1>4, <1>7 DEF OneReader, Reading, TTypeOK
<1>9. WaitsAreUses'
  BY <1>2, <1>3, <1>4 DEF WaitsAreUses, Joining, TTypeOK
<1>10. GetReturnsAnswer' /\ GotIsIdle'
  BY <1>1, <1>2, <1>4 DEF GetReturnsAnswer, GotIsIdle
<1>11. QED
  BY <1>5, <1>6, <1>8, <1>9, <1>10

-----------------------------------------------------------------------------
\* Every step of a thread or a caller preserves the invariant.
LEMMA NextTInv == TInv /\ [TNext]_tvars => TInv'
<1> SUFFICES ASSUME TInv, [TNext]_tvars PROVE TInv'
  OBVIOUS
<1>1. ASSUME NEW h \in Handles, Trampoline(h) PROVE TInv'
  BY <1>1, StoreResultTInv, StoreDoneTInv DEF Trampoline
<1>2. ASSUME NEW c \in Callers, Proceed(c) PROVE TInv'
  BY <1>2, JoinTInv, JoinUndefinedTInv, ReadResultTInv, FreeHandleTInv DEF Proceed
<1>3. ASSUME NEW c \in Callers, NEW h \in Handles, ThreadRun(c, h) PROVE TInv'
  BY <1>3, ThreadRunTInv
<1>4. ASSUME NEW c \in Callers, NEW h \in Handles, NEW op \in {"join", "get"}, Call(c, h, op)
      PROVE  TInv'
  BY <1>4, CallTInv
<1>5. CASE UNCHANGED tvars
  <2>1. TTypeOK' /\ HandleFollowsThread' /\ OneReader' /\ WaitsAreUses'
    BY <1>5 DEF TInv, tvars, TTypeOK, HandleFollowsThread, OneReader, Reading, WaitsAreUses, Joining
  <2>2. GetReturnsAnswer' /\ GotIsIdle' /\ UndefinedOnlyByMisuse'
    BY <1>5 DEF TInv, tvars, GetReturnsAnswer, GotIsIdle, UndefinedOnlyByMisuse
  <2>3. QED
    BY <2>1, <2>2 DEF TInv
<1>6. QED
  BY <1>1, <1>2, <1>3, <1>4, <1>5 DEF TNext

\* threads.c keeps its handles straight whatever the order of the steps of the
\* trampolines and of the callers.
THEOREM ThreadsCorrect == TSpec => []TInv
BY InitTInv, NextTInv, PTL DEF TSpec

\* A program that waits once for each thread, and creates them all, does nothing
\* undefined: the stores of the trampoline, the joins, the reads and the frees of
\* different callers never meet on a freed handle.
THEOREM NothingUndefined == TSpec => []UndefinedOnlyByMisuse
<1>1. TInv => UndefinedOnlyByMisuse
  BY DEF TInv
<1>2. QED
  BY <1>1, ThreadsCorrect, PTL

\* thread_get returns what the thread's function returned.
THEOREM AnswersArrive == TSpec => []GetReturnsAnswer
<1>1. TInv => GetReturnsAnswer
  BY DEF TInv
<1>2. QED
  BY <1>1, ThreadsCorrect, PTL

\* A handle is freed only after its thread's last store into it.
THEOREM FreedAfterLastStore == TSpec => []FreedAfterEnd
<1>1. TInv => FreedAfterEnd
  BY DEF TInv, HandleFollowsThread, FreedAfterEnd
<1>2. QED
  BY <1>1, ThreadsCorrect, PTL
=============================================================================
