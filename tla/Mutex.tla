------------------------------- MODULE Mutex -------------------------------
(***************************************************************************)
(* stdlib/mutex/mutex.c: mutex handles, called by several threads.         *)
(*                                                                         *)
(* lock_count++ and lock_count-- are a load and a store; what keeps them   *)
(* whole is the pthread mutex (external: lock blocks while it is owned).   *)
(* get_lock_count reads the word without the mutex.                        *)
(***************************************************************************)
EXTENDS Integers, FiniteSets

CONSTANTS Threads, Mutexes, NoThread, NoMutex

ASSUME NoneAssumption == NoThread \notin Threads /\ NoMutex \notin Mutexes

VARIABLES
  mutex,  \* mutex[m]: the handle, its pthread mutex and its lock_count
  mcall   \* mcall[t]: the call thread t is in, and the count it has loaded

Steps == {"idle", "lock", "increment", "incremented", "decrement", "decremented", "unlock"}

FreshHandle == [state |-> "none", owner |-> NoThread, lock_count |-> 0]
NotCalling == [at |-> "idle", on |-> NoMutex, loaded |-> 0, result |-> 0]

MInit ==
  /\ mutex = [m \in Mutexes |-> FreshHandle]
  /\ mcall = [t \in Threads |-> NotCalling]

Idle(t) == mcall[t].at = "idle"
Live(m) == mutex[m].state = "live"
Inside(m) == {t \in Threads : mcall[t].on = m}

Goto(t, step) == mcall' = [mcall EXCEPT ![t].at = step]

\* The call of t on m begins with a step.
Begin(t, step, m) ==
  mcall' = [mcall EXCEPT ![t] = [at |-> step, on |-> m, loaded |-> 0, result |-> 0]]

\* The call of t returns r.
Done(t, r) == mcall' = [mcall EXCEPT ![t] = [NotCalling EXCEPT !.result = r]]

-----------------------------------------------------------------------------
\* mutex_create: malloc, init, count zero, all before the handle is known.
Create(t, m) ==
  /\ Idle(t) /\ mutex[m].state = "none"
  /\ mutex' = [mutex EXCEPT ![m] = [FreshHandle EXCEPT !.state = "live"]]
  /\ UNCHANGED mcall

\* mutex_destroy: pthread_mutex_destroy and free, whatever the state of the mutex.
Destroy(t, m) ==
  /\ Idle(t) /\ Live(m)
  /\ mutex' = [mutex EXCEPT ![m].state = "freed"]
  /\ UNCHANGED mcall

\* Mutant: lock_count is incremented without locking.
EnterWithoutLock(t, m) ==
  /\ Idle(t) /\ Live(m)
  /\ Begin(t, "increment", m)
  /\ UNCHANGED mutex

\* mutex_enter: the call ...
Enter(t, m) ==
  /\ Idle(t) /\ Live(m)
  /\ Begin(t, "lock", m)
  /\ UNCHANGED mutex

\* ... pthread_mutex_lock ...
Lock(t) ==
  /\ mcall[t].at = "lock" /\ mutex[mcall[t].on].owner = NoThread
  /\ mutex' = [mutex EXCEPT ![mcall[t].on].owner = t]
  /\ Goto(t, "increment")

\* ... and lock_count++, loaded and stored.
LoadForIncrement(t) ==
  /\ mcall[t].at = "increment"
  /\ mcall' = [mcall EXCEPT ![t].at = "incremented",
                            ![t].loaded = mutex[mcall[t].on].lock_count]
  /\ UNCHANGED mutex

StoreIncremented(t) ==
  /\ mcall[t].at = "incremented"
  /\ mutex' = [mutex EXCEPT ![mcall[t].on].lock_count = mcall[t].loaded + 1]
  /\ Done(t, 1)

\* Mutant: exit takes the mutex to count, as enter does.
ExitLockingAgain(t, m) ==
  /\ Idle(t) /\ Live(m) /\ mutex[m].owner = t
  /\ Begin(t, "lock", m)
  /\ UNCHANGED mutex

\* mutex_exit by the thread that entered: lock_count--, then unlock.
Exit(t, m) ==
  /\ Idle(t) /\ Live(m) /\ mutex[m].owner = t
  /\ Begin(t, "decrement", m)
  /\ UNCHANGED mutex

LoadForDecrement(t) ==
  /\ mcall[t].at = "decrement"
  /\ mcall' = [mcall EXCEPT ![t].at = "decremented",
                            ![t].loaded = mutex[mcall[t].on].lock_count]
  /\ UNCHANGED mutex

\* Mutant: the mutex is unlocked before the count is stored.
StoreAfterUnlock(t) ==
  /\ mcall[t].at = "decremented"
  /\ IF mutex[mcall[t].on].owner = t
       THEN mutex' = [mutex EXCEPT ![mcall[t].on].owner = NoThread] /\ UNCHANGED mcall
       ELSE /\ mutex' = [mutex EXCEPT ![mcall[t].on].lock_count = mcall[t].loaded - 1]
            /\ Done(t, 0)

StoreDecremented(t) ==
  /\ mcall[t].at = "decremented"
  /\ mutex' = [mutex EXCEPT ![mcall[t].on].lock_count = mcall[t].loaded - 1]
  /\ Goto(t, "unlock")

Unlock(t) ==
  /\ mcall[t].at = "unlock"
  /\ mutex' = [mutex EXCEPT ![mcall[t].on].owner = NoThread]
  /\ Done(t, 0)

\* mutex_try_enter: pthread_mutex_trylock, then lock_count++ if it succeeded.
TryEnter(t, m) ==
  /\ Idle(t) /\ Live(m)
  /\ IF mutex[m].owner = NoThread
       THEN /\ mutex' = [mutex EXCEPT ![m].owner = t]
            /\ Begin(t, "increment", m)
       ELSE Done(t, 0) /\ UNCHANGED mutex

\* mutex_get_lock_count.
GetLockCount(t, m) ==
  /\ Idle(t) /\ Live(m)
  /\ Done(t, mutex[m].lock_count)
  /\ UNCHANGED mutex

-----------------------------------------------------------------------------
\* The steps of a call once it is made.
Proceed(t) ==
  \/ Lock(t)
  \/ LoadForIncrement(t) \/ StoreIncremented(t)
  \/ LoadForDecrement(t) \/ StoreDecremented(t) \/ Unlock(t)

\* The clients: a thread that holds a mutex does not wait for another one, and a
\* mutex is destroyed when nobody has it or is in a call on it.
Holds(t) == \E m \in Mutexes : mutex[m].owner = t

MNext ==
  \E t \in Threads :
    \/ Proceed(t)
    \/ \E m \in Mutexes :
         \/ Create(t, m)
         \/ mutex[m].owner = NoThread /\ Inside(m) = {} /\ Destroy(t, m)
         \/ ~Holds(t) /\ Enter(t, m)
         \/ Exit(t, m) \/ TryEnter(t, m) \/ GetLockCount(t, m)

\* Threads go on running inside a call, and leave what they have entered.  The
\* pthread mutex is not fair: nothing is promised to one waiting thread.
MFairness ==
  \A t \in Threads :
    /\ WF_<<mutex, mcall>>(Proceed(t))
    /\ \A m \in Mutexes : SF_<<mutex, mcall>>(Exit(t, m))

MSpec == MInit /\ [][MNext]_<<mutex, mcall>> /\ MFairness

-----------------------------------------------------------------------------
\* A thread past the lock and before the unlock is the owner: the accesses to
\* lock_count in enter, try_enter and exit are never concurrent.
UpdatesGuarded ==
  \A t \in Threads :
    mcall[t].at \in Steps \ {"idle", "lock"} => mutex[mcall[t].on].owner = t

\* lock_count is one while a thread has the mutex and no update is under way, and
\* zero when the mutex is free: no increment or decrement is lost, and what
\* getLockCount answers is 0 or 1 (stdlib/mutex/mutex.c:29, 36, 56).
CountTracksOwner ==
  \A m \in Mutexes :
    LET o == mutex[m].owner
    IN  mutex[m].lock_count =
          IF \/ o = NoThread
             \/ mcall[o].on = m /\ mcall[o].at \in {"increment", "incremented", "unlock"}
          THEN 0 ELSE 1

\* As long as threads leave what they enter, a mutex that is taken is given back.
Released ==
  \A m \in Mutexes, t \in Threads : mutex[m].owner = t ~> mutex[m].owner # t
=============================================================================
