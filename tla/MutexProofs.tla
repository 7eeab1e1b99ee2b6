---------------------------- MODULE MutexProofs ----------------------------
(***************************************************************************)
(* Proofs about Mutex for any number of threads and mutexes: the updates   *)
(* of lock_count are never concurrent and none is lost.                    *)
(***************************************************************************)
EXTENDS Mutex, TLAPS

USE NoneAssumption

\* The states of the calls and handles.
MTypeOK ==
  /\ mutex \in [Mutexes -> [state : {"none", "live", "freed"}, owner : Threads \cup {NoThread}, lock_count : Int]]
  /\ mcall \in [Threads -> [at : Steps, on : Mutexes \cup {NoMutex}, loaded : Int, result : Int]]
  /\ \A t \in Threads : mcall[t].at # "idle" => mcall[t].on \in Mutexes

\* A mutex that is taken, or that a call is about, exists and is not destroyed.
LiveInUse ==
  /\ \A m \in Mutexes : mutex[m].owner # NoThread => mutex[m].state = "live"
  /\ \A t \in Threads : mcall[t].at # "idle" => mutex[mcall[t].on].state = "live"

\* What was loaded for an update is still the count when it is stored.
LoadedIsCurrent ==
  \A t \in Threads :
    mcall[t].at \in {"incremented", "decremented"} => mcall[t].loaded = mutex[mcall[t].on].lock_count

MInv == MTypeOK /\ UpdatesGuarded /\ CountTracksOwner /\ LiveInUse /\ LoadedIsCurrent

-----------------------------------------------------------------------------
\* No mutex exists at first.
LEMMA InitMInv == MInit => MInv
BY DEF MInit, MInv, MTypeOK, UpdatesGuarded, CountTracksOwner, LiveInUse, LoadedIsCurrent,
       FreshHandle, NotCalling, Steps

\* A load in a call gives a call.
LEMMA LoadTyped ==
  ASSUME MTypeOK, NEW t \in Threads, mcall[t].on \in Mutexes, NEW step \in Steps,
         mcall' = [mcall EXCEPT ![t].at = step, ![t].loaded = mutex[mcall[t].on].lock_count]
  PROVE  mcall' \in [Threads -> [at : Steps, on : Mutexes \cup {NoMutex}, loaded : Int, result : Int]]
BY DEF MTypeOK

\* Every step preserves the invariant.
LEMMA NextMInv == MInv /\ [MNext]_<<mutex, mcall>> => MInv'
<1> SUFFICES ASSUME MInv, [MNext]_<<mutex, mcall>> PROVE MInv'
  OBVIOUS
<1> USE DEF MInv, MTypeOK, UpdatesGuarded, CountTracksOwner, LiveInUse, LoadedIsCurrent,
            Steps, NotCalling, FreshHandle, Idle, Live, Goto, Done
<1>1. ASSUME NEW t \in Threads, NEW m \in Mutexes, Create(t, m) PROVE MInv'
  BY <1>1 DEF Create
<1>2. ASSUME NEW t \in Threads, NEW m \in Mutexes,
             mutex[m].owner = NoThread, Inside(m) = {}, Destroy(t, m)
      PROVE  MInv'
  BY <1>2 DEF Destroy, Inside
<1>3. ASSUME NEW t \in Threads, NEW m \in Mutexes, ~Holds(t), Enter(t, m) PROVE MInv'
  <2>1. Begin(t, "lock", m) /\ UNCHANGED mutex
    BY <1>3 DEF Enter
  <2>2. MTypeOK'
    BY <2>1 DEF Begin
  <2>3. UpdatesGuarded' /\ LiveInUse' /\ LoadedIsCurrent'
    BY <1>3, <2>1 DEF Begin, Enter
  <2>4. CountTracksOwner'
    BY <1>3, <2>1 DEF Begin, Holds
  <2>5. QED
    BY <2>2, <2>3, <2>4
<1>4. ASSUME NEW t \in Threads, Lock(t) PROVE MInv'
  <2>1. PICK m \in Mutexes : m = mcall[t].on
    BY <1>4 DEF Lock
  <2>2. /\ mutex[m].owner = NoThread /\ mutex' = [mutex EXCEPT ![m].owner = t]
        /\ mcall[t].at = "lock" /\ mcall' = [mcall EXCEPT ![t].at = "increment"]
    BY <1>4, <2>1 DEF Lock
  <2>3. \A s \in Threads : mcall[s].at \in Steps \ {"idle", "lock"} => mcall[s].on # m
    BY <2>2
  <2>4. MTypeOK' /\ LiveInUse'
    <3>1. mutex[m].state = "live"
      BY <2>1, <2>2
    <3>2. QED
      BY <2>1, <2>2, <3>1
  <2>5. UpdatesGuarded' /\ LoadedIsCurrent'
    BY <2>1, <2>2, <2>3
  <2>6. CountTracksOwner'
    BY <2>1, <2>2
  <2>7. QED
    BY <2>4, <2>5, <2>6
<1>5. ASSUME NEW t \in Threads, LoadForIncrement(t) PROVE MInv'
  <2>1. /\ mcall[t].at = "increment" /\ UNCHANGED mutex
        /\ mcall' = [mcall EXCEPT ![t].at = "incremented", ![t].loaded = mutex[mcall[t].on].lock_count]
    BY <1>5 DEF LoadForIncrement
  <2>2. MTypeOK'
    <3>1. mcall[t].on \in Mutexes /\ mutex[mcall[t].on].lock_count \in Int
      BY <2>1
    <3>2. /\ \A s \in Threads \ {t} : mcall'[s] = mcall[s]
          /\ mcall'[t].on = mcall[t].on
      BY <2>1
    <3>3. mcall' \in [Threads -> [at : Steps, on : Mutexes \cup {NoMutex}, loaded : Int, result : Int]]
      BY <2>1, <3>1, LoadTyped
    <3>4. QED
      BY <2>1, <3>1, <3>2, <3>3
  <2>3. UpdatesGuarded' /\ LiveInUse' /\ LoadedIsCurrent'
    BY <2>1
  <2>4. CountTracksOwner'
    BY <2>1
  <2>5. QED
    BY <2>2, <2>3, <2>4
<1>6. ASSUME NEW t \in Threads, StoreIncremented(t) PROVE MInv'
  <2>1. MTypeOK'
    BY <1>6 DEF StoreIncremented
  <2>2. UpdatesGuarded' /\ LiveInUse'
    BY <1>6 DEF StoreIncremented
  <2>3. CountTracksOwner'
    BY <1>6 DEF StoreIncremented
  <2>4. LoadedIsCurrent'
    BY <1>6 DEF StoreIncremented
  <2>5. QED
    BY <2>1, <2>2, <2>3, <2>4
<1>7. ASSUME NEW t \in Threads, NEW m \in Mutexes, Exit(t, m) PROVE MInv'
  <2>1. Begin(t, "decrement", m) /\ UNCHANGED mutex
    BY <1>7 DEF Exit
  <2>2. MTypeOK'
    BY <2>1 DEF Begin
  <2>3. UpdatesGuarded' /\ LiveInUse' /\ LoadedIsCurrent'
    BY <1>7, <2>1 DEF Begin, Exit
  <2>4. CountTracksOwner'
    BY <1>7, <2>1 DEF Begin, Exit
  <2>5. QED
    BY <2>2, <2>3, <2>4
<1>8. ASSUME NEW t \in Threads, LoadForDecrement(t) PROVE MInv'
  <2>1. /\ mcall[t].at = "decrement" /\ UNCHANGED mutex
        /\ mcall' = [mcall EXCEPT ![t].at = "decremented", ![t].loaded = mutex[mcall[t].on].lock_count]
    BY <1>8 DEF LoadForDecrement
  <2>2. MTypeOK'
    <3>1. mcall[t].on \in Mutexes /\ mutex[mcall[t].on].lock_count \in Int
      BY <2>1
    <3>2. /\ \A s \in Threads \ {t} : mcall'[s] = mcall[s]
          /\ mcall'[t].on = mcall[t].on
      BY <2>1
    <3>3. mcall' \in [Threads -> [at : Steps, on : Mutexes \cup {NoMutex}, loaded : Int, result : Int]]
      BY <2>1, <3>1, LoadTyped
    <3>4. QED
      BY <2>1, <3>1, <3>2, <3>3
  <2>3. UpdatesGuarded' /\ LiveInUse' /\ LoadedIsCurrent'
    BY <2>1
  <2>4. CountTracksOwner'
    BY <2>1
  <2>5. QED
    BY <2>2, <2>3, <2>4
<1>9. ASSUME NEW t \in Threads, StoreDecremented(t) PROVE MInv'
  <2>1. MTypeOK'
    BY <1>9 DEF StoreDecremented
  <2>2. UpdatesGuarded' /\ LiveInUse'
    BY <1>9 DEF StoreDecremented
  <2>3. CountTracksOwner'
    BY <1>9 DEF StoreDecremented
  <2>4. LoadedIsCurrent'
    BY <1>9 DEF StoreDecremented
  <2>5. QED
    BY <2>1, <2>2, <2>3, <2>4
<1>10. ASSUME NEW t \in Threads, Unlock(t) PROVE MInv'
  <2>1. MTypeOK' /\ LiveInUse' /\ LoadedIsCurrent'
    BY <1>10 DEF Unlock
  <2>2. UpdatesGuarded'
    BY <1>10 DEF Unlock
  <2>3. CountTracksOwner'
    BY <1>10 DEF Unlock
  <2>4. QED
    BY <2>1, <2>2, <2>3
<1>11. ASSUME NEW t \in Threads, NEW m \in Mutexes, TryEnter(t, m) PROVE MInv'
  <2>1. CASE mutex[m].owner = NoThread
    <3>1. /\ mcall[t].at = "idle" /\ mutex[m].state = "live"
          /\ mutex' = [mutex EXCEPT ![m].owner = t] /\ Begin(t, "increment", m)
      BY <1>11, <2>1 DEF TryEnter
    <3>2. \A s \in Threads : mcall[s].at \in Steps \ {"idle", "lock"} => mcall[s].on # m
      BY <2>1
    <3>3. MTypeOK' /\ LiveInUse'
      BY <3>1 DEF Begin
    <3>4. UpdatesGuarded' /\ LoadedIsCurrent'
      BY <3>1, <3>2 DEF Begin
    <3>5. CountTracksOwner'
      BY <2>1, <3>1 DEF Begin
    <3>6. QED
      BY <3>3, <3>4, <3>5
  <2>2. CASE mutex[m].owner # NoThread
    <3>1. /\ mcall[t].at = "idle" /\ UNCHANGED mutex
          /\ mcall' = [mcall EXCEPT ![t] = [at |-> "idle", on |-> NoMutex, loaded |-> 0, result |-> 0]]
      BY <1>11, <2>2 DEF TryEnter
    <3>2. MTypeOK'
      BY <3>1
    <3>3. UpdatesGuarded' /\ LiveInUse' /\ LoadedIsCurrent'
      BY <3>1
    <3>4. CountTracksOwner'
      BY <3>1
    <3>5. QED
      BY <3>2, <3>3, <3>4
  <2>3. QED
    BY <2>1, <2>2
<1>12. ASSUME NEW t \in Threads, NEW m \in Mutexes, GetLockCount(t, m) PROVE MInv'
  BY <1>12 DEF GetLockCount
<1>13. CASE UNCHANGED <<mutex, mcall>>
  BY <1>13
<1>14. QED
  BY <1>1, <1>2, <1>3, <1>4, <1>5, <1>6, <1>7, <1>8, <1>9, <1>10, <1>11, <1>12, <1>13
  DEF MNext, Proceed

-----------------------------------------------------------------------------
\* mutex.c keeps its books however the calls of the threads interleave.
THEOREM MutexCorrect == MSpec => []MInv
BY InitMInv, NextMInv, PTL DEF MSpec

\* A thread that counts is the owner: no two of the accesses to lock_count in enter,
\* try_enter and exit are concurrent, for any number of threads and mutexes.
THEOREM UpdatesAreGuarded == MSpec => []UpdatesGuarded
<1>1. MInv => UpdatesGuarded
  BY DEF MInv
<1>2. QED
  BY <1>1, MutexCorrect, PTL

\* No increment or decrement is lost: lock_count says whether the mutex is taken.
THEOREM CountsTrackOwners == MSpec => []CountTracksOwner
<1>1. MInv => CountTracksOwner
  BY DEF MInv
<1>2. QED
  BY <1>1, MutexCorrect, PTL
=============================================================================
