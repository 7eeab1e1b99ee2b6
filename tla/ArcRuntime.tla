----------------------------- MODULE ArcRuntime -----------------------------
(***************************************************************************)
(* runtime/arc.c: the reference counts of heap objects, as several threads *)
(* call the runtime at once.                                               *)
(*                                                                         *)
(* arc_retain and arc_release are plain C: they load h->refcount and store *)
(* it back, two steps between which another thread may run.                *)
(* arc_retain_shared and arc_release_shared are one atomic step.  free()   *)
(* is a step of its own in both release functions.                         *)
(*                                                                         *)
(* The callers are the programs codegen instruments: a variable (Refs) of  *)
(* a thread owns at most one reference, a thread calls the runtime only    *)
(* with a pointer one of its variables holds, and codegen picks the        *)
(* _shared functions for the variables declared `shared`.                  *)
(***************************************************************************)
EXTENDS Naturals, FiniteSets

CONSTANTS
  Threads,
  Objects,        \* heap blocks malloc can return
  Refs,           \* variables that can own a reference
  Owner,          \* Owner[r]: the thread whose variable r is
  SharedObjects,  \* objects held by `shared` variables
  Nil             \* the NULL pointer

ASSUME OwnerAssumption  == Owner \in [Refs -> Threads]
ASSUME SharedAssumption == SharedObjects \subseteq Objects
ASSUME NilAssumption    == Nil \notin Objects /\ Nil \notin Refs
ASSUME FiniteAssumption == IsFiniteSet(Refs)

VARIABLES
  allocated,  \* allocated[o]: malloc returned the block and it is not freed
  refcount,   \* refcount[o]: the ArcHeader word in front of the block
  ref,        \* ref[r]: the pointer variable r owns, or Nil
  pc,         \* pc[t]: where thread t is inside a runtime call
  arg,        \* arg[t]: the object the call is about
  src,        \* src[t]: the variable whose reference is given up
  dst,        \* dst[t]: the variable that will own the new reference
  loaded      \* loaded[t]: the count a plain call has read

vars == <<allocated, refcount, ref, pc, arg, src, dst, loaded>>

Plain(o) == o \notin SharedObjects

\* The variables that own a reference to o, when the variables hold the pointers f.
HoldersIn(f, o) == {r \in Refs : f[r] = o}

Holders(o) == HoldersIn(ref, o)

Init ==
  /\ allocated = [o \in Objects |-> FALSE]
  /\ refcount  = [o \in Objects |-> 0]
  /\ ref       = [r \in Refs |-> Nil]
  /\ pc        = [t \in Threads |-> "idle"]
  /\ arg       = [t \in Threads |-> Nil]
  /\ src       = [t \in Threads |-> Nil]
  /\ dst       = [t \in Threads |-> Nil]
  /\ loaded    = [t \in Threads |-> 0]

\* The call of thread t is over: its locals are gone.
Leave(t) ==
  /\ pc'  = [pc EXCEPT ![t] = "idle"]
  /\ arg' = [arg EXCEPT ![t] = Nil]
  /\ src' = [src EXCEPT ![t] = Nil]
  /\ dst' = [dst EXCEPT ![t] = Nil]
  /\ loaded' = [loaded EXCEPT ![t] = 0]

-----------------------------------------------------------------------------
\* arc_alloc: a block that is not in use, its count set to one, the caller owns it.
ArcAlloc(t, r, o) ==
  /\ pc[t] = "idle" /\ Owner[r] = t /\ ref[r] = Nil
  /\ ~allocated[o]
  /\ allocated' = [allocated EXCEPT ![o] = TRUE]
  /\ refcount'  = [refcount EXCEPT ![o] = 1]
  /\ ref' = [ref EXCEPT ![r] = o]
  /\ UNCHANGED <<pc, arg, src, dst, loaded>>

\* arc_retain, h->refcount++: the load ...
ArcRetainLoad(t, r, d) ==
  /\ pc[t] = "idle" /\ Owner[r] = t /\ Owner[d] = t
  /\ ref[r] # Nil /\ ref[d] = Nil /\ Plain(ref[r])
  /\ pc'     = [pc EXCEPT ![t] = "retain"]
  /\ arg'    = [arg EXCEPT ![t] = ref[r]]
  /\ dst'    = [dst EXCEPT ![t] = d]
  /\ loaded' = [loaded EXCEPT ![t] = refcount[ref[r]]]
  /\ UNCHANGED <<allocated, refcount, ref, src>>

\* ... and the store.
ArcRetainStore(t) ==
  /\ pc[t] = "retain"
  /\ refcount' = [refcount EXCEPT ![arg[t]] = loaded[t] + 1]
  /\ ref' = [ref EXCEPT ![dst[t]] = arg[t]]
  /\ Leave(t)
  /\ UNCHANGED allocated

\* arc_release, --h->refcount: the load ...
ArcReleaseLoad(t, r) ==
  /\ pc[t] = "idle" /\ Owner[r] = t
  /\ ref[r] # Nil /\ Plain(ref[r])
  /\ pc'     = [pc EXCEPT ![t] = "release"]
  /\ arg'    = [arg EXCEPT ![t] = ref[r]]
  /\ src'    = [src EXCEPT ![t] = r]
  /\ loaded' = [loaded EXCEPT ![t] = refcount[ref[r]]]
  /\ UNCHANGED <<allocated, refcount, ref, dst>>

\* Mutants: the block is freed one reference too early, or never.
FreeAtOne(t, o, count) ==
  IF count <= 1
    THEN /\ pc'  = [pc EXCEPT ![t] = "free"]
         /\ arg' = [arg EXCEPT ![t] = o]
         /\ src' = [src EXCEPT ![t] = Nil]
         /\ loaded' = [loaded EXCEPT ![t] = 0]
         /\ UNCHANGED dst
    ELSE Leave(t)

NeverFree(t, o, count) == Leave(t)

\* What the releasing thread does with the new count: free(h) at zero.
AfterDecrement(t, o, count) ==
  IF count = 0
    THEN /\ pc'  = [pc EXCEPT ![t] = "free"]
         /\ arg' = [arg EXCEPT ![t] = o]
         /\ src' = [src EXCEPT ![t] = Nil]
         /\ loaded' = [loaded EXCEPT ![t] = 0]
         /\ UNCHANGED dst
    ELSE Leave(t)

\* ... and the store, tested against zero.
ArcReleaseStore(t) ==
  /\ pc[t] = "release"
  /\ refcount' = [refcount EXCEPT ![arg[t]] = loaded[t] - 1]
  /\ ref' = [ref EXCEPT ![src[t]] = Nil]
  /\ AfterDecrement(t, arg[t], loaded[t] - 1)
  /\ UNCHANGED allocated

\* Mutant: a shared object is retained with the plain load and store.
RetainSharedPlainly(t, r, d) ==
  /\ pc[t] = "idle" /\ Owner[r] = t /\ Owner[d] = t
  /\ ref[r] # Nil /\ ref[d] = Nil /\ ~Plain(ref[r])
  /\ pc'     = [pc EXCEPT ![t] = "retain"]
  /\ arg'    = [arg EXCEPT ![t] = ref[r]]
  /\ dst'    = [dst EXCEPT ![t] = d]
  /\ loaded' = [loaded EXCEPT ![t] = refcount[ref[r]]]
  /\ UNCHANGED <<allocated, refcount, ref, src>>

\* arc_retain_shared: atomic_fetch_add.
ArcRetainShared(t, r, d) ==
  /\ pc[t] = "idle" /\ Owner[r] = t /\ Owner[d] = t
  /\ ref[r] # Nil /\ ref[d] = Nil /\ ~Plain(ref[r])
  /\ refcount' = [refcount EXCEPT ![ref[r]] = @ + 1]
  /\ ref' = [ref EXCEPT ![d] = ref[r]]
  /\ UNCHANGED <<allocated, pc, arg, src, dst, loaded>>

\* arc_release_shared: atomic_fetch_sub, the old value tested against one.
ArcReleaseShared(t, r) ==
  /\ pc[t] = "idle" /\ Owner[r] = t
  /\ ref[r] # Nil /\ ~Plain(ref[r])
  /\ refcount' = [refcount EXCEPT ![ref[r]] = @ - 1]
  /\ ref' = [ref EXCEPT ![r] = Nil]
  /\ AfterDecrement(t, ref[r], refcount[ref[r]] - 1)
  /\ UNCHANGED allocated

\* Mutant: the memory is not given back.
FreeSkipped(t) ==
  /\ pc[t] = "free"
  /\ Leave(t)
  /\ UNCHANGED <<allocated, refcount, ref>>

\* free(h) of either release function.
ArcFree(t) ==
  /\ pc[t] = "free"
  /\ allocated' = [allocated EXCEPT ![arg[t]] = FALSE]
  /\ Leave(t)
  /\ UNCHANGED <<refcount, ref>>

\* A reference changes hands: thread argument, thread result or assignment to a
\* variable of another thread.  A `shared` object may be held by many threads; a
\* plain one moves only together with its last reference.
HandOver(r, d) ==
  /\ ref[r] # Nil /\ ref[d] = Nil
  /\ pc[Owner[r]] = "idle" /\ pc[Owner[d]] = "idle"
  /\ Plain(ref[r]) => Holders(ref[r]) = {r}
  /\ ref' = [ref EXCEPT ![d] = ref[r], ![r] = Nil]
  /\ UNCHANGED <<allocated, refcount, pc, arg, src, dst, loaded>>

-----------------------------------------------------------------------------
Step(t) ==
  \/ ArcRetainStore(t)
  \/ ArcReleaseStore(t)
  \/ ArcFree(t)
  \/ \E r \in Refs :
       \/ \E o \in Objects : ArcAlloc(t, r, o)
       \/ ArcReleaseLoad(t, r)
       \/ ArcReleaseShared(t, r)
       \/ \E d \in Refs : ArcRetainLoad(t, r, d) \/ ArcRetainShared(t, r, d)

Next ==
  \/ \E t \in Threads : Step(t)
  \/ \E r, d \in Refs : HandOver(r, d)

\* A thread inside a runtime call goes on running: the calls do not block.
Fairness ==
  \A t \in Threads :
    WF_vars(ArcRetainStore(t) \/ ArcReleaseStore(t) \/ ArcFree(t))

Safe == Init /\ [][Next]_vars
Spec == Safe /\ Fairness

-----------------------------------------------------------------------------
TypeOK ==
  /\ allocated \in [Objects -> BOOLEAN]
  /\ refcount \in [Objects -> Nat]
  /\ ref \in [Refs -> Objects \cup {Nil}]
  /\ pc \in [Threads -> {"idle", "retain", "release", "free"}]
  /\ arg \in [Threads -> Objects \cup {Nil}]
  /\ src \in [Threads -> Refs \cup {Nil}]
  /\ dst \in [Threads -> Refs \cup {Nil}]
  /\ loaded \in [Threads -> Nat]

Freeing(o) == \E t \in Threads : pc[t] = "free" /\ arg[t] = o

\* No variable holds a pointer to a freed block (runtime/arc.c:24-31, 57-64: the
\* block is freed while some other reference still counts on it).
NoDangling == \A r \in Refs : ref[r] # Nil => allocated[ref[r]]

\* The block a thread is about to free is allocated, unreferenced, and being
\* freed by no other thread: never a double free (runtime/arc.c:28, 61).
NoDoubleFree ==
  \A t \in Threads : pc[t] = "free" =>
    /\ allocated[arg[t]]
    /\ Holders(arg[t]) = {}
    /\ \A u \in Threads \ {t} : pc[u] = "free" => arg[u] # arg[t]

\* The count is the number of variables that own the object: no interleaving of
\* retains and releases loses an update (runtime/arc.c:19, 27, 52, 60).
RefcountExact ==
  \A o \in Objects : allocated[o] => refcount[o] = Cardinality(Holders(o))

\* An allocated object is owned by some variable or on its way to free():
\* nothing is leaked by the runtime.
NoLeak == \A o \in Objects : allocated[o] => Holders(o) # {} \/ Freeing(o)

-----------------------------------------------------------------------------
\* The inductive invariant.  Plain objects are held by one thread at a time; a
\* thread in the middle of a plain call holds the object it works on, so nobody
\* else can have changed the count it loaded; a thread about to free is alone.
PlainConfined ==
  \A r, s \in Refs :
    ref[r] # Nil /\ ref[r] = ref[s] /\ Plain(ref[r]) => Owner[r] = Owner[s]

RetainInFlight ==
  \A t \in Threads : pc[t] = "retain" =>
    /\ arg[t] \in Objects /\ Plain(arg[t])
    /\ dst[t] \in Refs /\ Owner[dst[t]] = t /\ ref[dst[t]] = Nil
    /\ \E r \in Refs : Owner[r] = t /\ ref[r] = arg[t]
    /\ loaded[t] = refcount[arg[t]]

ReleaseInFlight ==
  \A t \in Threads : pc[t] = "release" =>
    /\ arg[t] \in Objects /\ Plain(arg[t])
    /\ src[t] \in Refs /\ Owner[src[t]] = t /\ ref[src[t]] = arg[t]
    /\ loaded[t] = refcount[arg[t]]

FreeInFlight == \A t \in Threads : pc[t] = "free" => arg[t] \in Objects

IInv ==
  /\ TypeOK
  /\ NoDangling /\ NoDoubleFree /\ RefcountExact /\ NoLeak
  /\ PlainConfined
  /\ RetainInFlight /\ ReleaseInFlight /\ FreeInFlight

-----------------------------------------------------------------------------
\* The runtime implements ownership without counts: an object lives exactly as
\* long as a variable owns it, and is reclaimed afterwards.
Ownership ==
  INSTANCE ArcOwnership WITH
    live    <- allocated,
    holders <- [o \in Objects |-> Holders(o)]

ImplementsOwnership == Ownership!Spec
=============================================================================
