-------------------------- MODULE ArcRuntimeProofs --------------------------
(***************************************************************************)
(* Proofs about ArcRuntime for any number of threads, objects and          *)
(* variables: the reference counts are exact, nothing dangles, is freed    *)
(* twice or leaks, and the runtime implements ArcOwnership step by step.   *)
(***************************************************************************)
EXTENDS ArcRuntime, FiniteSetTheorems, TLAPS

USE OwnerAssumption, SharedAssumption, NilAssumption, FiniteAssumption

Pointers == [Refs -> Objects \cup {Nil}]

\* The holders of an object are finitely many, and none of them is the same as
\* a count of zero.
LEMMA HoldersFinite ==
  ASSUME NEW f, NEW o
  PROVE  /\ IsFiniteSet(HoldersIn(f, o))
         /\ Cardinality(HoldersIn(f, o)) \in Nat
         /\ Cardinality(HoldersIn(f, o)) = 0 <=> HoldersIn(f, o) = {}
<1>1. HoldersIn(f, o) \subseteq Refs
  BY DEF HoldersIn
<1>2. IsFiniteSet(HoldersIn(f, o))
  BY <1>1, FS_Subset
<1>3. QED
  BY <1>2, FS_CardinalityType, FS_EmptySet

\* The count of the holders when a variable is added to them or taken out.
LEMMA HolderAdded ==
  ASSUME NEW f, NEW o, NEW d, d \notin HoldersIn(f, o)
  PROVE  Cardinality(HoldersIn(f, o) \cup {d}) = Cardinality(HoldersIn(f, o)) + 1
BY HoldersFinite, FS_AddElement

\* Taking one variable away takes one holder away.
LEMMA HolderRemoved ==
  ASSUME NEW f, NEW o, NEW r, r \in HoldersIn(f, o)
  PROVE  /\ Cardinality(HoldersIn(f, o) \ {r}) = Cardinality(HoldersIn(f, o)) - 1
         /\ Cardinality(HoldersIn(f, o)) \in Nat \ {0}
BY HoldersFinite, FS_RemoveElement

\* The initial states satisfy the inductive invariant.
LEMMA InitIInv == Init => IInv
<1> SUFFICES ASSUME Init PROVE IInv
  OBVIOUS
<1>1. TypeOK
  BY DEF Init, TypeOK
<1>2. NoDangling /\ NoDoubleFree /\ RefcountExact /\ NoLeak
  BY DEF Init, NoDangling, NoDoubleFree, RefcountExact, NoLeak
<1>3. PlainConfined /\ RetainInFlight /\ ReleaseInFlight /\ FreeInFlight
  BY DEF Init, PlainConfined, RetainInFlight, ReleaseInFlight, FreeInFlight
<1>4. QED
  BY <1>1, <1>2, <1>3 DEF IInv

-----------------------------------------------------------------------------
\* Every action preserves the inductive invariant.

\* arc_alloc.
LEMMA ArcAllocIInv ==
  ASSUME IInv, NEW t \in Threads, NEW r \in Refs, NEW o \in Objects, ArcAlloc(t, r, o)
  PROVE  IInv'
<1> USE DEF ArcAlloc, IInv, Holders
<1>1. /\ ref \in Pointers /\ ref' \in Pointers
      /\ ref[r] = Nil /\ ~allocated[o] /\ ref' = [ref EXCEPT ![r] = o]
  BY DEF TypeOK, Pointers
<1>2. HoldersIn(ref, o) = {}
  BY <1>1 DEF NoDangling, HoldersIn
<1>3. /\ HoldersIn(ref', o) = HoldersIn(ref, o) \cup {r}
      /\ \A p \in Objects \ {o} : HoldersIn(ref', p) = HoldersIn(ref, p)
      /\ r \notin HoldersIn(ref, o)
  BY <1>1 DEF HoldersIn, Pointers
<1>4. Cardinality(HoldersIn(ref', o)) = 1
  <2>1. HoldersIn(ref', o) = {r}
    BY <1>2, <1>3
  <2>2. QED
    BY <2>1, FS_Singleton
<1>5. TypeOK'
  BY DEF TypeOK
<1>6. NoDangling'
  BY DEF NoDangling, TypeOK
<1>7. \A u \in Threads : pc[u] = "free" => arg[u] # o
  BY DEF NoDoubleFree
<1>8. NoDoubleFree'
  BY <1>3, <1>7 DEF NoDoubleFree, FreeInFlight, TypeOK
<1>9. RefcountExact'
  BY <1>3, <1>4 DEF RefcountExact, TypeOK
<1>10. NoLeak'
  BY <1>3 DEF NoLeak, TypeOK, Freeing
<1>11. PlainConfined'
  BY DEF PlainConfined, NoDangling, TypeOK, Plain
<1>12. RetainInFlight'
  BY DEF RetainInFlight, NoDangling, TypeOK, Plain
<1>13. ReleaseInFlight'
  BY DEF ReleaseInFlight, NoDangling, TypeOK, Plain
<1>14. FreeInFlight'
  BY DEF FreeInFlight
<1>15. QED
  BY <1>5, <1>6, <1>8, <1>9, <1>10, <1>11, <1>12, <1>13, <1>14

\* The load of arc_retain.
LEMMA ArcRetainLoadIInv ==
  ASSUME IInv, NEW t \in Threads, NEW r \in Refs, NEW d \in Refs, ArcRetainLoad(t, r, d)
  PROVE  IInv'
<1> USE DEF ArcRetainLoad, IInv, Holders
<1>1. TypeOK'
  BY DEF TypeOK
<1>2. NoDangling' /\ PlainConfined' /\ RefcountExact'
  BY DEF NoDangling, PlainConfined, Plain, RefcountExact
<1>3. NoDoubleFree'
  BY DEF NoDoubleFree, FreeInFlight, TypeOK
<1>4. NoLeak'
  BY DEF NoLeak, Freeing, TypeOK
<1>5. RetainInFlight'
  BY DEF RetainInFlight, TypeOK, Plain
<1>6. ReleaseInFlight'
  BY DEF ReleaseInFlight, TypeOK, Plain
<1>7. FreeInFlight'
  BY DEF FreeInFlight, TypeOK
<1>8. QED
  BY <1>1, <1>2, <1>3, <1>4, <1>5, <1>6, <1>7

\* The load of arc_release.
LEMMA ArcReleaseLoadIInv ==
  ASSUME IInv, NEW t \in Threads, NEW r \in Refs, ArcReleaseLoad(t, r)
  PROVE  IInv'
<1> USE DEF ArcReleaseLoad, IInv, Holders
<1>1. TypeOK'
  BY DEF TypeOK
<1>2. NoDangling' /\ PlainConfined' /\ RefcountExact'
  BY DEF NoDangling, PlainConfined, Plain, RefcountExact
<1>3. NoDoubleFree'
  BY DEF NoDoubleFree, FreeInFlight, TypeOK
<1>4. NoLeak'
  BY DEF NoLeak, Freeing, TypeOK
<1>5. RetainInFlight'
  BY DEF RetainInFlight, TypeOK, Plain
<1>6. ReleaseInFlight'
  BY DEF ReleaseInFlight, TypeOK, Plain
<1>7. FreeInFlight'
  BY DEF FreeInFlight, TypeOK
<1>8. QED
  BY <1>1, <1>2, <1>3, <1>4, <1>5, <1>6, <1>7
-----------------------------------------------------------------------------
\* Only one thread is inside a plain call on a given object, and no variable of
\* another thread holds it.
LEMMA PlainCallAlone ==
  ASSUME IInv, NEW t \in Threads, pc[t] \in {"retain", "release"}
  PROVE  /\ arg[t] \in Objects /\ Plain(arg[t])
         /\ allocated[arg[t]] /\ Holders(arg[t]) # {}
         /\ loaded[t] = Cardinality(Holders(arg[t]))
         /\ \A s \in Refs : ref[s] = arg[t] => Owner[s] = t
         /\ \A u \in Threads \ {t} :
              pc[u] \in {"retain", "release"} => arg[u] # arg[t]
         /\ \A u \in Threads : pc[u] = "free" => arg[u] # arg[t]
<1>1. arg[t] \in Objects /\ Plain(arg[t]) /\ loaded[t] = refcount[arg[t]]
  BY DEF IInv, RetainInFlight, ReleaseInFlight
<1>2. PICK r \in Refs : Owner[r] = t /\ ref[r] = arg[t]
  BY DEF IInv, RetainInFlight, ReleaseInFlight
<1>3. allocated[arg[t]] /\ Holders(arg[t]) # {}
  BY <1>1, <1>2 DEF IInv, NoDangling, Holders, HoldersIn
<1>4. \A s \in Refs : ref[s] = arg[t] => Owner[s] = t
  BY <1>1, <1>2 DEF IInv, PlainConfined
<1>5. \A u \in Threads \ {t} : pc[u] \in {"retain", "release"} => arg[u] # arg[t]
  <2> SUFFICES ASSUME NEW u \in Threads \ {t}, pc[u] \in {"retain", "release"}
               PROVE  arg[u] # arg[t]
    OBVIOUS
  <2>1. PICK s \in Refs : Owner[s] = u /\ ref[s] = arg[u]
    BY DEF IInv, RetainInFlight, ReleaseInFlight
  <2>2. QED
    BY <2>1, <1>4
<1>6. \A u \in Threads : pc[u] = "free" => arg[u] # arg[t]
  BY <1>3 DEF IInv, NoDoubleFree
<1>7. QED
  BY <1>1, <1>3, <1>4, <1>5, <1>6 DEF IInv, RefcountExact

\* The store of arc_retain.
LEMMA ArcRetainStoreIInv ==
  ASSUME IInv, NEW t \in Threads, ArcRetainStore(t)
  PROVE  IInv'
<1> DEFINE o == arg[t]
           d == dst[t]
<1> USE DEF Holders
<1>1. /\ pc[t] = "retain"
      /\ refcount' = [refcount EXCEPT ![o] = loaded[t] + 1]
      /\ ref' = [ref EXCEPT ![d] = o]
      /\ pc' = [pc EXCEPT ![t] = "idle"] /\ arg' = [arg EXCEPT ![t] = Nil]
      /\ src' = [src EXCEPT ![t] = Nil] /\ dst' = [dst EXCEPT ![t] = Nil]
      /\ loaded' = [loaded EXCEPT ![t] = 0] /\ allocated' = allocated
  BY DEF ArcRetainStore, Leave
<1>2. /\ d \in Refs /\ Owner[d] = t /\ ref[d] = Nil
      /\ TypeOK /\ ref \in Pointers
  BY <1>1 DEF IInv, RetainInFlight, TypeOK, Pointers
<1>3. /\ o \in Objects /\ Plain(o) /\ allocated[o]
      /\ loaded[t] = Cardinality(HoldersIn(ref, o))
      /\ \A s \in Refs : ref[s] = o => Owner[s] = t
      /\ \A u \in Threads \ {t} :
           pc[u] \in {"retain", "release"} => arg[u] # o
      /\ \A u \in Threads : pc[u] = "free" => arg[u] # o
  BY <1>1, PlainCallAlone
<1> HIDE DEF o, d
<1>4. TypeOK'
  <2>1. loaded[t] + 1 \in Nat
    BY <1>2 DEF TypeOK
  <2>2. QED
    BY <1>1, <1>2, <1>3, <2>1 DEF TypeOK
<1>5. /\ HoldersIn(ref', o) = HoldersIn(ref, o) \cup {d}
      /\ \A p \in Objects \ {o} : HoldersIn(ref', p) = HoldersIn(ref, p)
      /\ d \notin HoldersIn(ref, o)
  BY <1>1, <1>2, <1>3 DEF HoldersIn, Pointers
<1>6. Cardinality(HoldersIn(ref', o)) = Cardinality(HoldersIn(ref, o)) + 1
  BY <1>5, HolderAdded
<1>7. NoDangling'
  BY <1>1, <1>2, <1>3 DEF IInv, NoDangling, TypeOK
<1>8. NoDoubleFree'
  BY <1>1, <1>2, <1>3, <1>5 DEF IInv, NoDoubleFree, FreeInFlight, TypeOK
<1>9. RefcountExact'
  BY <1>1, <1>2, <1>3, <1>5, <1>6 DEF IInv, RefcountExact, TypeOK
<1>10. NoLeak'
  BY <1>1, <1>2, <1>3, <1>5 DEF IInv, NoLeak, Freeing, TypeOK
<1>11. PlainConfined'
  BY <1>1, <1>2, <1>3 DEF IInv, PlainConfined, Plain, TypeOK
<1>12. RetainInFlight'
  BY <1>1, <1>2, <1>3 DEF IInv, RetainInFlight, Plain, TypeOK
<1>13. ReleaseInFlight'
  BY <1>1, <1>2, <1>3 DEF IInv, ReleaseInFlight, Plain, TypeOK
<1>14. FreeInFlight'
  BY <1>1, <1>2 DEF IInv, FreeInFlight, TypeOK
<1>15. QED
  BY <1>4, <1>7, <1>8, <1>9, <1>10, <1>11, <1>12, <1>13, <1>14 DEF IInv
\* A decrement that leaves holders behind and one that does not: what
\* AfterDecrement needs from both release functions.
LEMMA DecrementIInv ==
  ASSUME IInv, NEW t \in Threads, NEW o \in Objects, NEW r \in Refs,
         ref[r] = o, Owner[r] = t,
         pc[t] # "free",
         \A u \in Threads \ {t} : pc[u] \in {"retain", "release"} => arg[u] # o,
         refcount' = [refcount EXCEPT ![o] = Cardinality(Holders(o)) - 1],
         ref' = [ref EXCEPT ![r] = Nil],
         AfterDecrement(t, o, Cardinality(Holders(o)) - 1),
         UNCHANGED allocated
  PROVE  IInv'
<1> USE DEF Holders
<1> DEFINE count == Cardinality(HoldersIn(ref, o)) - 1
<1>1. TypeOK /\ ref \in Pointers /\ allocated[o] /\ Nil \notin Objects
  BY DEF IInv, TypeOK, Pointers, NoDangling
<1>2. /\ HoldersIn(ref', o) = HoldersIn(ref, o) \ {r}
      /\ r \in HoldersIn(ref, o)
      /\ \A p \in Objects \ {o} : HoldersIn(ref', p) = HoldersIn(ref, p)
  BY <1>1 DEF HoldersIn, Pointers
<1>3. /\ count \in Nat
      /\ Cardinality(HoldersIn(ref', o)) = count
      /\ count = 0 <=> HoldersIn(ref', o) = {}
  <2>1. Cardinality(HoldersIn(ref, o)) \in Nat \ {0}
    BY <1>2, HolderRemoved
  <2>2. Cardinality(HoldersIn(ref', o)) = count
    BY <1>2, HolderRemoved
  <2>3. Cardinality(HoldersIn(ref', o)) = 0 <=> HoldersIn(ref', o) = {}
    BY HoldersFinite
  <2>4. \A n \in Nat \ {0} : n - 1 \in Nat
    OBVIOUS
  <2>5. count \in Nat
    BY <2>1, <2>4
  <2>6. QED
    BY ONLY <2>2, <2>3, <2>5
<1>4. refcount' = [refcount EXCEPT ![o] = count]
  OBVIOUS
<1>5. AfterDecrement(t, o, count)
  OBVIOUS
<1> HIDE DEF count
<1>6. \A u \in Threads : pc[u] = "free" => arg[u] # o /\ u # t
  BY <1>2 DEF IInv, NoDoubleFree
<1>7. NoDangling' /\ PlainConfined'
  BY <1>1 DEF IInv, NoDangling, PlainConfined, TypeOK, Plain
<1>8. RefcountExact'
  <2> SUFFICES ASSUME NEW p \in Objects, allocated'[p]
               PROVE  refcount'[p] = Cardinality(HoldersIn(ref', p))
    BY DEF RefcountExact
  <2>1. CASE p = o
    BY <1>1, <1>3, <1>4, <2>1 DEF TypeOK
  <2>2. CASE p # o
    BY <1>1, <1>2, <1>4, <2>2 DEF IInv, RefcountExact, TypeOK
  <2>3. QED
    BY <2>1, <2>2
<1>9. CASE count = 0
  <2>1. /\ pc' = [pc EXCEPT ![t] = "free"] /\ arg' = [arg EXCEPT ![t] = o]
        /\ src' = [src EXCEPT ![t] = Nil] /\ loaded' = [loaded EXCEPT ![t] = 0]
        /\ dst' = dst
    BY <1>5, <1>9 DEF AfterDecrement
  <2>2. TypeOK'
    BY <1>1, <1>3, <1>4, <2>1 DEF TypeOK
  <2>3. HoldersIn(ref', o) = {}
    BY <1>3, <1>9
  <2>4. NoDoubleFree'
    <3> SUFFICES ASSUME NEW u \in Threads, pc'[u] = "free"
                 PROVE  /\ allocated'[arg'[u]]
                        /\ HoldersIn(ref', arg'[u]) = {}
                        /\ \A v \in Threads \ {u} : pc'[v] = "free" => arg'[v] # arg'[u]
      BY DEF NoDoubleFree
    <3>1. CASE u = t
      BY <1>1, <1>6, <2>1, <2>3, <3>1 DEF TypeOK
    <3>2. CASE u # t
      <4>1. arg[u] \in Objects \ {o} /\ pc[u] = "free" /\ arg'[u] = arg[u]
        BY <1>1, <1>6, <2>1, <3>2 DEF TypeOK, IInv, FreeInFlight
      <4>2. QED
        BY <1>1, <1>2, <2>1, <4>1 DEF IInv, NoDoubleFree, TypeOK
    <3>3. QED
      BY <3>1, <3>2
  <2>5. NoLeak'
    BY <1>1, <1>2, <1>6, <2>1 DEF IInv, NoLeak, Freeing, TypeOK
  <2>6. RetainInFlight'
    BY <1>1, <1>4, <2>1 DEF IInv, RetainInFlight, TypeOK, Plain
  <2>7. ReleaseInFlight'
    BY <1>1, <1>4, <2>1 DEF IInv, ReleaseInFlight, TypeOK, Plain
  <2>8. FreeInFlight'
    BY <1>1, <2>1 DEF IInv, FreeInFlight, TypeOK
  <2>9. QED
    BY <1>7, <1>8, <2>2, <2>4, <2>5, <2>6, <2>7, <2>8 DEF IInv
<1>10. CASE count # 0
  <2>1. /\ pc' = [pc EXCEPT ![t] = "idle"] /\ arg' = [arg EXCEPT ![t] = Nil]
        /\ src' = [src EXCEPT ![t] = Nil] /\ dst' = [dst EXCEPT ![t] = Nil]
        /\ loaded' = [loaded EXCEPT ![t] = 0]
    BY <1>5, <1>10 DEF AfterDecrement, Leave
  <2>2. TypeOK'
    BY <1>1, <1>3, <1>4, <2>1 DEF TypeOK
  <2>3. HoldersIn(ref', o) # {}
    BY <1>3, <1>10
  <2>4. NoDoubleFree'
    BY <1>1, <1>2, <1>6, <2>1 DEF IInv, NoDoubleFree, FreeInFlight, TypeOK
  <2>5. NoLeak'
    BY <1>1, <1>2, <1>6, <2>1, <2>3 DEF IInv, NoLeak, Freeing, TypeOK
  <2>6. RetainInFlight'
    BY <1>1, <1>4, <2>1 DEF IInv, RetainInFlight, TypeOK, Plain
  <2>7. ReleaseInFlight'
    BY <1>1, <1>4, <2>1 DEF IInv, ReleaseInFlight, TypeOK, Plain
  <2>8. FreeInFlight'
    BY <1>1, <2>1 DEF IInv, FreeInFlight, TypeOK
  <2>9. QED
    BY <1>7, <1>8, <2>2, <2>4, <2>5, <2>6, <2>7, <2>8 DEF IInv
<1>11. QED
  BY <1>9, <1>10

\* The store of arc_release.
LEMMA ArcReleaseStoreIInv ==
  ASSUME IInv, NEW t \in Threads, ArcReleaseStore(t)
  PROVE  IInv'
<1>1. arg[t] \in Objects /\ src[t] \in Refs /\ pc[t] = "release"
  BY DEF ArcReleaseStore, IInv, ReleaseInFlight
<1>2. PICK o \in Objects, r \in Refs : o = arg[t] /\ r = src[t]
  BY <1>1
<1>3. Owner[r] = t /\ ref[r] = o
  BY <1>1, <1>2 DEF IInv, ReleaseInFlight
<1>4. /\ loaded[t] = Cardinality(Holders(o))
      /\ \A u \in Threads \ {t} : pc[u] \in {"retain", "release"} => arg[u] # o
  BY <1>1, <1>2, PlainCallAlone
<1>5. /\ refcount' = [refcount EXCEPT ![o] = Cardinality(Holders(o)) - 1]
      /\ ref' = [ref EXCEPT ![r] = Nil]
      /\ AfterDecrement(t, o, Cardinality(Holders(o)) - 1)
      /\ UNCHANGED allocated
  BY <1>2, <1>4 DEF ArcReleaseStore
<1>6. QED
  BY <1>1, <1>3, <1>4, <1>5, DecrementIInv

\* arc_release_shared up to the call of free.
LEMMA ArcReleaseSharedIInv ==
  ASSUME IInv, NEW t \in Threads, NEW r \in Refs, ArcReleaseShared(t, r)
  PROVE  IInv'
<1> DEFINE o == ref[r]
<1>1. o \in Objects /\ ~Plain(o) /\ Owner[r] = t /\ pc[t] = "idle"
  BY DEF ArcReleaseShared, IInv, TypeOK
<1>2. refcount[o] = Cardinality(Holders(o))
  BY <1>1 DEF ArcReleaseShared, IInv, NoDangling, RefcountExact
<1>3. \A u \in Threads \ {t} : pc[u] \in {"retain", "release"} => arg[u] # o
  BY <1>1 DEF IInv, RetainInFlight, ReleaseInFlight
<1>4. refcount' = [refcount EXCEPT ![o] = Cardinality(Holders(o)) - 1]
  BY <1>1, <1>2 DEF ArcReleaseShared, IInv, TypeOK
<1>5. /\ ref' = [ref EXCEPT ![r] = Nil]
      /\ AfterDecrement(t, o, Cardinality(Holders(o)) - 1)
      /\ UNCHANGED allocated
  BY <1>2 DEF ArcReleaseShared
<1>6. ref[r] = o
  OBVIOUS
<1> HIDE DEF o
<1>7. QED
  BY <1>1, <1>3, <1>4, <1>5, <1>6, DecrementIInv
\* arc_retain_shared.
LEMMA ArcRetainSharedIInv ==
  ASSUME IInv, NEW t \in Threads, NEW r \in Refs, NEW d \in Refs, ArcRetainShared(t, r, d)
  PROVE  IInv'
<1> USE DEF Holders
<1>1. PICK o \in Objects : o = ref[r]
  BY DEF ArcRetainShared, IInv, TypeOK
<1>2. /\ ref \in Pointers /\ TypeOK /\ allocated[o] /\ ~Plain(o)
      /\ ref[d] = Nil /\ Owner[d] = t /\ pc[t] = "idle"
      /\ refcount[o] = Cardinality(HoldersIn(ref, o))
  BY <1>1 DEF ArcRetainShared, IInv, TypeOK, Pointers, NoDangling, RefcountExact
<1>3. /\ refcount' = [refcount EXCEPT ![o] = refcount[o] + 1]
      /\ ref' = [ref EXCEPT ![d] = o]
      /\ UNCHANGED <<allocated, pc, arg, src, dst, loaded>>
  BY <1>1 DEF ArcRetainShared
<1>4. /\ HoldersIn(ref', o) = HoldersIn(ref, o) \cup {d}
      /\ \A p \in Objects \ {o} : HoldersIn(ref', p) = HoldersIn(ref, p)
      /\ d \notin HoldersIn(ref, o) /\ r \in HoldersIn(ref, o)
  BY <1>1, <1>2, <1>3 DEF HoldersIn, Pointers
<1>5. Cardinality(HoldersIn(ref', o)) = Cardinality(HoldersIn(ref, o)) + 1
  BY <1>4, HolderAdded
<1>6. TypeOK'
  BY <1>2, <1>3 DEF TypeOK
<1>7. NoDangling' /\ PlainConfined'
  BY <1>2, <1>3 DEF IInv, NoDangling, PlainConfined, TypeOK, Plain
<1>8. NoDoubleFree'
  BY <1>2, <1>3, <1>4 DEF IInv, NoDoubleFree, FreeInFlight, TypeOK
<1>9. RefcountExact'
  BY <1>2, <1>3, <1>4, <1>5 DEF IInv, RefcountExact, TypeOK
<1>10. NoLeak'
  BY <1>2, <1>3, <1>4 DEF IInv, NoLeak, Freeing, TypeOK
<1>11. RetainInFlight'
  BY <1>2, <1>3 DEF IInv, RetainInFlight, TypeOK, Plain
<1>12. ReleaseInFlight'
  BY <1>2, <1>3 DEF IInv, ReleaseInFlight, TypeOK, Plain
<1>13. FreeInFlight'
  BY <1>3 DEF IInv, FreeInFlight
<1>14. QED
  BY <1>6, <1>7, <1>8, <1>9, <1>10, <1>11, <1>12, <1>13 DEF IInv

\* free(h).
LEMMA ArcFreeIInv ==
  ASSUME IInv, NEW t \in Threads, ArcFree(t)
  PROVE  IInv'
<1> USE DEF Holders
<1>1. PICK o \in Objects : o = arg[t]
  BY DEF ArcFree, IInv, FreeInFlight
<1>2. /\ pc[t] = "free" /\ allocated[o] /\ HoldersIn(ref, o) = {}
      /\ \A u \in Threads \ {t} : pc[u] = "free" => arg[u] # o
  BY <1>1 DEF ArcFree, IInv, NoDoubleFree
<1>3. /\ allocated' = [allocated EXCEPT ![o] = FALSE]
      /\ pc' = [pc EXCEPT ![t] = "idle"] /\ arg' = [arg EXCEPT ![t] = Nil]
      /\ src' = [src EXCEPT ![t] = Nil] /\ dst' = [dst EXCEPT ![t] = Nil]
      /\ loaded' = [loaded EXCEPT ![t] = 0] /\ UNCHANGED <<refcount, ref>>
  BY <1>1 DEF ArcFree, Leave
<1>4. TypeOK'
  BY <1>3 DEF IInv, TypeOK
<1>5. \A r \in Refs : ref[r] # o
  BY <1>2 DEF HoldersIn
<1>6. NoDangling' /\ PlainConfined'
  BY <1>3, <1>5 DEF IInv, NoDangling, PlainConfined, TypeOK, Plain
<1>7. NoDoubleFree'
  BY <1>2, <1>3 DEF IInv, NoDoubleFree, FreeInFlight, TypeOK
<1>8. RefcountExact'
  BY <1>2, <1>3 DEF IInv, RefcountExact, TypeOK
<1>9. NoLeak'
  BY <1>1, <1>2, <1>3 DEF IInv, NoLeak, Freeing, TypeOK
<1>10. RetainInFlight'
  BY <1>3 DEF IInv, RetainInFlight, TypeOK, Plain
<1>11. ReleaseInFlight'
  BY <1>3 DEF IInv, ReleaseInFlight, TypeOK, Plain
<1>12. FreeInFlight'
  BY <1>3 DEF IInv, FreeInFlight, TypeOK
<1>13. QED
  BY <1>4, <1>6, <1>7, <1>8, <1>9, <1>10, <1>11, <1>12 DEF IInv

\* A reference that changes hands keeps the counts.
LEMMA HandOverIInv ==
  ASSUME IInv, NEW r \in Refs, NEW d \in Refs, HandOver(r, d)
  PROVE  IInv'
<1> USE DEF Holders
<1>1. PICK o \in Objects : o = ref[r]
  BY DEF HandOver, IInv, TypeOK
<1>2. /\ TypeOK /\ ref \in Pointers /\ allocated[o] /\ ref[d] = Nil /\ r # d
      /\ pc[Owner[r]] = "idle" /\ pc[Owner[d]] = "idle"
      /\ Plain(o) => \A s \in Refs : ref[s] = o => s = r
  BY <1>1 DEF HandOver, IInv, TypeOK, Pointers, NoDangling, HoldersIn
<1>3. /\ ref' = [ref EXCEPT ![d] = o, ![r] = Nil]
      /\ UNCHANGED <<allocated, refcount, pc, arg, src, dst, loaded>>
  BY <1>1 DEF HandOver
<1>4. /\ HoldersIn(ref', o) = (HoldersIn(ref, o) \ {r}) \cup {d}
      /\ \A p \in Objects \ {o} : HoldersIn(ref', p) = HoldersIn(ref, p)
      /\ d \notin HoldersIn(ref, o) /\ r \in HoldersIn(ref, o)
  BY <1>1, <1>2, <1>3 DEF HoldersIn, Pointers
<1>5. Cardinality(HoldersIn(ref', o)) = Cardinality(HoldersIn(ref, o))
  <2> DEFINE S == HoldersIn(ref, o) \ {r}
  <2>1. IsFiniteSet(HoldersIn(ref, o)) /\ Cardinality(HoldersIn(ref, o)) \in Nat
    BY HoldersFinite
  <2>2. IsFiniteSet(S) /\ Cardinality(S) = Cardinality(HoldersIn(ref, o)) - 1
    BY <2>1, <1>4, FS_RemoveElement
  <2>3. d \notin S
    BY <1>4
  <2>4. Cardinality(S \cup {d}) = Cardinality(S) + 1
    BY <2>2, <2>3, FS_AddElement
  <2>5. QED
    BY <2>1, <2>2, <2>4, <1>4
<1>6. TypeOK'
  BY <1>2, <1>3 DEF TypeOK
<1>7. NoDangling' /\ PlainConfined'
  BY <1>2, <1>3 DEF IInv, NoDangling, PlainConfined, TypeOK, Plain
<1>8. NoDoubleFree'
  BY <1>2, <1>3, <1>4 DEF IInv, NoDoubleFree, FreeInFlight, TypeOK
<1>9. RefcountExact'
  BY <1>2, <1>3, <1>4, <1>5 DEF IInv, RefcountExact, TypeOK
<1>10. NoLeak'
  BY <1>2, <1>3, <1>4 DEF IInv, NoLeak, Freeing, TypeOK
<1>11. RetainInFlight'
  <2> SUFFICES ASSUME NEW t \in Threads, pc'[t] = "retain"
               PROVE  /\ arg'[t] \in Objects /\ Plain(arg'[t])
                      /\ dst'[t] \in Refs /\ Owner[dst'[t]] = t /\ ref'[dst'[t]] = Nil
                      /\ \E s \in Refs : Owner[s] = t /\ ref'[s] = arg'[t]
                      /\ loaded'[t] = refcount'[arg'[t]]
    BY DEF RetainInFlight, Plain
  <2>1. /\ arg[t] \in Objects /\ Plain(arg[t])
        /\ dst[t] \in Refs /\ Owner[dst[t]] = t /\ ref[dst[t]] = Nil
        /\ loaded[t] = refcount[arg[t]]
    BY <1>3 DEF IInv, RetainInFlight
  <2>2. PICK s \in Refs : Owner[s] = t /\ ref[s] = arg[t]
    BY <1>3 DEF IInv, RetainInFlight
  <2>3. ref'[dst[t]] = Nil /\ ref'[s] = ref[s]
    BY <1>2, <1>3, <2>1, <2>2 DEF TypeOK
  <2>4. QED
    BY <1>3, <2>1, <2>2, <2>3
<1>12. ReleaseInFlight'
  BY <1>2, <1>3 DEF IInv, ReleaseInFlight, TypeOK, Plain
<1>13. FreeInFlight'
  BY <1>3 DEF IInv, FreeInFlight
<1>14. QED
  BY <1>6, <1>7, <1>8, <1>9, <1>10, <1>11, <1>12, <1>13 DEF IInv
-----------------------------------------------------------------------------
\* Every step preserves the inductive invariant.
LEMMA NextIInv == IInv /\ [Next]_vars => IInv'
<1> SUFFICES ASSUME IInv, [Next]_vars PROVE IInv'
  OBVIOUS
<1>1. ASSUME NEW t \in Threads, Step(t) PROVE IInv'
  BY <1>1, ArcAllocIInv, ArcRetainLoadIInv, ArcRetainStoreIInv, ArcReleaseLoadIInv,
     ArcReleaseStoreIInv, ArcRetainSharedIInv, ArcReleaseSharedIInv, ArcFreeIInv
  DEF Step
<1>2. ASSUME NEW r \in Refs, NEW d \in Refs, HandOver(r, d) PROVE IInv'
  BY <1>2, HandOverIInv
<1>3. CASE UNCHANGED vars
  <2>1. TypeOK' /\ NoDangling' /\ PlainConfined' /\ RefcountExact'
    BY <1>3 DEF vars, IInv, TypeOK, NoDangling, PlainConfined, RefcountExact, Plain, Holders
  <2>2. NoDoubleFree' /\ NoLeak'
    BY <1>3 DEF vars, IInv, NoDoubleFree, NoLeak, Holders, Freeing
  <2>3. RetainInFlight' /\ ReleaseInFlight' /\ FreeInFlight'
    BY <1>3 DEF vars, IInv, RetainInFlight, ReleaseInFlight, FreeInFlight, Plain
  <2>4. QED
    BY <2>1, <2>2, <2>3 DEF IInv
<1>4. QED
  BY <1>1, <1>2, <1>3 DEF Next

\* The inductive invariant holds in every reachable state: runtime/arc.c keeps
\* its books however the calls of the threads interleave.
THEOREM Correct == Safe => []IInv
BY InitIInv, NextIInv, PTL DEF Safe

\* The types of the runtime's state.
THEOREM TypeCorrect == Safe => []TypeOK
<1>1. IInv => TypeOK
  BY DEF IInv
<1>2. QED
  BY <1>1, Correct, PTL

\* No lost update on a reference count: it is the number of variables that own
\* the object, for plain and for shared objects.
THEOREM CountsAreExact == Safe => []RefcountExact
<1>1. IInv => RefcountExact
  BY DEF IInv
<1>2. QED
  BY <1>1, Correct, PTL

\* No use after free: a variable never holds a pointer to a freed block.
THEOREM NothingDangles == Safe => []NoDangling
<1>1. IInv => NoDangling
  BY DEF IInv
<1>2. QED
  BY <1>1, Correct, PTL

\* free() is called once per allocation, on a block nobody owns.
THEOREM FreedOnce == Safe => []NoDoubleFree
<1>1. IInv => NoDoubleFree
  BY DEF IInv
<1>2. QED
  BY <1>1, Correct, PTL

\* A block nobody owns is being freed.
THEOREM NothingLeaks == Safe => []NoLeak
<1>1. IInv => NoLeak
  BY DEF IInv
<1>2. QED
  BY <1>1, Correct, PTL
-----------------------------------------------------------------------------
\* The runtime implements ArcOwnership: every step is a step of ownership
\* without counts, or changes nothing ownership can see.

LEMMA InitRefines == Init => Ownership!Init
<1> SUFFICES ASSUME Init PROVE Ownership!Init
  OBVIOUS
<1>1. \A o \in Objects : HoldersIn(ref, o) = {}
  BY DEF Init, HoldersIn
<1>2. QED
  BY <1>1 DEF Init, Ownership!Init, Holders

\* A step that fills the variable d with o: o gains a holder.
LEMMA FillRefines ==
  ASSUME TypeOK, NEW o \in Objects, NEW d \in Refs, ref[d] = Nil,
         ref' = [ref EXCEPT ![d] = o]
  PROVE  /\ Ownership!Unused(d)
         /\ [p \in Objects |-> Holders(p)]'
              = [[p \in Objects |-> Holders(p)] EXCEPT ![o] = @ \cup {d}]
<1>1. Ownership!Unused(d)
  BY DEF Ownership!Unused, Holders, HoldersIn
<1>2. /\ HoldersIn(ref', o) = HoldersIn(ref, o) \cup {d}
      /\ \A p \in Objects \ {o} : HoldersIn(ref', p) = HoldersIn(ref, p)
  BY DEF HoldersIn, TypeOK
<1>3. QED
  BY <1>1, <1>2 DEF Holders

\* A step that clears the variable r: the object it held loses that holder.
LEMMA ClearRefines ==
  ASSUME TypeOK, NEW o \in Objects, NEW r \in Refs, ref[r] = o, allocated[o],
         ref' = [ref EXCEPT ![r] = Nil], UNCHANGED allocated
  PROVE  Ownership!Drop(o, r)
<1>1. /\ HoldersIn(ref', o) = HoldersIn(ref, o) \ {r}
      /\ \A p \in Objects \ {o} : HoldersIn(ref', p) = HoldersIn(ref, p)
      /\ r \in HoldersIn(ref, o)
  BY DEF HoldersIn, TypeOK
<1>2. QED
  BY <1>1 DEF Ownership!Drop, Holders

\* Every step of the runtime is one of the ownership specification, or changes nothing there.
LEMMA NextRefines == IInv /\ [Next]_vars => [Ownership!Next]_(Ownership!vars)
<1> SUFFICES ASSUME IInv, [Next]_vars PROVE [Ownership!Next]_(Ownership!vars)
  OBVIOUS
<1> USE DEF Ownership!Next
<1>1. TypeOK
  BY DEF IInv
<1>2. ASSUME NEW t \in Threads, NEW r \in Refs, NEW o \in Objects, ArcAlloc(t, r, o)
      PROVE  Ownership!Create(o, r)
  <2>1. ref[r] = Nil /\ ref' = [ref EXCEPT ![r] = o] /\ ~allocated[o]
    BY <1>2 DEF ArcAlloc
  <2>2. /\ HoldersIn(ref', o) = {r}
        /\ \A p \in Objects \ {o} : HoldersIn(ref', p) = HoldersIn(ref, p)
    BY <1>1, <2>1 DEF IInv, NoDangling, HoldersIn, TypeOK
  <2>3. Ownership!Unused(r)
    BY <1>1, <2>1, FillRefines
  <2>4. QED
    BY <1>2, <2>1, <2>2, <2>3 DEF ArcAlloc, Ownership!Create, Holders
<1>3. ASSUME NEW t \in Threads, ArcRetainStore(t)
      PROVE  \E o \in Objects, r, s \in Refs : Ownership!Share(o, r, s)
  <2>1. PICK o \in Objects, d \in Refs : o = arg[t] /\ d = dst[t] /\ ref[d] = Nil
    BY <1>3 DEF ArcRetainStore, IInv, RetainInFlight
  <2>2. PICK r \in Refs : ref[r] = o
    BY <1>3, <2>1 DEF ArcRetainStore, IInv, RetainInFlight
  <2>3. r \in Holders(o) /\ ref' = [ref EXCEPT ![d] = o] /\ UNCHANGED allocated
    BY <1>3, <2>1, <2>2 DEF ArcRetainStore, Holders, HoldersIn
  <2>4. Ownership!Share(o, r, d)
    BY <1>1, <2>1, <2>3, FillRefines DEF Ownership!Share
  <2>5. QED
    BY <2>4
<1>4. ASSUME NEW t \in Threads, NEW r \in Refs, NEW d \in Refs, ArcRetainShared(t, r, d)
      PROVE  \E o \in Objects : Ownership!Share(o, r, d)
  <2>1. PICK o \in Objects : o = ref[r]
    BY <1>1, <1>4 DEF ArcRetainShared, TypeOK
  <2>2. /\ r \in Holders(o) /\ ref[d] = Nil
        /\ ref' = [ref EXCEPT ![d] = o] /\ UNCHANGED allocated
    BY <1>4, <2>1 DEF ArcRetainShared, Holders, HoldersIn
  <2>3. Ownership!Share(o, r, d)
    BY <1>1, <2>2, FillRefines DEF Ownership!Share
  <2>4. QED
    BY <2>3
<1>5. ASSUME NEW t \in Threads, ArcReleaseStore(t)
      PROVE  \E o \in Objects, r \in Refs : Ownership!Drop(o, r)
  <2>1. PICK o \in Objects, r \in Refs : o = arg[t] /\ r = src[t] /\ ref[r] = o
    BY <1>5 DEF ArcReleaseStore, IInv, ReleaseInFlight
  <2>2. allocated[o]
    BY <2>1 DEF IInv, NoDangling
  <2>3. ref' = [ref EXCEPT ![r] = Nil] /\ UNCHANGED allocated
    BY <1>5, <2>1 DEF ArcReleaseStore
  <2>4. QED
    BY <1>1, <2>1, <2>2, <2>3, ClearRefines
<1>6. ASSUME NEW t \in Threads, NEW r \in Refs, ArcReleaseShared(t, r)
      PROVE  \E o \in Objects : Ownership!Drop(o, r)
  <2>1. PICK o \in Objects : o = ref[r]
    BY <1>1, <1>6 DEF ArcReleaseShared, TypeOK
  <2>2. allocated[o]
    BY <2>1 DEF IInv, NoDangling
  <2>3. ref' = [ref EXCEPT ![r] = Nil] /\ UNCHANGED allocated
    BY <1>6, <2>1 DEF ArcReleaseShared
  <2>4. QED
    BY <1>1, <2>1, <2>2, <2>3, ClearRefines
<1>7. ASSUME NEW t \in Threads, ArcFree(t)
      PROVE  \E o \in Objects : Ownership!Reclaim(o)
  <2>1. PICK o \in Objects : o = arg[t] /\ allocated[o] /\ Holders(o) = {}
    BY <1>7 DEF ArcFree, IInv, FreeInFlight, NoDoubleFree
  <2>2. allocated' = [allocated EXCEPT ![o] = FALSE] /\ UNCHANGED ref
    BY <1>7, <2>1 DEF ArcFree
  <2>3. Ownership!Reclaim(o)
    BY <2>1, <2>2 DEF Ownership!Reclaim, Holders
  <2>4. QED
    BY <2>3
<1>8. ASSUME NEW r \in Refs, NEW d \in Refs, HandOver(r, d)
      PROVE  \E o \in Objects : Ownership!Move(o, r, d)
  <2>1. PICK o \in Objects : o = ref[r]
    BY <1>1, <1>8 DEF HandOver, TypeOK
  <2>2. /\ ref[d] = Nil /\ r # d /\ r \in Holders(o) /\ UNCHANGED allocated
        /\ ref' = [ref EXCEPT ![d] = o, ![r] = Nil]
    BY <1>8, <2>1 DEF HandOver, Holders, HoldersIn
  <2>3. Ownership!Unused(d)
    BY <2>2 DEF Ownership!Unused, Holders, HoldersIn
  <2>4. /\ HoldersIn(ref', o) = (HoldersIn(ref, o) \ {r}) \cup {d}
        /\ \A p \in Objects \ {o} : HoldersIn(ref', p) = HoldersIn(ref, p)
    BY <1>1, <2>1, <2>2 DEF HoldersIn, TypeOK
  <2>5. Ownership!Move(o, r, d)
    BY <2>2, <2>3, <2>4 DEF Ownership!Move, Holders
  <2>6. QED
    BY <2>5
<1>9. ASSUME UNCHANGED <<ref, allocated>>
      PROVE  UNCHANGED Ownership!vars
  BY <1>9 DEF Ownership!vars, Holders
<1>10. ASSUME NEW t \in Threads, Step(t)
       PROVE  Ownership!Next \/ UNCHANGED <<ref, allocated>>
  BY <1>2, <1>3, <1>4, <1>5, <1>6, <1>7, <1>10
  DEF Step, ArcReleaseLoad, ArcRetainLoad
<1>11. QED
  BY <1>8, <1>9, <1>10 DEF Next, vars

\* Refinement: the behaviours of the runtime are behaviours of ownership without
\* counts.  An object is created with one holder, shared only by a holder, and
\* its memory is given back only after the last holder dropped it.
THEOREM ImplementsSafe == Safe => Ownership!Safe
BY InitRefines, NextRefines, Correct, PTL DEF Safe, Ownership!Safe
=============================================================================
