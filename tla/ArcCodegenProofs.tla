-------------------------- MODULE ArcCodegenProofs --------------------------
(***************************************************************************)
(* Proofs about ArcCodegen for any number of blocks, frames and locals and *)
(* any choice of statement forms: the variable table matches the stack,    *)
(* which programs are memory safe, and on which side of the number of      *)
(* owners the counts of the other programs err.                            *)
(***************************************************************************)
EXTENDS ArcCodegen, FiniteSetTheorems, TLAPS

USE BoundAssumption, FiniteAssumption

HeapShape == [count : [Objects -> Nat],
              state : [Objects -> {"unused", "live", "freed"}],
              trap  : {"none", "literal", "wild", "freed"}]

\* A block is live as long as its count is not zero.
HeapOK(h) ==
  /\ h \in HeapShape
  /\ \A o \in Objects : h.state[o] = "live" <=> h.count[o] > 0

FTypeOK ==
  /\ kinds \in Programs
  /\ HeapOK(heap)
  /\ slot \in [Slots -> Pointers \cup {Absent}]
  /\ declared \in [1..MaxDepth -> 0..MaxLocals]
  /\ depth \in 1..MaxDepth
  /\ pc \in {"run", "unwind", "exited"}
  /\ ret \in [val : Pointers, how : {"none", "temporary", "identifier"}]
  /\ call \in [1..MaxDepth -> [sink : {"declare", "assign", "discard"}, to : Slots,
                               fstring : Objects \cup {Null}]]

\* Frames that are not in use have no variables and no caller.
FramesAbove ==
  /\ \A d \in 1..MaxDepth : d > depth => declared[d] = 0
  /\ \A d \in 1..MaxDepth : d > depth \/ d = 1 => call[d] = NoCall /\ slot[Param(d)] = Absent
  /\ slot[Global] # Absent

\* What the callers will do with the results is still possible when they come.
CallsOK ==
  \A d \in 2..depth :
    /\ call[d].sink = "declare" => /\ declared[d - 1] < MaxLocals
                                   /\ call[d].to = <<d - 1, declared[d - 1] + 1>>
    /\ call[d].sink = "assign"  => /\ slot[call[d].to] # Absent
                                   /\ call[d].to[1] \in {0, d - 1}
                                   /\ call[d].to \notin OwningSlots => "assign_param" \in kinds

\* There is a value only on the way out of a function.
ReturnOK ==
  /\ ret.how = "none" => ret.val = Null
  /\ ret.how # "none" => /\ pc = "unwind" /\ depth > 1
                         /\ call[depth].sink = "discard" => "discard" \in kinds

ExitOK == pc = "exited" => NoTrap /\ depth = 1 /\ declared[1] = 0

FInv == FTypeOK /\ FramesMatchTable /\ FramesAbove /\ CallsOK /\ ReturnOK /\ ExitOK

\* How far the count of o is above the number of its owners.
Surplus(o) == heap.count[o] - Owners(o)

\* A program without aliasing never has a count too low, and one that drops nothing
\* never a count too high.
CountInv ==
  /\ NoTrap /\ Without(Aliasing) => \A o \in Objects : Surplus(o) >= 0
  /\ NoTrap /\ Without(Dropping) => \A o \in Objects : Surplus(o) <= 0

\* What keeps the block p alive that the parameter of frame d borrows: a local of a frame
\* below, an f-string that a caller will release, or that it is leaked.
Backed(d, p) ==
  \/ \E e \in 1..MaxDepth, i \in 1..MaxLocals : e < d /\ slot[<<e, i>>] = p
  \/ \E e \in 1..MaxDepth : e <= d /\ call[e].fstring = p
  \/ Surplus(p) > 0

SafeProgram == Without(Aliasing) /\ ~Headerless(kinds)

\* What the parameter of frame d holds.
ParamSafe(d) ==
  /\ slot[Param(d)] # Wild
  /\ slot[Param(d)] = Lit => "literal_arg" \in kinds
  /\ \A p \in Objects : slot[Param(d)] = p => Backed(d, p)

OwnersSafe == \A s \in OwningSlots : slot[s] \notin {Lit, Wild}

ResultSafe ==
  /\ ret.how = "temporary" => ret.val \in Objects
  /\ ret.how = "identifier" => \/ ret.val = slot[Global]
                               \/ ret.val = slot[Param(depth)] /\ "return_param" \in kinds

SafeInv ==
  SafeProgram => NoTrap /\ OwnersSafe /\ (\A d \in 1..MaxDepth : ParamSafe(d)) /\ ResultSafe

-----------------------------------------------------------------------------
\* Adding a member makes a set larger by one at most.
LEMMA AddAtMostOne ==
  ASSUME NEW S, IsFiniteSet(S), NEW x
  PROVE  /\ IsFiniteSet(S \cup {x}) /\ Cardinality(S \cup {x}) \in Nat
         /\ Cardinality(S \cup {x}) <= Cardinality(S) + 1
<1>1. Cardinality(S) \in Nat
  BY FS_CardinalityType
<1>2. CASE x \in S
  <2>1. S \cup {x} = S
    BY <1>2
  <2>2. Cardinality(S \cup {x}) = Cardinality(S) /\ IsFiniteSet(S \cup {x})
    BY <2>1, Zenon
  <2>3. QED
    BY <1>1, <2>2
<1>3. CASE x \notin S
  BY <1>1, <1>3, FS_AddElement
<1>4. QED
  BY <1>2, <1>3

\* A set written with three members has at most three.
LEMMA AtMostThree == ASSUME NEW a, NEW b, NEW c PROVE Cardinality({a, b, c}) <= 3
<1> DEFINE A == {a}
           B == A \cup {b}
           C == B \cup {c}
<1>1. IsFiniteSet(A) /\ Cardinality(A) = 1
  BY FS_Singleton
<1> HIDE DEF A
<1>2. IsFiniteSet(B) /\ Cardinality(B) \in Nat /\ Cardinality(B) <= Cardinality(A) + 1
  BY <1>1, AddAtMostOne
<1> HIDE DEF B
<1>3. Cardinality(C) \in Nat /\ Cardinality(C) <= Cardinality(B) + 1
  BY <1>2, AddAtMostOne
<1>4. C = {a, b, c}
  BY DEF A, B
<1> HIDE DEF C
<1>5. Cardinality(C) <= 3
  BY <1>1, <1>2, <1>3
<1>6. QED
  BY <1>4, <1>5, Zenon

\* The four pointers that are not blocks are different, and none of them is a block.
LEMMA Distinct ==
  /\ Null # Lit /\ Null # Wild /\ Null # Absent /\ Lit # Wild /\ Lit # Absent /\ Wild # Absent
  /\ \A o \in Objects : o \notin {Null, Lit, Wild, Absent}
<1>1. ASSUME NEW a, NEW b, NEW c, {Null, Lit, Wild, Absent} = {a, b, c} PROVE FALSE
  <2>1. Cardinality({Null, Lit, Wild, Absent}) = Cardinality({a, b, c})
    BY <1>1
  <2>2. Cardinality({a, b, c}) <= 3
    BY AtMostThree
  <2>3. 4 <= 3
    BY <2>1, <2>2, ValueAssumption
  <2>4. QED
    BY <2>3
<1>2. Null # Lit /\ Null # Wild /\ Null # Absent /\ Lit # Wild /\ Lit # Absent /\ Wild # Absent
  <2>1. Null = Lit => {Null, Lit, Wild, Absent} = {Lit, Wild, Absent}
    OBVIOUS
  <2>2. Null = Wild => {Null, Lit, Wild, Absent} = {Lit, Wild, Absent}
    OBVIOUS
  <2>3. Null = Absent => {Null, Lit, Wild, Absent} = {Lit, Wild, Absent}
    OBVIOUS
  <2>4. Lit = Wild => {Null, Lit, Wild, Absent} = {Null, Wild, Absent}
    OBVIOUS
  <2>5. Lit = Absent => {Null, Lit, Wild, Absent} = {Null, Wild, Absent}
    OBVIOUS
  <2>6. Wild = Absent => {Null, Lit, Wild, Absent} = {Null, Lit, Absent}
    OBVIOUS
  <2>7. QED
    BY <1>1, <2>1, <2>2, <2>3, <2>4, <2>5, <2>6
<1>3. QED
  BY <1>2, ValueAssumption

\* The slots are pairs.
LEMMA SlotPairs ==
  /\ \A s \in Slots : s = <<s[1], s[2]>> /\ s[1] \in 0..MaxDepth /\ s[2] \in 0..MaxLocals
  /\ \A d \in 0..MaxDepth, i \in 0..MaxLocals : <<d, i>> \in Slots
  /\ \A d, i, e, j : <<d, i>> = <<e, j>> <=> d = e /\ i = j
  /\ Global \in Slots /\ Global \in OwningSlots /\ OwningSlots \subseteq Slots
  /\ \A d \in 1..MaxDepth : /\ Param(d) \in Slots \ OwningSlots /\ Param(d) # Global
                            /\ \A i \in 1..MaxLocals : <<d, i>> \in OwningSlots /\ <<d, i>> # Global
BY DEF Slots, Global, OwningSlots, Param

-----------------------------------------------------------------------------
\* What the runtime's calls do to the heap.
LEMMA AllocHeap ==
  ASSUME NEW h, HeapOK(h), NEW o \in Objects, h.state[o] = "unused"
  PROVE  /\ HeapOK(Alloc(h, o)) /\ Alloc(h, o).trap = h.trap
         /\ h.count[o] = 0 /\ Alloc(h, o).count = [h.count EXCEPT ![o] = 1]
         /\ Alloc(h, o).state = [h.state EXCEPT ![o] = "live"]
<1>1. /\ Alloc(h, o).count = [h.count EXCEPT ![o] = 1]
      /\ Alloc(h, o).state = [h.state EXCEPT ![o] = "live"]
      /\ Alloc(h, o).trap = h.trap
      /\ Alloc(h, o) \in HeapShape
  BY DEF Alloc, HeapOK, HeapShape
<1>2. h.count \in [Objects -> Nat] /\ h.state \in [Objects -> {"unused", "live", "freed"}]
  BY DEF HeapOK, HeapShape
<1>3. h.count[o] = 0
  BY <1>2 DEF HeapOK
<1>4. QED
  BY <1>1, <1>2, <1>3 DEF HeapOK

\* A trap leaves the heap well formed.
LEMMA TrapHeap ==
  ASSUME NEW h, HeapOK(h), NEW p
  PROVE  HeapOK(Trap(h, p)) /\ Trap(h, p).trap # "none"
<1>1. /\ Trap(h, p) \in HeapShape /\ Trap(h, p).trap # "none"
      /\ Trap(h, p).count = h.count /\ Trap(h, p).state = h.state
  BY DEF Trap, HeapOK, HeapShape
<1>2. QED
  BY <1>1 DEF HeapOK

\* A retain or a release that did not trap was of NULL or of a live block.
LEMMA RetainHeap ==
  ASSUME NEW h, HeapOK(h), NEW p
  PROVE  /\ HeapOK(Retain(h, p))
         /\ Retain(h, p).trap = "none" =>
              /\ h.trap = "none"
              /\ \/ p = Null /\ Retain(h, p) = h
                 \/ /\ p \in Objects /\ h.count[p] > 0
                    /\ Retain(h, p).count = [h.count EXCEPT ![p] = h.count[p] + 1]
         /\ h.trap = "none" /\ (p = Null \/ (p \in Objects /\ h.count[p] > 0)) => Retain(h, p).trap = "none"
<1>1. CASE NoEffect(h, p)
  BY <1>1 DEF Retain, NoEffect
<1>2. CASE ~NoEffect(h, p) /\ ~Live(h, p)
  <2>1. Retain(h, p) = Trap(h, p) /\ p # Null
    BY <1>2 DEF Retain, NoEffect
  <2>2. ~(p \in Objects /\ h.count[p] > 0)
    BY <1>2 DEF HeapOK, Live
  <2>3. QED
    BY <2>1, <2>2, TrapHeap
<1>3. CASE ~NoEffect(h, p) /\ Live(h, p)
  <2>1. p \in Objects /\ h.state[p] = "live" /\ h.count[p] > 0 /\ h.trap = "none" /\ p # Null
    BY <1>3 DEF Live, HeapOK, NoEffect
  <2>2. Retain(h, p) = [h EXCEPT !.count[p] = @ + 1]
    BY <1>3 DEF Retain
  <2>3. /\ Retain(h, p) \in HeapShape /\ Retain(h, p).trap = "none"
        /\ Retain(h, p).count = [h.count EXCEPT ![p] = h.count[p] + 1] /\ Retain(h, p).state = h.state
    BY <2>1, <2>2 DEF HeapOK, HeapShape
  <2>4. h.count \in [Objects -> Nat]
    BY DEF HeapOK, HeapShape
  <2>5. HeapOK(Retain(h, p))
    BY <2>1, <2>3, <2>4 DEF HeapOK
  <2>6. QED
    BY <2>1, <2>3, <2>5
<1>4. QED
  BY <1>1, <1>2, <1>3

\* arc_release of a pointer: the heap stays well formed, and without a trap the block has one reference less.
LEMMA ReleaseHeap ==
  ASSUME NEW h, HeapOK(h), NEW p
  PROVE  /\ HeapOK(Release(h, p))
         /\ Release(h, p).trap = "none" =>
              /\ h.trap = "none"
              /\ \/ p = Null /\ Release(h, p) = h
                 \/ /\ p \in Objects /\ h.count[p] > 0
                    /\ Release(h, p).count = [h.count EXCEPT ![p] = h.count[p] - 1]
         /\ h.trap = "none" /\ (p = Null \/ (p \in Objects /\ h.count[p] > 0)) => Release(h, p).trap = "none"
<1>1. CASE NoEffect(h, p)
  BY <1>1 DEF Release, NoEffect
<1>2. CASE ~NoEffect(h, p) /\ ~Live(h, p)
  <2>1. Release(h, p) = Trap(h, p) /\ p # Null
    BY <1>2 DEF Release, NoEffect
  <2>2. ~(p \in Objects /\ h.count[p] > 0)
    BY <1>2 DEF HeapOK, Live
  <2>3. QED
    BY <2>1, <2>2, TrapHeap
<1>3. CASE ~NoEffect(h, p) /\ Live(h, p)
  <2>1. p \in Objects /\ h.state[p] = "live" /\ h.count[p] > 0 /\ h.trap = "none" /\ p # Null
    BY <1>3 DEF Live, HeapOK, NoEffect
  <2>2. Release(h, p) = [h EXCEPT !.count[p] = @ - 1,
                                  !.state[p] = IF h.count[p] = 1 THEN "freed" ELSE "live"]
    BY <1>3 DEF Release
  <2>3. /\ Release(h, p) \in HeapShape /\ Release(h, p).trap = "none"
        /\ Release(h, p).count = [h.count EXCEPT ![p] = h.count[p] - 1]
        /\ Release(h, p).state = [h.state EXCEPT ![p] = IF h.count[p] = 1 THEN "freed" ELSE "live"]
    <3> DEFINE n == h.count[p] - 1
               s == IF h.count[p] = 1 THEN "freed" ELSE "live"
    <3>1. h \in HeapShape /\ n \in Nat /\ s \in {"unused", "live", "freed"}
      BY <2>1 DEF HeapOK, HeapShape
    <3>2. Release(h, p) = [h EXCEPT !.count[p] = n, !.state[p] = s]
      BY <2>2
    <3> HIDE DEF n, s
    <3>3. /\ Release(h, p) \in HeapShape /\ Release(h, p).trap = h.trap
          /\ Release(h, p).count = [h.count EXCEPT ![p] = n]
          /\ Release(h, p).state = [h.state EXCEPT ![p] = s]
      <4> DEFINE u == [h EXCEPT !.count[p] = n, !.state[p] = s]
      <4>1. /\ u \in HeapShape /\ u.trap = h.trap
            /\ u.count = [h.count EXCEPT ![p] = n] /\ u.state = [h.state EXCEPT ![p] = s]
        BY <2>1, <3>1 DEF HeapShape
      <4>2. Release(h, p) = u
        BY <3>2
      <4> HIDE DEF u
      <4>3. QED
        BY <4>1, <4>2, Zenon
    <3>4. QED
      BY <2>1, <3>3 DEF n, s
  <2>4. h.count \in [Objects -> Nat] /\ h.state \in [Objects -> {"unused", "live", "freed"}]
    BY DEF HeapOK, HeapShape
  <2>5. HeapOK(Release(h, p))
    BY <2>1, <2>3, <2>4 DEF HeapOK
  <2>6. QED
    BY <2>1, <2>3, <2>5
<1>4. QED
  BY <1>1, <1>2, <1>3

-----------------------------------------------------------------------------
\* The slots a statement may name.
LEMMA VisibleSlots ==
  ASSUME FInv
  PROVE  /\ Visible \subseteq {x \in Slots : slot[x] # Absent /\ slot[x] \in Pointers}
         /\ \A x \in Visible : x[1] \in {0, depth}
         /\ \A x \in Visible : x \in OwningSlots \/ x = Param(depth)
         /\ \A x \in Locals(depth) : x \in OwningSlots /\ x # Global /\ x # Param(depth)
         /\ Assignable \subseteq Visible
         /\ \A x \in Assignable : x \notin OwningSlots => "assign_param" \in kinds
<1>1. depth \in 1..MaxDepth /\ slot \in [Slots -> Pointers \cup {Absent}]
  BY DEF FInv, FTypeOK
<1>2. /\ \A x \in Locals(depth) : x \in Slots /\ x \in OwningSlots /\ x # Global /\ x # Param(depth) /\ x[1] = depth
      /\ Param(depth)[1] = depth /\ Global[1] = 0
  BY <1>1, SlotPairs DEF Locals, Param, Global, Slots, OwningSlots
<1>3. QED
  BY <1>1, <1>2, SlotPairs DEF Visible, Assignable

\* A declaration.
LEMMA DeclareF ==
  ASSUME FInv, NEW h, HeapOK(h), NEW p \in Pointers, Declare(h, p)
  PROVE  /\ FInv'
         /\ NextLocal \in OwningSlots /\ slot[NextLocal] = Absent
<1> DEFINE n == declared[depth] + 1
<1>1. /\ FTypeOK /\ pc = "run" /\ declared[depth] < MaxLocals
      /\ heap' = h /\ slot' = [slot EXCEPT ![NextLocal] = p]
      /\ declared' = [declared EXCEPT ![depth] = n]
      /\ UNCHANGED <<kinds, depth, pc, ret, call>>
  BY DEF FInv, Declare, Running
<1>2. /\ n \in 1..MaxLocals /\ depth \in 1..MaxDepth /\ NextLocal = <<depth, n>>
      /\ p # Absent /\ declared[depth] = n - 1
  BY <1>1, Distinct DEF FTypeOK, NextLocal, Pointers
<1> HIDE DEF n
<1>3. NextLocal \in Slots /\ NextLocal \in OwningSlots /\ NextLocal # Global
  BY <1>2, SlotPairs
<1>4. FTypeOK'
  BY <1>1, <1>2, <1>3 DEF FTypeOK
<1>5. slot[NextLocal] = Absent
  <2>1. NextLocal[1] = depth /\ NextLocal[2] = n /\ n > 0 /\ ~(n <= declared[depth])
    BY <1>2
  <2>2. QED
    BY <1>3, <2>1 DEF FInv, FramesMatchTable
<1>6. FramesMatchTable'
  <2> SUFFICES ASSUME NEW s \in Slots, s[2] > 0
               PROVE  slot'[s] # Absent <=> s[1] > 0 /\ s[1] <= depth /\ s[2] <= declared'[s[1]]
    BY <1>1 DEF FramesMatchTable
  <2>1. s = <<s[1], s[2]>> /\ s[1] \in 0..MaxDepth /\ s[2] \in 1..MaxLocals
    BY SlotPairs
  <2>2. slot[s] # Absent <=> s[1] > 0 /\ s[1] <= depth /\ s[2] <= declared[s[1]]
    BY DEF FInv, FramesMatchTable
  <2>3. CASE s = NextLocal
    <3>1. s[1] = depth /\ s[2] = n
      BY <1>2, <2>1, <2>3, SlotPairs
    <3>2. QED
      BY <1>1, <1>2, <1>3, <2>3, <3>1 DEF FTypeOK
  <2>4. CASE s # NextLocal
    <3>1. slot'[s] = slot[s]
      BY <1>1, <2>4 DEF FTypeOK
    <3>2. CASE s[1] = depth
      <4>1. s[2] # n
        BY <1>2, <2>1, <2>4, <3>2
      <4>2. declared'[s[1]] = n
        BY <1>1, <1>2, <3>2 DEF FTypeOK
      <4>3. QED
        BY <1>2, <2>1, <2>2, <3>1, <3>2, <4>1, <4>2
    <3>3. CASE s[1] # depth
      <4>1. s[1] > 0 => declared'[s[1]] = declared[s[1]]
        BY <1>1, <2>1, <3>3 DEF FTypeOK
      <4>2. QED
        BY <2>2, <3>1, <4>1
    <3>4. QED
      BY <3>2, <3>3
  <2>5. QED
    BY <2>3, <2>4
<1>7. FramesAbove'
  BY <1>1, <1>2, <1>3, SlotPairs DEF FInv, FramesAbove, FTypeOK
<1>8. CallsOK'
  BY <1>1, <1>2, <1>3 DEF FInv, CallsOK, FTypeOK
<1>9. ReturnOK' /\ ExitOK'
  BY <1>1 DEF FInv, ReturnOK, ExitOK
<1>10. QED
  BY <1>3, <1>4, <1>5, <1>6, <1>7, <1>8, <1>9 DEF FInv

\* A store to a variable that is declared.
LEMMA StoreF ==
  ASSUME FInv, pc = "run", NEW x \in Slots, slot[x] # Absent, NEW p \in Pointers, HeapOK(heap'),
         slot' = [slot EXCEPT ![x] = p], UNCHANGED <<kinds, declared, depth, pc, ret, call>>
  PROVE  FInv'
<1>1. FTypeOK /\ p # Absent
  BY Distinct DEF FInv, Pointers
<1>2. FTypeOK'
  BY <1>1 DEF FTypeOK
<1>3. \A s \in Slots : slot'[s] = Absent <=> slot[s] = Absent
  BY <1>1 DEF FTypeOK
<1>4. FramesMatchTable'
  BY <1>3 DEF FInv, FramesMatchTable
<1>5. FramesAbove'
  BY <1>3, SlotPairs DEF FInv, FramesAbove
<1>6. CallsOK'
  BY <1>1, <1>3 DEF FInv, CallsOK, FTypeOK
<1>7. ReturnOK' /\ ExitOK'
  BY DEF FInv, ReturnOK, ExitOK
<1>8. QED
  BY <1>2, <1>4, <1>5, <1>6, <1>7 DEF FInv

\* The print statements change the heap only.
LEMMA PrintF ==
  ASSUME FInv, NEW h, HeapOK(h), PrintStep(h)
  PROVE  FInv'
<1>1. pc = "run" /\ heap' = h /\ UNCHANGED <<kinds, slot, declared, depth, pc, ret, call>>
  BY DEF PrintStep, Running
<1>2. FTypeOK' /\ FramesMatchTable' /\ FramesAbove'
  BY <1>1 DEF FInv, FTypeOK, FramesMatchTable, FramesAbove
<1>3. CallsOK' /\ ReturnOK' /\ ExitOK'
  BY <1>1 DEF FInv, CallsOK, ReturnOK, ExitOK
<1>4. QED
  BY <1>2, <1>3 DEF FInv

\* A call: the frame above gets a parameter and the caller's plans.
LEMMA EnterF ==
  ASSUME FInv, NEW h, HeapOK(h), NEW p \in Pointers, NEW tmp \in Objects \cup {Null}, Enter(h, p, tmp)
  PROVE  /\ FInv'
         /\ depth + 1 \in 1..MaxDepth /\ Param(depth + 1) \in Slots \ OwningSlots
         /\ call[depth + 1].fstring = Null /\ call'[depth + 1].fstring = tmp
         /\ \A d \in 1..MaxDepth \ {depth + 1} : call'[d] = call[d]
<1>1. /\ FTypeOK /\ pc = "run" /\ depth < MaxDepth /\ p # Absent
      /\ heap' = h /\ slot' = [slot EXCEPT ![Param(depth + 1)] = p]
      /\ depth' = depth + 1 /\ UNCHANGED <<kinds, declared, pc, ret>>
  BY Distinct DEF FInv, Enter, Running, Pointers
<1>2. depth + 1 \in 1..MaxDepth /\ depth \in 1..MaxDepth
  BY <1>1 DEF FTypeOK
<1>3. PICK c \in Results : call' = [call EXCEPT ![depth + 1] = [c EXCEPT !.fstring = tmp]]
  BY DEF Enter
<1>4. c \in [sink : {"declare", "assign", "discard"}, to : Slots, fstring : {Null}]
  BY <1>3 DEF Results
<1>5. /\ c.sink = "declare" => declared[depth] < MaxLocals /\ c.to = NextLocal
      /\ c.sink = "assign" => c.to \in Assignable
  BY <1>3 DEF Results
<1>6. /\ call'[depth + 1].sink = c.sink /\ call'[depth + 1].to = c.to /\ call'[depth + 1].fstring = tmp
      /\ call'[depth + 1] \in [sink : {"declare", "assign", "discard"}, to : Slots, fstring : Objects \cup {Null}]
      /\ \A d \in 1..MaxDepth \ {depth + 1} : call'[d] = call[d]
  BY <1>1, <1>2, <1>3, <1>4 DEF FTypeOK
<1>7. /\ Param(depth + 1) \in Slots \ OwningSlots /\ Param(depth + 1) # Global
      /\ slot[Param(depth + 1)] = Absent /\ call[depth + 1] = NoCall
  BY <1>1, <1>2, SlotPairs DEF FInv, FramesAbove
<1>8. FTypeOK'
  <2>1. call' \in [1..MaxDepth -> [sink : {"declare", "assign", "discard"}, to : Slots,
                                    fstring : Objects \cup {Null}]]
    BY <1>1, <1>3, <1>6 DEF FTypeOK
  <2>2. QED
    BY <1>1, <1>2, <1>7, <2>1 DEF FTypeOK
<1>9. \A s \in Slots \ {Param(depth + 1)} : slot'[s] = slot[s]
  BY <1>1 DEF FTypeOK
<1>10. FramesMatchTable'
  <2> SUFFICES ASSUME NEW s \in Slots, s[2] > 0
               PROVE  slot'[s] # Absent <=> s[1] > 0 /\ s[1] <= depth + 1 /\ s[2] <= declared[s[1]]
    BY <1>1 DEF FramesMatchTable
  <2>1. s # Param(depth + 1)
    BY DEF Param
  <2>2. s[1] = depth + 1 => declared[s[1]] = 0
    BY <1>2 DEF FInv, FramesAbove
  <2>3. s[1] \in 0..MaxDepth /\ s[2] \in Nat
    BY SlotPairs
  <2>4. QED
    BY <1>2, <1>9, <2>1, <2>2, <2>3 DEF FInv, FramesMatchTable
<1>11. FramesAbove'
  <2>1. \A d \in 1..MaxDepth : d # depth + 1 => Param(d) # Param(depth + 1) /\ Param(d) \in Slots
    BY <1>2, SlotPairs DEF Param
  <2>2. QED
    BY <1>1, <1>2, <1>6, <1>7, <1>9, <2>1, SlotPairs DEF FInv, FramesAbove
<1>12. CallsOK'
  <2> SUFFICES ASSUME NEW d \in 2..depth + 1
               PROVE  /\ call'[d].sink = "declare" => /\ declared[d - 1] < MaxLocals
                                                      /\ call'[d].to = <<d - 1, declared[d - 1] + 1>>
                      /\ call'[d].sink = "assign"  => /\ slot'[call'[d].to] # Absent
                                                      /\ call'[d].to[1] \in {0, d - 1}
                                                      /\ call'[d].to \notin OwningSlots => "assign_param" \in kinds
    BY <1>1 DEF CallsOK
  <2>1. CASE d = depth + 1
    <3>1. c.sink = "assign" => /\ slot[c.to] # Absent /\ c.to[1] \in {0, depth}
                               /\ c.to \in Slots /\ (c.to \notin OwningSlots => "assign_param" \in kinds)
      BY <1>5, VisibleSlots
    <3>2. d - 1 = depth /\ (c.sink = "assign" => slot'[c.to] = slot[c.to])
      BY <1>2, <1>7, <1>9, <2>1, <3>1
    <3>3. QED
      BY <1>5, <1>6, <2>1, <3>1, <3>2 DEF NextLocal
  <2>2. CASE d # depth + 1
    <3>1. call'[d] = call[d] /\ d \in 2..depth /\ call[d].to \in Slots
      BY <1>1, <1>2, <1>6, <2>2 DEF FTypeOK
    <3>2. slot[call[d].to] # Absent => slot'[call[d].to] # Absent
      BY <1>7, <1>9, <3>1
    <3>3. QED
      BY <3>1, <3>2 DEF FInv, CallsOK
  <2>3. QED
    BY <2>1, <2>2
<1>13. ReturnOK' /\ ExitOK'
  BY <1>1 DEF FInv, ReturnOK, ExitOK
<1>14. QED
  BY <1>2, <1>6, <1>7, <1>8, <1>10, <1>11, <1>12, <1>13 DEF FInv, NoCall

\* A return begins.
LEMMA ReturnF ==
  ASSUME FInv, NEW h, HeapOK(h), NEW p \in Pointers, NEW how \in {"none", "temporary", "identifier"},
         how = "none" => p = Null, Return(h, p, how)
  PROVE  FInv'
<1>1. /\ pc = "run" /\ heap' = h /\ ret' = [val |-> p, how |-> how] /\ pc' = "unwind"
      /\ how # "none" => depth > 1 /\ (call[depth].sink = "discard" => "discard" \in kinds)
      /\ UNCHANGED <<kinds, slot, declared, depth, call>>
  BY DEF Return, Running
<1>2. FTypeOK' /\ FramesMatchTable' /\ FramesAbove'
  BY <1>1 DEF FInv, FTypeOK, FramesMatchTable, FramesAbove
<1>3. CallsOK' /\ ReturnOK' /\ ExitOK'
  BY <1>1 DEF FInv, CallsOK, ReturnOK, ExitOK
<1>4. QED
  BY <1>2, <1>3 DEF FInv

\* A local is released and leaves the table.
LEMMA UnwindF ==
  ASSUME FInv, Unwind
  PROVE  LET last == <<depth, declared[depth]>>
         IN  /\ FInv'
             /\ last \in OwningSlots /\ last # Global /\ slot[last] \in Pointers
<1> DEFINE n == declared[depth]
           last == <<depth, n>>
<1>1. /\ FTypeOK /\ pc = "unwind" /\ n > 0 /\ heap' = Release(heap, slot[last])
      /\ slot' = [slot EXCEPT ![last] = Absent]
      /\ declared' = [declared EXCEPT ![depth] = n - 1]
      /\ UNCHANGED <<kinds, depth, pc, ret, call>>
  BY DEF FInv, Unwind
<1>2. n \in 1..MaxLocals /\ depth \in 1..MaxDepth /\ n = declared[depth]
  BY <1>1 DEF FTypeOK
<1> HIDE DEF n
<1>3. /\ last \in Slots /\ last \in OwningSlots /\ last # Global
      /\ last[1] = depth /\ last[2] = n
  BY <1>2, SlotPairs
<1>4. slot[last] # Absent
  BY <1>2, <1>3 DEF FInv, FramesMatchTable
<1> HIDE DEF last
<1>5. HeapOK(heap')
  BY <1>1, ReleaseHeap DEF FTypeOK
<1>6. FTypeOK'
  BY <1>1, <1>2, <1>3, <1>5 DEF FTypeOK
<1>7. \A s \in Slots \ {last} : slot'[s] = slot[s]
  BY <1>1 DEF FTypeOK
<1>8. slot'[last] = Absent
  BY <1>1, <1>3 DEF FTypeOK
<1>9. FramesMatchTable'
  <2> SUFFICES ASSUME NEW s \in Slots, s[2] > 0
               PROVE  slot'[s] # Absent <=> s[1] > 0 /\ s[1] <= depth /\ s[2] <= declared'[s[1]]
    BY <1>1 DEF FramesMatchTable
  <2>1. s = <<s[1], s[2]>> /\ s[1] \in 0..MaxDepth /\ s[2] \in 1..MaxLocals
    BY SlotPairs
  <2>2. slot[s] # Absent <=> s[1] > 0 /\ s[1] <= depth /\ s[2] <= declared[s[1]]
    BY DEF FInv, FramesMatchTable
  <2>3. CASE s = last
    <3>1. s[1] = depth /\ s[2] = n /\ declared'[depth] = n - 1
      BY <1>1, <1>2, <1>3, <2>3 DEF FTypeOK
    <3>2. QED
      BY <1>2, <1>8, <2>3, <3>1
  <2>4. CASE s # last /\ s[1] = depth
    <3>1. s[2] # n
      BY <2>1, <2>4 DEF last
    <3>2. declared'[s[1]] = n - 1 /\ slot'[s] = slot[s]
      BY <1>1, <1>2, <1>7, <2>4 DEF FTypeOK
    <3>3. QED
      BY <1>2, <2>1, <2>2, <2>4, <3>1, <3>2
  <2>5. CASE s # last /\ s[1] # depth
    <3>1. slot'[s] = slot[s] /\ (s[1] > 0 => declared'[s[1]] = declared[s[1]])
      BY <1>1, <1>7, <2>1, <2>5 DEF FTypeOK
    <3>2. QED
      BY <2>2, <3>1
  <2>6. QED
    BY <2>3, <2>4, <2>5
<1>10. FramesAbove'
  <2>1. \A d \in 1..MaxDepth : Param(d) # last /\ Param(d) \in Slots
    BY <1>3, SlotPairs
  <2>2. QED
    BY <1>1, <1>2, <1>3, <1>7, <2>1, SlotPairs DEF FInv, FramesAbove, FTypeOK
<1>11. CallsOK'
  <2> SUFFICES ASSUME NEW d \in 2..depth
               PROVE  /\ call[d].sink = "declare" => /\ declared'[d - 1] < MaxLocals
                                                     /\ call[d].to = <<d - 1, declared'[d - 1] + 1>>
                      /\ call[d].sink = "assign"  => /\ slot'[call[d].to] # Absent
                                                     /\ call[d].to[1] \in {0, d - 1}
                                                     /\ call[d].to \notin OwningSlots => "assign_param" \in kinds
    BY <1>1 DEF CallsOK
  <2>1. declared'[d - 1] = declared[d - 1] /\ call[d].to \in Slots
    BY <1>1, <1>2 DEF FTypeOK
  <2>2. call[d].sink = "assign" => call[d].to # last
    BY <1>2, <1>3 DEF FInv, CallsOK
  <2>3. QED
    BY <1>7, <2>1, <2>2 DEF FInv, CallsOK
<1>12. ReturnOK' /\ ExitOK'
  BY <1>1 DEF FInv, ReturnOK, ExitOK
<1>13. FInv'
  BY <1>6, <1>9, <1>10, <1>11, <1>12 DEF FInv
<1>14. slot[last] \in Pointers
  BY <1>1, <1>3, <1>4 DEF FTypeOK
<1>15. QED
  BY <1>3, <1>13, <1>14 DEF last, n

\* Back in the caller, from a frame whose locals are released or forgotten.
LEMMA BackF ==
  ASSUME FInv, pc # "exited", depth > 1, NEW h, HeapOK(h), NEW p \in Pointers, Back(h, p)
  PROVE  /\ FInv'
         /\ call[depth].to \in Slots /\ call[depth].fstring \in Objects \cup {Null}
         /\ call[depth].sink # "discard" => call[depth].to[1] \in {0, depth - 1}
         /\ call[depth].sink = "declare" => /\ call[depth].to \in OwningSlots
                                            /\ call[depth].to # Global
                                            /\ slot[call[depth].to] = Absent
         /\ call[depth].sink = "assign" => slot[call[depth].to] \in Pointers
<1> DEFINE c == call[depth]
           n == CallerCount(c, declared[depth - 1])
<1>1. /\ FTypeOK
      /\ heap' = IF c.sink = "assign" THEN Release(Release(h, c.fstring), slot[c.to]) ELSE Release(h, c.fstring)
      /\ slot' = [s \in Slots |-> IF s[1] = depth THEN Absent
                                  ELSE IF s = c.to /\ c.sink # "discard" THEN p ELSE slot[s]]
      /\ declared' = [declared EXCEPT ![depth] = 0, ![depth - 1] = CallerCount(c, @)]
      /\ depth' = depth - 1 /\ pc' = "run" /\ ret' = NoResult
      /\ call' = [call EXCEPT ![depth] = NoCall] /\ kinds' = kinds
  BY DEF FInv, Back
<1>2. /\ depth \in 2..MaxDepth /\ depth - 1 \in 1..MaxDepth /\ c.to \in Slots
      /\ c.fstring \in Objects \cup {Null} /\ c.sink \in {"declare", "assign", "discard"}
      /\ declared[depth] \in 0..MaxLocals /\ declared[depth - 1] \in 0..MaxLocals
      /\ p # Absent
  BY <1>1, Distinct DEF FTypeOK, Pointers
<1>3. /\ c.sink = "declare" => /\ declared[depth - 1] < MaxLocals
                               /\ c.to = <<depth - 1, declared[depth - 1] + 1>>
      /\ c.sink = "assign"  => slot[c.to] # Absent /\ c.to[1] \in {0, depth - 1}
  BY <1>2 DEF FInv, CallsOK
<1>4. c.sink = "declare" => c.to \in OwningSlots /\ c.to # Global /\ slot[c.to] = Absent /\ c.to[2] > 0
  <2> SUFFICES ASSUME c.sink = "declare"
               PROVE  c.to \in OwningSlots /\ c.to # Global /\ slot[c.to] = Absent /\ c.to[2] > 0
    OBVIOUS
  <2> DEFINE k == declared[depth - 1] + 1
  <2>1. k \in 1..MaxLocals /\ c.to = <<depth - 1, k>> /\ ~(k <= declared[depth - 1])
    BY <1>2, <1>3
  <2>2. c.to[1] = depth - 1 /\ c.to[2] = k
    BY <2>1
  <2>3. slot[c.to] = Absent
    BY <1>2, <2>1, <2>2 DEF FInv, FramesMatchTable
  <2>4. QED
    BY <1>2, <2>1, <2>2, <2>3, SlotPairs
<1>5. c.sink # "discard" => c.to[1] \in {0, depth - 1}
  BY <1>2, <1>3
<1>6. c.sink = "assign" => slot[c.to] \in Pointers
  BY <1>1, <1>2, <1>3 DEF FTypeOK
<1>7. n = (IF c.sink = "declare" THEN declared[depth - 1] + 1 ELSE declared[depth - 1]) /\ n \in 0..MaxLocals
  BY <1>2, <1>3 DEF CallerCount
<1>8. /\ declared'[depth] = 0 /\ declared'[depth - 1] = n
      /\ \A d \in 1..MaxDepth \ {depth, depth - 1} : declared'[d] = declared[d]
      /\ declared' \in [1..MaxDepth -> 0..MaxLocals]
  BY <1>1, <1>2, <1>7 DEF FTypeOK
<1> HIDE DEF n
<1>9. HeapOK(heap')
  BY <1>1, ReleaseHeap
<1>10. NoCall \in [sink : {"declare", "assign", "discard"}, to : Slots, fstring : Objects \cup {Null}]
  BY SlotPairs DEF NoCall
<1>11. NoResult \in [val : Pointers, how : {"none", "temporary", "identifier"}]
  BY DEF NoResult, Pointers
<1>12. /\ slot' \in [Slots -> Pointers \cup {Absent}]
       /\ \A s \in Slots : s[1] = depth => slot'[s] = Absent
       /\ \A s \in Slots : s[1] # depth /\ s = c.to /\ c.sink # "discard" => slot'[s] = p
       /\ \A s \in Slots : s[1] # depth /\ ~(s = c.to /\ c.sink # "discard") => slot'[s] = slot[s]
  BY <1>1 DEF FTypeOK
<1>13. FTypeOK'
  BY <1>1, <1>2, <1>8, <1>9, <1>10, <1>11, <1>12 DEF FTypeOK
<1>14. FramesMatchTable'
  <2> SUFFICES ASSUME NEW s \in Slots, s[2] > 0
               PROVE  slot'[s] # Absent <=> s[1] > 0 /\ s[1] <= depth - 1 /\ s[2] <= declared'[s[1]]
    BY <1>1 DEF FramesMatchTable
  <2>1. s = <<s[1], s[2]>> /\ s[1] \in 0..MaxDepth /\ s[2] \in 1..MaxLocals
    BY SlotPairs
  <2>2. slot[s] # Absent <=> s[1] > 0 /\ s[1] <= depth /\ s[2] <= declared[s[1]]
    BY DEF FInv, FramesMatchTable
  <2>3. CASE s[1] = depth
    BY <1>2, <1>12, <2>3
  <2>4. CASE s[1] # depth /\ s[1] # depth - 1
    <3>1. slot'[s] = slot[s] \/ (c.sink = "assign" /\ s = c.to)
      <4>1. c.sink = "declare" => c.to[1] = depth - 1
        BY <1>2, <1>3
      <4>2. CASE s = c.to /\ c.sink # "discard"
        BY <1>2, <2>4, <4>1, <4>2
      <4>3. CASE ~(s = c.to /\ c.sink # "discard")
        <5>1. slot'[s] = IF s[1] = depth THEN Absent
                         ELSE IF s = c.to /\ c.sink # "discard" THEN p ELSE slot[s]
          BY <1>1
        <5>2. QED
          BY <2>4, <4>3, <5>1
      <4>4. QED
        BY <4>2, <4>3
    <3>2. slot'[s] = Absent <=> slot[s] = Absent
      BY <1>2, <1>3, <1>12, <2>4, <3>1
    <3>3. s[1] > 0 => declared'[s[1]] = declared[s[1]]
      BY <1>8, <2>1, <2>4
    <3>4. QED
      BY <1>2, <2>1, <2>2, <2>4, <3>2, <3>3
  <2>5. CASE s[1] = depth - 1 /\ c.sink = "declare"
    <3>1. s = c.to <=> s[2] = n
      BY <1>2, <1>3, <1>7, <2>1, <2>5
    <3>2. QED
      BY <1>2, <1>7, <1>8, <1>12, <2>1, <2>2, <2>5, <3>1
  <2>6. CASE s[1] = depth - 1 /\ c.sink # "declare"
    <3>1. slot'[s] = Absent <=> slot[s] = Absent
      BY <1>2, <1>3, <1>12, <2>6
    <3>2. QED
      BY <1>2, <1>7, <1>8, <2>1, <2>2, <2>6, <3>1
  <2>7. QED
    BY <1>2, <2>3, <2>4, <2>5, <2>6
<1>15. FramesAbove'
  <2>1. \A d \in 1..MaxDepth : d > depth - 1 => declared'[d] = 0
    BY <1>2, <1>8 DEF FInv, FramesAbove
  <2>2. \A d \in 1..MaxDepth : d > depth - 1 \/ d = 1 => call'[d] = NoCall
    BY <1>1, <1>2 DEF FInv, FramesAbove, FTypeOK
  <2>3. ASSUME NEW d \in 1..MaxDepth, d > depth - 1 \/ d = 1 PROVE slot'[Param(d)] = Absent
    <3>1. Param(d) \in Slots /\ Param(d)[1] = d /\ Param(d) \notin OwningSlots
      BY SlotPairs DEF Param
    <3>2. CASE d = depth
      BY <1>12, <3>1, <3>2
    <3>3. CASE d # depth
      <4>1. slot[Param(d)] = Absent
        BY <1>2, <2>3, <3>3 DEF FInv, FramesAbove
      <4>2. ~(Param(d) = c.to /\ c.sink # "discard")
        BY <1>2, <1>3, <1>4, <3>1, <4>1
      <4>3. QED
        BY <1>12, <3>1, <3>3, <4>1, <4>2
    <3>4. QED
      BY <3>2, <3>3
  <2>4. slot'[Global] # Absent
    BY <1>2, <1>12, SlotPairs DEF FInv, FramesAbove, Global
  <2>5. QED
    BY <1>1, <2>1, <2>2, <2>3, <2>4 DEF FramesAbove
<1>16. CallsOK'
  <2> HIDE DEF c
  <2>0. depth' = depth - 1 /\ kinds' = kinds
    BY <1>1
  <2> SUFFICES ASSUME NEW d \in 2..depth - 1
               PROVE  /\ call'[d].sink = "declare" => /\ declared'[d - 1] < MaxLocals
                                                      /\ call'[d].to = <<d - 1, declared'[d - 1] + 1>>
                      /\ call'[d].sink = "assign"  => /\ slot'[call'[d].to] # Absent
                                                      /\ call'[d].to[1] \in {0, d - 1}
                                                      /\ call'[d].to \notin OwningSlots => "assign_param" \in kinds
    BY <2>0 DEF CallsOK
  <2>1. call'[d] = call[d] /\ declared'[d - 1] = declared[d - 1] /\ call[d].to \in Slots
    BY <1>1, <1>2, <1>8 DEF FTypeOK
  <2>2. call[d].sink = "assign" => /\ slot[call[d].to] # Absent /\ call[d].to[1] \in {0, d - 1}
                                   /\ (call[d].to \notin OwningSlots => "assign_param" \in kinds)
    BY <1>2 DEF FInv, CallsOK
  <2>3. call[d].sink = "assign" => slot'[call[d].to] # Absent
    BY <1>2, <1>12, <2>1, <2>2
  <2>4. QED
    BY <1>1, <1>2, <2>1, <2>2, <2>3 DEF FInv, CallsOK
<1>17. ReturnOK' /\ ExitOK'
  BY <1>1 DEF ReturnOK, ExitOK, NoResult
<1>18. QED
  BY <1>2, <1>4, <1>5, <1>6, <1>13, <1>14, <1>15, <1>16, <1>17 DEF FInv

\* main returns.
LEMMA LeaveMainF ==
  ASSUME FInv, LeaveMain
  PROVE  FInv'
<1>1. /\ pc = "unwind" /\ heap.trap = "none" /\ depth = 1 /\ declared[1] = 0 /\ pc' = "exited"
      /\ UNCHANGED <<kinds, heap, slot, declared, depth, ret, call>>
  BY DEF LeaveMain
<1>2. FTypeOK' /\ FramesMatchTable' /\ FramesAbove'
  BY <1>1 DEF FInv, FTypeOK, FramesMatchTable, FramesAbove
<1>3. CallsOK' /\ ReturnOK' /\ ExitOK'
  BY <1>1 DEF FInv, CallsOK, ReturnOK, ExitOK, NoTrap
<1>4. QED
  BY <1>2, <1>3 DEF FInv

\* `return;` of the first function releases nothing and ends the program.
LEMMA ReturnVoidMainF ==
  ASSUME FInv, ReturnVoid, depth = 1
  PROVE  /\ FInv'
         /\ \A s \in Slots : slot'[s] = IF s = Global THEN slot[s] ELSE Absent
<1>1. /\ FTypeOK /\ pc = "run" /\ heap.trap = "none" /\ pc' = "exited"
      /\ slot' = [s \in Slots |-> IF s = Global THEN slot[s] ELSE Absent]
      /\ declared' = [declared EXCEPT ![1] = 0]
      /\ UNCHANGED <<kinds, heap, depth, ret, call>>
  BY DEF FInv, ReturnVoid, Running
<1>2. \A s \in Slots : slot'[s] = IF s = Global THEN slot[s] ELSE Absent
  BY <1>1
<1>3. declared'[1] = 0 /\ \A d \in 1..MaxDepth \ {1} : declared'[d] = declared[d]
  BY <1>1 DEF FTypeOK
<1>4. FTypeOK'
  BY <1>1, <1>2 DEF FTypeOK
<1>5. FramesMatchTable'
  <2> SUFFICES ASSUME NEW s \in Slots, s[2] > 0
               PROVE  slot'[s] # Absent <=> s[1] > 0 /\ s[1] <= depth /\ s[2] <= declared'[s[1]]
    BY <1>1 DEF FramesMatchTable
  <2>1. s # Global /\ s[1] \in 0..MaxDepth /\ s[2] \in 1..MaxLocals
    BY SlotPairs DEF Global
  <2>2. QED
    BY <1>2, <1>3, <2>1
<1>6. FramesAbove'
  BY <1>1, <1>2, <1>3, SlotPairs DEF FInv, FramesAbove
<1>7. CallsOK' /\ ReturnOK' /\ ExitOK'
  BY <1>1, <1>3 DEF FInv, CallsOK, ReturnOK, ExitOK, NoTrap
<1>8. QED
  BY <1>2, <1>4, <1>5, <1>6, <1>7 DEF FInv

-----------------------------------------------------------------------------
\* The invariant of the frames holds at the start of main.
LEMMA InitF == Init => FInv
<1> SUFFICES ASSUME Init PROVE FInv
  OBVIOUS
<1>1. /\ heap = [count |-> [o \in Objects |-> 0], state |-> [o \in Objects |-> "unused"], trap |-> "none"]
      /\ slot = [s \in Slots |-> IF s = Global THEN Null ELSE Absent]
      /\ declared = [d \in 1..MaxDepth |-> 0] /\ depth = 1 /\ pc = "run" /\ ret = NoResult
      /\ call = [d \in 1..MaxDepth |-> NoCall] /\ kinds \in Programs
  BY DEF Init
<1>2. HeapOK(heap)
  BY <1>1 DEF HeapOK, HeapShape
<1>3. NoCall \in [sink : {"declare", "assign", "discard"}, to : Slots, fstring : Objects \cup {Null}]
  BY SlotPairs DEF NoCall
<1>4. FTypeOK
  BY <1>1, <1>2, <1>3 DEF FTypeOK, Pointers, NoResult
<1>5. FramesMatchTable
  <2> SUFFICES ASSUME NEW s \in Slots, s[2] > 0
               PROVE  slot[s] = Absent /\ (s[1] > 0 => ~(s[2] <= declared[s[1]]))
    BY DEF FramesMatchTable
  <2>1. s # Global /\ s[1] \in 0..MaxDepth /\ s[2] \in 0..MaxLocals
    BY SlotPairs DEF Global
  <2>2. QED
    BY <1>1, <2>1
<1>6. FramesAbove
  BY <1>1, SlotPairs, Distinct DEF FramesAbove
<1>7. CallsOK /\ ReturnOK /\ ExitOK
  BY <1>1 DEF CallsOK, ReturnOK, ExitOK, NoResult
<1>8. QED
  BY <1>4, <1>5, <1>6, <1>7 DEF FInv

\* Every statement keeps the frames in order.
LEMMA NextF == FInv /\ [Next]_vars => FInv'
<1> SUFFICES ASSUME FInv, [Next]_vars PROVE FInv'
  OBVIOUS
<1>1. /\ HeapOK(heap) /\ Null \in Pointers /\ Wild \in Pointers /\ Lit \in Pointers
      /\ \A o \in Objects : o \in Pointers
      /\ \A o \in Objects : Fresh(o) => HeapOK(Alloc(heap, o))
      /\ \A x \in Visible : x \in Slots /\ slot[x] \in Pointers /\ slot[x] # Absent
      /\ Assignable \subseteq Visible /\ Locals(depth) \cap Visible \subseteq Visible
  BY AllocHeap, VisibleSlots DEF FInv, FTypeOK, Pointers, Fresh
<1>2. ASSUME NEW h, HeapOK(h), NEW p \in Pointers, Declare(h, p) PROVE FInv'
  BY <1>2, DeclareF
<1>3. ASSUME NEW x \in Visible, NEW p \in Pointers, HeapOK(heap'), pc = "run",
             slot' = [slot EXCEPT ![x] = p], UNCHANGED <<kinds, declared, depth, pc, ret, call>>
      PROVE  FInv'
  BY <1>1, <1>3, StoreF
<1>4. ASSUME NEW h, HeapOK(h), NEW x \in Visible, NEW p \in Pointers, Assign(h, x, p) PROVE FInv'
  <2>1. HeapOK(Release(h, slot[x]))
    BY <1>4, ReleaseHeap
  <2>2. QED
    BY <1>3, <1>4, <2>1 DEF Assign, Running
<1>5. ASSUME NEW h, HeapOK(h), PrintStep(h) PROVE FInv'
  BY <1>5, PrintF
<1>6. ASSUME NEW h, HeapOK(h), NEW p \in Pointers, NEW tmp \in Objects \cup {Null}, Enter(h, p, tmp) PROVE FInv'
  BY <1>6, EnterF
<1>7. ASSUME NEW h, HeapOK(h), NEW p \in Pointers, NEW how \in {"temporary", "identifier"}, Return(h, p, how)
      PROVE  FInv'
  BY <1>7, ReturnF
<1>8. ASSUME NEW h, HeapOK(h), NEW p \in Pointers, pc # "exited", depth > 1, Back(h, p) PROVE FInv'
  BY <1>8, BackF
<1>9. CASE DeclareFresh \/ DeclareCopy \/ DeclareUninitialised
  BY <1>1, <1>2, <1>9 DEF DeclareFresh, DeclareCopy, DeclareUninitialised
<1>10. CASE DeclareAgain
  <2>1. PICK x \in Locals(depth) \cap Visible, o \in Objects :
          Fresh(o) /\ heap' = Alloc(heap, o) /\ slot' = [slot EXCEPT ![x] = o]
    BY <1>10 DEF DeclareAgain
  <2>2. QED
    BY <1>1, <1>3, <1>10, <2>1 DEF DeclareAgain, Running
<1>11. CASE AssignFresh \/ AssignCopy
  BY <1>1, <1>4, <1>11 DEF AssignFresh, AssignCopy
<1>12. CASE PrintFString \/ PrintFStringOfVariable \/ PrintTemporary
  BY <1>1, <1>5, <1>12, ReleaseHeap DEF PrintFString, PrintFStringOfVariable, PrintTemporary
<1>13. CASE CallWithVariable \/ CallWithLiteral \/ CallWithTemporary \/ CallWithFString
  BY <1>1, <1>6, <1>13 DEF CallWithVariable, CallWithLiteral, CallWithTemporary, CallWithFString
<1>14. CASE ReturnFresh \/ ReturnLiteral \/ ReturnVariable
  BY <1>1, <1>7, <1>14 DEF ReturnFresh, ReturnLiteral, ReturnVariable
<1>15. CASE EndOfBody
  BY <1>1, <1>15, ReturnF DEF EndOfBody
<1>16. CASE ReturnVoid
  <2>1. pc = "run" /\ (depth > 1 => Back(heap, Null)) /\ depth \in 1..MaxDepth
    BY <1>16 DEF ReturnVoid, Running, FInv, FTypeOK
  <2>2. QED
    BY <1>1, <1>8, <1>16, <2>1, ReturnVoidMainF
<1>17. CASE Unwind
  BY <1>17, UnwindF
<1>18. CASE LeaveFunction
  <2>1. /\ pc = "unwind" /\ depth > 1 /\ ret.val \in Pointers
        /\ Back(IF ret.how = "identifier" THEN Retain(heap, ret.val) ELSE heap, ret.val)
    BY <1>18 DEF LeaveFunction, FInv, FTypeOK
  <2>2. QED
    BY <1>1, <1>8, <2>1, RetainHeap
<1>19. CASE LeaveMain
  BY <1>19, LeaveMainF
<1>20. CASE UNCHANGED vars
  <2>1. FTypeOK' /\ FramesMatchTable' /\ FramesAbove'
    BY <1>20 DEF vars, FInv, FTypeOK, FramesMatchTable, FramesAbove
  <2>2. CallsOK' /\ ReturnOK' /\ ExitOK'
    BY <1>20 DEF vars, FInv, CallsOK, ReturnOK, ExitOK, NoTrap
  <2>3. QED
    BY <2>1, <2>2 DEF FInv
<1>21. QED
  BY <1>9, <1>10, <1>11, <1>12, <1>13, <1>14, <1>15, <1>16, <1>17, <1>18, <1>19, <1>20 DEF Next

\* The invariant of the frames, in every state.
LEMMA FramesInOrder == Spec => []FInv
BY InitF, NextF, PTL DEF Spec

\* The compiler's variable table matches the stack, whatever statements the program
\* consists of and however deep its calls go.
THEOREM TableMatchesStack == Spec => []FramesMatchTable
<1>1. FInv => FramesMatchTable
  BY DEF FInv
<1>2. QED
  BY <1>1, FramesInOrder, PTL

-----------------------------------------------------------------------------
\* The owners of a block, one kind at a time.
HeldBy(o)  == Cardinality({s \in OwningSlots : slot[s] = o})
Transit(o) == IF ret.how = "temporary" /\ ret.val = o THEN 1 ELSE 0
Pending(o) == Cardinality({d \in 1..MaxDepth : call[d].fstring = o})

Same(p, o) == IF p = o THEN 1 ELSE 0

\* Two finite sets that differ at most in x.
LEMMA OneDiffers ==
  ASSUME NEW A, NEW B, NEW x, IsFiniteSet(A), IsFiniteSet(B), \A y : y # x => (y \in A <=> y \in B)
  PROVE  /\ Cardinality(A) \in Nat /\ Cardinality(B) \in Nat
         /\ Cardinality(A) + (IF x \in B THEN 1 ELSE 0) = Cardinality(B) + (IF x \in A THEN 1 ELSE 0)
<1>1. Cardinality(A) \in Nat /\ Cardinality(B) \in Nat
  BY FS_CardinalityType
<1>2. CASE x \in A /\ x \notin B
  <2>1. B = A \ {x}
    BY <1>2
  <2>2. Cardinality(A \ {x}) = Cardinality(A) - 1
    BY <1>2, FS_RemoveElement
  <2>3. Cardinality(B) = Cardinality(A) - 1
    BY <2>1, <2>2, Zenon
  <2>4. QED
    BY <1>1, <1>2, <2>3
<1>3. CASE x \in B /\ x \notin A
  <2>1. A = B \ {x}
    BY <1>3
  <2>2. Cardinality(B \ {x}) = Cardinality(B) - 1
    BY <1>3, FS_RemoveElement
  <2>3. Cardinality(A) = Cardinality(B) - 1
    BY <2>1, <2>2, Zenon
  <2>4. QED
    BY <1>1, <1>3, <2>3
<1>4. CASE x \in A <=> x \in B
  <2>1. A = B
    BY <1>4
  <2>2. QED
    BY <1>1, <1>4, <2>1
<1>5. QED
  BY <1>2, <1>3, <1>4

\* Variables and frames are finitely many.
LEMMA OwnersFinite ==
  /\ \A T \in SUBSET OwningSlots : IsFiniteSet(T)
  /\ \A T \in SUBSET (1..MaxDepth) : IsFiniteSet(T)
<1>1. IsFiniteSet(0..MaxDepth) /\ IsFiniteSet(0..MaxLocals) /\ IsFiniteSet(1..MaxDepth)
  BY FS_Interval
<1>2. IsFiniteSet(Slots)
  BY <1>1, FS_Product DEF Slots
<1>3. IsFiniteSet(OwningSlots)
  BY <1>2, FS_Subset, SlotPairs
<1>4. QED
  BY <1>1, <1>3, FS_Subset

\* The owners of a block: variables, the returned pointer, and the f-strings of the calls under way.
LEMMA OwnersSum ==
  \A o : /\ Owners(o) = HeldBy(o) + Transit(o) + Pending(o)
         /\ HeldBy(o) \in Nat /\ Transit(o) \in {0, 1} /\ Pending(o) \in Nat
<1> SUFFICES ASSUME NEW o
             PROVE  /\ Owners(o) = HeldBy(o) + Transit(o) + Pending(o)
                    /\ HeldBy(o) \in Nat /\ Transit(o) \in {0, 1} /\ Pending(o) \in Nat
  OBVIOUS
<1> DEFINE A == {s \in OwningSlots : slot[s] = o}
           B == {d \in 1..MaxDepth : call[d].fstring = o}
<1>1. A \in SUBSET OwningSlots /\ B \in SUBSET (1..MaxDepth)
  OBVIOUS
<1>2. HeldBy(o) = Cardinality(A) /\ Pending(o) = Cardinality(B)
  BY DEF HeldBy, Pending
<1>3. Owners(o) = Cardinality(A) + Transit(o) + Cardinality(B)
  BY DEF Owners, Transit
<1> HIDE DEF A, B
<1>4. Cardinality(A) \in Nat /\ Cardinality(B) \in Nat
  BY <1>1, OwnersFinite, FS_CardinalityType
<1>5. QED
  BY <1>2, <1>3, <1>4 DEF Transit

\* A store to an owning variable.
LEMMA HeldByStored ==
  ASSUME NEW x \in OwningSlots, \A s \in OwningSlots : s # x => slot'[s] = slot[s], NEW o
  PROVE  HeldBy(o)' + Same(slot[x], o) = HeldBy(o) + Same(slot'[x], o)
<1> DEFINE A == {s \in OwningSlots : slot[s] = o}
           B == {s \in OwningSlots : slot'[s] = o}
<1>1. IsFiniteSet(A) /\ IsFiniteSet(B)
  <2>1. A \in SUBSET OwningSlots /\ B \in SUBSET OwningSlots
    OBVIOUS
  <2> HIDE DEF A, B
  <2>2. QED
    BY <2>1, OwnersFinite
<1>2. \A y : y # x => (y \in A <=> y \in B)
  OBVIOUS
<1>3. (x \in A <=> slot[x] = o) /\ (x \in B <=> slot'[x] = o)
  OBVIOUS
<1>4. HeldBy(o) = Cardinality(A) /\ HeldBy(o)' = Cardinality(B)
  BY DEF HeldBy
<1> HIDE DEF A, B
<1>5. Cardinality(A) + (IF x \in B THEN 1 ELSE 0) = Cardinality(B) + (IF x \in A THEN 1 ELSE 0)
  BY <1>1, <1>2, OneDiffers
<1>6. QED
  BY <1>3, <1>4, <1>5 DEF Same

\* Nothing happens to the owners of a block while no variable is written.
LEMMA HeldBySame ==
  ASSUME \A s \in OwningSlots : slot'[s] = slot[s], NEW o
  PROVE  HeldBy(o)' = HeldBy(o)
<1>1. {s \in OwningSlots : slot'[s] = o} = {s \in OwningSlots : slot[s] = o}
  OBVIOUS
<1>2. QED
  BY <1>1 DEF HeldBy

\* One call record changes: the owners among f-strings change by that call alone.
LEMMA PendingStored ==
  ASSUME NEW d \in 1..MaxDepth, \A e \in 1..MaxDepth : e # d => call'[e] = call[e], NEW o
  PROVE  Pending(o)' + Same(call[d].fstring, o) = Pending(o) + Same(call'[d].fstring, o)
<1> DEFINE A == {e \in 1..MaxDepth : call[e].fstring = o}
           B == {e \in 1..MaxDepth : call'[e].fstring = o}
<1>1. IsFiniteSet(A) /\ IsFiniteSet(B)
  <2>1. A \in SUBSET (1..MaxDepth) /\ B \in SUBSET (1..MaxDepth)
    OBVIOUS
  <2> HIDE DEF A, B
  <2>2. QED
    BY <2>1, OwnersFinite
<1>2. \A y : y # d => (y \in A <=> y \in B)
  OBVIOUS
<1>3. (d \in A <=> call[d].fstring = o) /\ (d \in B <=> call'[d].fstring = o)
  OBVIOUS
<1>4. Pending(o) = Cardinality(A) /\ Pending(o)' = Cardinality(B)
  BY DEF Pending
<1> HIDE DEF A, B
<1>5. Cardinality(A) + (IF d \in B THEN 1 ELSE 0) = Cardinality(B) + (IF d \in A THEN 1 ELSE 0)
  BY <1>1, <1>2, OneDiffers
<1>6. QED
  BY <1>3, <1>4, <1>5 DEF Same

\* The runtime's calls in terms of counts.
LEMMA CallCounts ==
  ASSUME NEW h, HeapOK(h), NEW p, NEW o \in Objects
  PROVE  /\ h.count[o] \in Nat
         /\ Release(h, p).trap = "none" => Release(h, p).count[o] = h.count[o] - Same(p, o)
         /\ Retain(h, p).trap = "none" => Retain(h, p).count[o] = h.count[o] + Same(p, o)
         /\ p \in Objects /\ h.state[p] = "unused" => Alloc(h, p).count[o] = h.count[o] + Same(p, o)
<1>1. h.count \in [Objects -> Nat] /\ o # Null
  BY Distinct DEF HeapOK, HeapShape
<1>2. ASSUME Release(h, p).trap = "none" PROVE Release(h, p).count[o] = h.count[o] - Same(p, o)
  <2>1. CASE p = Null /\ Release(h, p) = h
    BY <1>1, <2>1 DEF Same
  <2>2. CASE p \in Objects /\ Release(h, p).count = [h.count EXCEPT ![p] = h.count[p] - 1]
    BY <1>1, <2>2 DEF Same
  <2>3. QED
    BY <1>2, <2>1, <2>2, ReleaseHeap
<1>3. ASSUME Retain(h, p).trap = "none" PROVE Retain(h, p).count[o] = h.count[o] + Same(p, o)
  <2>1. CASE p = Null /\ Retain(h, p) = h
    BY <1>1, <2>1 DEF Same
  <2>2. CASE p \in Objects /\ Retain(h, p).count = [h.count EXCEPT ![p] = h.count[p] + 1]
    BY <1>1, <2>2 DEF Same
  <2>3. QED
    BY <1>3, <2>1, <2>2, RetainHeap
<1>4. ASSUME p \in Objects, h.state[p] = "unused" PROVE Alloc(h, p).count[o] = h.count[o] + Same(p, o)
  <2>1. h.count[p] = 0 /\ Alloc(h, p).count = [h.count EXCEPT ![p] = 1]
    BY <1>4, AllocHeap
  <2>2. QED
    BY <1>1, <1>4, <2>1 DEF Same
<1>5. QED
  BY <1>1, <1>2, <1>3, <1>4

\* The same sum as OwnersSum, in the next state.
LEMMA OwnersSumNext ==
  \A o : /\ Owners(o)' = HeldBy(o)' + Transit(o)' + Pending(o)'
         /\ HeldBy(o)' \in Nat /\ Transit(o)' \in {0, 1} /\ Pending(o)' \in Nat
<1> DEFINE P == \A o : /\ Owners(o) = HeldBy(o) + Transit(o) + Pending(o)
                       /\ HeldBy(o) \in Nat /\ Transit(o) \in {0, 1} /\ Pending(o) \in Nat
<1>1. P
  BY OwnersSum
<1> HIDE DEF P
<1>2. P'
  BY <1>1, PTL
<1>3. QED
  BY <1>2 DEF P

-----------------------------------------------------------------------------
\* What a step does to the surplus of a block.

\* A store to an owning variable, and a step that stores to none.
LEMMA StoreS ==
  ASSUME FInv, HeapOK(heap'), UNCHANGED <<ret, call>>, NEW o \in Objects,
         NEW x \in OwningSlots, \A s \in OwningSlots : s # x => slot'[s] = slot[s]
  PROVE  Surplus(o)' = Surplus(o) + (heap'.count[o] - heap.count[o]) + Same(slot[x], o) - Same(slot'[x], o)
<1>1. heap.count[o] \in Nat /\ heap'.count[o] \in Nat
  BY CallCounts DEF FInv, FTypeOK
<1>2. HeldBy(o)' + Same(slot[x], o) = HeldBy(o) + Same(slot'[x], o)
  BY HeldByStored
<1>3. Transit(o)' = Transit(o) /\ Pending(o)' = Pending(o)
  BY DEF Transit, Pending
<1>4. Same(slot[x], o) \in {0, 1} /\ Same(slot'[x], o) \in {0, 1}
  BY DEF Same
<1>5. QED
  BY <1>1, <1>2, <1>3, <1>4, OwnersSum, OwnersSumNext DEF Surplus

\* A step that only works on the heap: the surplus moves with the count.
LEMMA StillS ==
  ASSUME FInv, HeapOK(heap'), UNCHANGED <<ret, call>>, NEW o \in Objects,
         \A s \in OwningSlots : slot'[s] = slot[s]
  PROVE  Surplus(o)' = Surplus(o) + (heap'.count[o] - heap.count[o])
<1>1. heap.count[o] \in Nat /\ heap'.count[o] \in Nat
  BY CallCounts DEF FInv, FTypeOK
<1>2. HeldBy(o)' = HeldBy(o)
  BY HeldBySame
<1>3. Transit(o)' = Transit(o) /\ Pending(o)' = Pending(o)
  BY DEF Transit, Pending
<1>4. QED
  BY <1>1, <1>2, <1>3, OwnersSum, OwnersSumNext DEF Surplus

\* Entering a function: an f-string of the call becomes an owner, and nothing else does.
LEMMA EnterS ==
  ASSUME FInv, NEW h, HeapOK(h), NEW p \in Pointers, NEW tmp \in Objects \cup {Null}, Enter(h, p, tmp),
         NEW o \in Objects
  PROVE  Surplus(o)' = Surplus(o) + (h.count[o] - heap.count[o]) - Same(tmp, o)
<1>1. /\ depth + 1 \in 1..MaxDepth /\ Param(depth + 1) \in Slots \ OwningSlots
      /\ call[depth + 1].fstring = Null /\ call'[depth + 1].fstring = tmp
      /\ \A d \in 1..MaxDepth : d # depth + 1 => call'[d] = call[d]
  BY EnterF
<1>2. /\ slot' = [slot EXCEPT ![Param(depth + 1)] = p] /\ heap' = h /\ ret' = ret
      /\ slot \in [Slots -> Pointers \cup {Absent}]
  BY DEF Enter, FInv, FTypeOK
<1>3. \A s \in OwningSlots : slot'[s] = slot[s]
  BY <1>1, <1>2, SlotPairs
<1>4. HeldBy(o)' = HeldBy(o)
  BY <1>3, HeldBySame
<1>5. Pending(o)' + Same(Null, o) = Pending(o) + Same(tmp, o)
  BY <1>1, PendingStored
<1>6. Transit(o)' = Transit(o) /\ Same(Null, o) = 0 /\ Same(tmp, o) \in {0, 1}
  BY <1>2, Distinct DEF Transit, Same
<1>7. heap.count[o] \in Nat /\ h.count[o] \in Nat
  BY CallCounts DEF FInv, FTypeOK
<1>8. Pending(o)' = Pending(o) + Same(tmp, o) /\ heap'.count[o] = h.count[o]
  BY <1>2, <1>5, <1>6, OwnersSum, OwnersSumNext
<1>9. QED
  BY <1>4, <1>6, <1>7, <1>8, OwnersSum, OwnersSumNext DEF Surplus

\* A return: a temporary result becomes an owner, and nothing else does.
LEMMA ReturnS ==
  ASSUME FInv, NEW h, HeapOK(h), NEW p, NEW how, Return(h, p, how), NEW o \in Objects
  PROVE  Surplus(o)' = Surplus(o) + (h.count[o] - heap.count[o]) - (IF how = "temporary" THEN Same(p, o) ELSE 0)
<1>1. /\ heap' = h /\ ret' = [val |-> p, how |-> how] /\ UNCHANGED <<slot, call>>
      /\ pc = "run"
  BY DEF Return, Running
<1>2. HeldBy(o)' = HeldBy(o) /\ Pending(o)' = Pending(o)
  BY <1>1 DEF HeldBy, Pending
<1>3. Transit(o) = 0
  BY <1>1 DEF FInv, ReturnOK, Transit
<1>4. Transit(o)' = IF how = "temporary" THEN Same(p, o) ELSE 0
  BY <1>1 DEF Transit, Same
<1>5. heap.count[o] \in Nat /\ h.count[o] \in Nat
  BY CallCounts DEF FInv, FTypeOK
<1>6. QED
  BY <1>1, <1>2, <1>3, <1>4, <1>5, OwnersSum, OwnersSumNext DEF Surplus

\* Back in the caller: the f-string is released and no longer pending, and an assignment
\* releases what the variable held.  Where the result goes is a matter of HeldBy.
LEMMA BackS ==
  ASSUME FInv, pc # "exited", depth > 1, NEW h, HeapOK(h), NEW p \in Pointers, Back(h, p), NoTrap',
         NEW o \in Objects
  PROVE  LET c == call[depth]
         IN  Surplus(o)' = h.count[o] - (IF c.sink = "assign" THEN Same(slot[c.to], o) ELSE 0)
                           - HeldBy(o)' - Pending(o)
<1> DEFINE c == call[depth]
           h1 == Release(h, c.fstring)
<1>1. /\ heap' = IF c.sink = "assign" THEN Release(h1, slot[c.to]) ELSE h1
      /\ ret' = NoResult /\ call' = [call EXCEPT ![depth] = NoCall]
      /\ call \in [1..MaxDepth -> [sink : {"declare", "assign", "discard"}, to : Slots, fstring : Objects \cup {Null}]]
      /\ depth \in 1..MaxDepth
  BY DEF Back, FInv, FTypeOK
<1>2. Transit(o)' = 0
  BY <1>1 DEF Transit, NoResult
<1>3. call'[depth] = NoCall /\ \A d \in 1..MaxDepth : d # depth => call'[d] = call[d]
  BY <1>1
<1>4. Pending(o)' + Same(c.fstring, o) = Pending(o) + Same(Null, o)
  BY <1>1, <1>3, PendingStored DEF NoCall
<1>5. Same(Null, o) = 0 /\ Same(c.fstring, o) \in {0, 1}
  BY Distinct DEF Same
<1>6. HeapOK(h1)
  BY ReleaseHeap
<1>7. h1.trap = "none"
  BY <1>1, <1>6, ReleaseHeap DEF NoTrap
<1>8. h1.count[o] = h.count[o] - Same(c.fstring, o) /\ h.count[o] \in Nat
  BY <1>7, CallCounts
<1> HIDE DEF h1
<1>9. heap'.count[o] = h1.count[o] - (IF c.sink = "assign" THEN Same(slot[c.to], o) ELSE 0)
  <2>1. CASE c.sink = "assign"
    <3>1. heap' = Release(h1, slot[c.to]) /\ heap'.trap = "none"
      BY <1>1, <2>1 DEF NoTrap
    <3>2. heap'.count[o] = h1.count[o] - Same(slot[c.to], o)
      BY <1>6, <3>1, CallCounts
    <3>3. QED
      BY <2>1, <3>2
  <2>2. CASE c.sink # "assign"
    <3>1. heap' = h1 /\ h1.count[o] \in Nat
      BY <1>1, <1>6, <2>2, CallCounts
    <3>2. QED
      BY <2>2, <3>1
  <2>3. QED
    BY <2>1, <2>2
<1>10. Same(slot[c.to], o) \in {0, 1}
  BY DEF Same
<1>11. QED
  BY <1>2, <1>4, <1>5, <1>8, <1>9, <1>10, OwnersSum, OwnersSumNext DEF Surplus

\* The surplus of a block is an integer.
LEMMA SurplusInt == ASSUME FInv, NEW o \in Objects PROVE Surplus(o) \in Int /\ heap.count[o] \in Nat
<1>1. heap.count[o] \in Nat
  BY CallCounts DEF FInv, FTypeOK
<1>2. QED
  BY <1>1, OwnersSum DEF Surplus

\* So it is in the next state.
LEMMA SurplusIntNext == FInv' => \A o \in Objects : Surplus(o)' \in Int
<1> DEFINE P == FInv => \A o \in Objects : Surplus(o) \in Int
<1>1. P
  BY SurplusInt
<1> HIDE DEF P
<1>2. P'
  BY <1>1, PTL
<1>3. QED
  BY <1>2 DEF P

\* A step of a program without aliasing never lowers a surplus, and one of a program that
\* drops nothing never raises one.
Drift(o) ==
  /\ Without(Aliasing) => Surplus(o)' >= Surplus(o)
  /\ Without(Dropping) => Surplus(o)' <= Surplus(o)

\* Allocation is of a block that has no count.
LEMMA FreshCounts ==
  ASSUME FInv, NEW p \in Objects, Fresh(p)
  PROVE  /\ HeapOK(Alloc(heap, p)) /\ p \in Pointers
         /\ heap.count[p] = 0
         /\ \A o \in Objects : Alloc(heap, p).count[o] = heap.count[o] + Same(p, o)
<1>1. HeapOK(heap) /\ heap.state[p] = "unused"
  BY DEF FInv, FTypeOK, Fresh
<1>2. HeapOK(Alloc(heap, p)) /\ p \in Pointers /\ heap.count[p] = 0
  BY <1>1, AllocHeap DEF Pointers
<1>3. \A o \in Objects : Alloc(heap, p).count[o] = heap.count[o] + Same(p, o)
  BY <1>1, CallCounts
<1>4. QED
  BY <1>2, <1>3

\* The first declaration of a name.
LEMMA DeclareDrift ==
  ASSUME FInv, NEW o \in Objects, DeclareFresh \/ DeclareCopy \/ DeclareUninitialised
  PROVE  Drift(o)
<1>1. Surplus(o) \in Int /\ heap.count[o] \in Nat
  BY SurplusInt
<1>2. ASSUME NEW h, HeapOK(h), NEW p \in Pointers, Declare(h, p)
      PROVE  Surplus(o)' = Surplus(o) + (h.count[o] - heap.count[o]) - Same(p, o)
  <2>1. NextLocal \in OwningSlots /\ slot[NextLocal] = Absent
    BY <1>2, DeclareF
  <2>2. /\ heap' = h /\ slot' = [slot EXCEPT ![NextLocal] = p] /\ UNCHANGED <<ret, call>>
        /\ slot \in [Slots -> Pointers \cup {Absent}]
    BY <1>2 DEF Declare, FInv, FTypeOK
  <2>3. /\ \A s \in OwningSlots : s # NextLocal => slot'[s] = slot[s]
        /\ slot'[NextLocal] = p
    BY <2>1, <2>2, SlotPairs
  <2>4. Same(Absent, o) = 0 /\ Same(p, o) \in {0, 1} /\ h.count[o] \in Nat
    BY <1>2, Distinct, CallCounts DEF Same
  <2>5. Surplus(o)' = Surplus(o) + (heap'.count[o] - heap.count[o]) + Same(slot[NextLocal], o) - Same(slot'[NextLocal], o)
    BY <1>2, <2>1, <2>2, <2>3, StoreS
  <2>6. QED
    BY <1>1, <2>1, <2>2, <2>3, <2>4, <2>5
<1>3. CASE DeclareFresh
  <2>1. PICK p \in Objects : Fresh(p) /\ Declare(Alloc(heap, p), p)
    BY <1>3 DEF DeclareFresh
  <2>2. Surplus(o)' = Surplus(o) + (Alloc(heap, p).count[o] - heap.count[o]) - Same(p, o)
    BY <1>2, <2>1, FreshCounts
  <2>3. Surplus(o)' = Surplus(o)
    BY <1>1, <2>1, <2>2, FreshCounts DEF Same
  <2>4. QED
    BY <1>1, <2>3 DEF Drift
<1>4. CASE DeclareCopy
  <2>1. PICK y \in Visible : Declare(heap, slot[y])
    BY <1>4 DEF DeclareCopy
  <2>2. slot[y] \in Pointers /\ HeapOK(heap)
    BY VisibleSlots DEF FInv, FTypeOK
  <2>3. Surplus(o)' = Surplus(o) + (heap.count[o] - heap.count[o]) - Same(slot[y], o)
    BY <1>2, <2>1, <2>2
  <2>4. ~Without(Aliasing)
    BY <1>4 DEF DeclareCopy, Without, Aliasing
  <2>5. QED
    BY <1>1, <2>3, <2>4 DEF Drift, Same
<1>5. CASE DeclareUninitialised
  <2>1. PICK p \in {Null, Wild} : Declare(heap, p)
    BY <1>5 DEF DeclareUninitialised
  <2>2. Surplus(o)' = Surplus(o) + (heap.count[o] - heap.count[o]) - Same(p, o)
    BY <1>2, <2>1 DEF FInv, FTypeOK, Pointers
  <2>3. Same(p, o) = 0
    BY Distinct DEF Same
  <2>4. QED
    BY <1>1, <2>2, <2>3 DEF Drift
<1>6. QED
  BY <1>3, <1>4, <1>5

\* The statements that replace the pointer of a variable.
LEMMA StoreDrift ==
  ASSUME FInv, NoTrap', NEW o \in Objects, DeclareAgain \/ AssignFresh \/ AssignCopy
  PROVE  Drift(o)
<1>1. Surplus(o) \in Int /\ heap.count[o] \in Nat /\ slot \in [Slots -> Pointers \cup {Absent}]
  BY SurplusInt DEF FInv, FTypeOK
<1>2. CASE DeclareAgain
  <2>1. PICK x \in Locals(depth) \cap Visible, p \in Objects :
          Fresh(p) /\ heap' = Alloc(heap, p) /\ slot' = [slot EXCEPT ![x] = p]
    BY <1>2 DEF DeclareAgain
  <2>2. x \in OwningSlots /\ UNCHANGED <<ret, call>> /\ ~Without(Dropping)
    BY <1>2, <2>1, VisibleSlots DEF DeclareAgain, Without, Dropping
  <2>3. (\A s \in OwningSlots : s # x => slot'[s] = slot[s]) /\ slot'[x] = p
    BY <1>1, <2>1, <2>2, SlotPairs
  <2>4. HeapOK(heap') /\ heap'.count[o] = heap.count[o] + Same(p, o)
    BY <2>1, FreshCounts
  <2>5. Surplus(o)' = Surplus(o) + (heap'.count[o] - heap.count[o]) + Same(slot[x], o) - Same(p, o)
    BY <2>2, <2>3, <2>4, StoreS
  <2>6. Same(slot[x], o) \in {0, 1} /\ Same(p, o) \in {0, 1}
    BY DEF Same
  <2>7. Surplus(o)' = Surplus(o) + Same(slot[x], o)
    BY <1>1, <2>4, <2>5, <2>6
  <2>8. QED
    BY <1>1, <2>2, <2>6, <2>7 DEF Drift
<1>3. ASSUME NEW h, HeapOK(h), NEW x \in Assignable, NEW p \in Pointers, Assign(h, x, p), x \in OwningSlots
      PROVE  Surplus(o)' = Surplus(o) + (h.count[o] - heap.count[o]) - Same(p, o)
  <2>1. /\ heap' = Release(h, slot[x]) /\ slot' = [slot EXCEPT ![x] = p] /\ UNCHANGED <<ret, call>>
    BY <1>3 DEF Assign
  <2>2. heap'.count[o] = h.count[o] - Same(slot[x], o) /\ h.count[o] \in Nat /\ HeapOK(heap')
    <3>1. heap'.trap = "none"
      BY DEF NoTrap
    <3>2. Release(h, slot[x]).trap = "none"
      BY <2>1, <3>1
    <3>3. Release(h, slot[x]).count[o] = h.count[o] - Same(slot[x], o) /\ h.count[o] \in Nat
      BY <1>3, <3>2, CallCounts
    <3>4. HeapOK(Release(h, slot[x]))
      BY <1>3, ReleaseHeap
    <3>5. QED
      BY <2>1, <3>3, <3>4
  <2>3. (\A s \in OwningSlots : s # x => slot'[s] = slot[s]) /\ slot'[x] = p
    BY <1>1, <1>3, <2>1, SlotPairs
  <2>4. Surplus(o)' = Surplus(o) + (heap'.count[o] - heap.count[o]) + Same(slot[x], o) - Same(p, o)
    BY <1>3, <2>1, <2>2, <2>3, StoreS
  <2>5. Same(slot[x], o) \in {0, 1} /\ Same(p, o) \in {0, 1}
    BY DEF Same
  <2>6. QED
    BY <1>1, <2>2, <2>4, <2>5
<1>4. ASSUME NEW x \in Assignable, x \notin OwningSlots PROVE Drift(o)
  BY <1>4, VisibleSlots DEF Drift, Without, Aliasing, Dropping
<1>5. CASE AssignFresh
  <2>1. PICK x \in Assignable, p \in Objects : Fresh(p) /\ Assign(Alloc(heap, p), x, p)
    BY <1>5 DEF AssignFresh
  <2>2. ASSUME x \in OwningSlots PROVE Drift(o)
    <3>1. Surplus(o)' = Surplus(o) + (Alloc(heap, p).count[o] - heap.count[o]) - Same(p, o)
      BY <1>3, <2>1, <2>2, FreshCounts
    <3>2. Alloc(heap, p).count[o] = heap.count[o] + Same(p, o) /\ Same(p, o) \in {0, 1}
      BY <2>1, FreshCounts DEF Same
    <3>3. Surplus(o)' = Surplus(o)
      BY <1>1, <3>1, <3>2
    <3>4. QED
      BY <1>1, <3>3 DEF Drift
  <2>3. QED
    BY <1>4, <2>2
<1>6. CASE AssignCopy
  <2>1. PICK x \in Assignable, y \in Visible : Assign(heap, x, slot[y])
    BY <1>6 DEF AssignCopy
  <2>2. slot[y] \in Pointers /\ HeapOK(heap)
    BY VisibleSlots DEF FInv, FTypeOK
  <2>3. ~Without(Aliasing)
    BY <1>6 DEF AssignCopy, Without, Aliasing
  <2>4. ASSUME x \in OwningSlots PROVE Drift(o)
    <3>1. Surplus(o)' = Surplus(o) + (heap.count[o] - heap.count[o]) - Same(slot[y], o)
      BY <1>3, <2>1, <2>2, <2>4
    <3>2. QED
      BY <1>1, <2>3, <3>1 DEF Drift, Same
  <2>5. QED
    BY <1>4, <2>4
<1>7. QED
  BY <1>2, <1>5, <1>6

\* The print statements.
LEMMA PrintDrift ==
  ASSUME FInv, NoTrap', NEW o \in Objects, PrintFString \/ PrintFStringOfVariable \/ PrintTemporary
  PROVE  Drift(o)
<1>1. Surplus(o) \in Int /\ heap.count[o] \in Nat /\ HeapOK(heap)
  BY SurplusInt DEF FInv, FTypeOK
<1>2. ASSUME NEW h, HeapOK(h), PrintStep(h)
      PROVE  Surplus(o)' = Surplus(o) + (h.count[o] - heap.count[o]) /\ heap' = h
  <2>1. heap' = h /\ UNCHANGED <<slot, ret, call>>
    BY <1>2 DEF PrintStep
  <2>2. QED
    BY <1>2, <2>1, StillS
<1>3. CASE PrintFString
  <2>1. PICK p \in Objects : Fresh(p) /\ PrintStep(Release(Alloc(heap, p), p))
    BY <1>3 DEF PrintFString
  <2> DEFINE a == Alloc(heap, p)
  <2>2. HeapOK(a) /\ a.count[o] = heap.count[o] + Same(p, o)
    BY <2>1, FreshCounts
  <2> HIDE DEF a
  <2>3. HeapOK(Release(a, p)) /\ PrintStep(Release(a, p))
    BY <2>1, <2>2, ReleaseHeap DEF a
  <2>4. Surplus(o)' = Surplus(o) + (Release(a, p).count[o] - heap.count[o]) /\ heap' = Release(a, p)
    BY <1>2, <2>3
  <2>5. Release(a, p).count[o] = a.count[o] - Same(p, o) /\ Same(p, o) \in {0, 1}
    BY <2>2, <2>4, CallCounts DEF NoTrap, Same
  <2>6. Surplus(o)' = Surplus(o)
    BY <1>1, <2>2, <2>4, <2>5
  <2>7. QED
    BY <1>1, <2>6 DEF Drift
<1>4. CASE PrintFStringOfVariable
  <2>1. PICK x \in Visible : PrintStep(Release(heap, slot[x]))
    BY <1>4 DEF PrintFStringOfVariable
  <2>2. ~Without(Aliasing)
    BY <1>4 DEF PrintFStringOfVariable, Without, Aliasing
  <2>3. Surplus(o)' = Surplus(o) + (Release(heap, slot[x]).count[o] - heap.count[o]) /\ heap' = Release(heap, slot[x])
    BY <1>1, <1>2, <2>1, ReleaseHeap
  <2>4. Release(heap, slot[x]).count[o] = heap.count[o] - Same(slot[x], o) /\ Same(slot[x], o) \in {0, 1}
    BY <1>1, <2>3, CallCounts DEF NoTrap, Same
  <2>5. Surplus(o)' = Surplus(o) - Same(slot[x], o)
    BY <1>1, <2>3, <2>4
  <2>6. QED
    BY <1>1, <2>2, <2>4, <2>5 DEF Drift
<1>5. CASE PrintTemporary
  <2>1. PICK p \in Objects : Fresh(p) /\ PrintStep(Alloc(heap, p))
    BY <1>5 DEF PrintTemporary
  <2>2. ~Without(Dropping)
    BY <1>5 DEF PrintTemporary, Without, Dropping
  <2>3. Surplus(o)' = Surplus(o) + (Alloc(heap, p).count[o] - heap.count[o])
    BY <1>2, <2>1, FreshCounts
  <2>4. Alloc(heap, p).count[o] = heap.count[o] + Same(p, o) /\ Same(p, o) \in {0, 1}
    BY <2>1, FreshCounts DEF Same
  <2>5. Surplus(o)' = Surplus(o) + Same(p, o)
    BY <1>1, <2>3, <2>4
  <2>6. QED
    BY <1>1, <2>2, <2>4, <2>5 DEF Drift
<1>6. QED
  BY <1>3, <1>4, <1>5

\* The calls.
LEMMA CallDrift ==
  ASSUME FInv, NEW o \in Objects,
         CallWithVariable \/ CallWithLiteral \/ CallWithTemporary \/ CallWithFString
  PROVE  Drift(o)
<1>1. /\ Surplus(o) \in Int /\ heap.count[o] \in Nat /\ HeapOK(heap)
      /\ Same(Null, o) = 0 /\ Lit \in Pointers /\ Null \in Objects \cup {Null}
  BY SurplusInt, Distinct DEF FInv, FTypeOK, Same, Pointers
<1>2. CASE CallWithVariable \/ CallWithLiteral
  <2>1. PICK p \in Pointers : Enter(heap, p, Null)
    BY <1>1, <1>2, VisibleSlots DEF CallWithVariable, CallWithLiteral
  <2>2. Surplus(o)' = Surplus(o) + (heap.count[o] - heap.count[o]) - Same(Null, o)
    BY <1>1, <2>1, EnterS
  <2>3. QED
    BY <1>1, <2>2 DEF Drift
<1>3. CASE CallWithTemporary
  <2>1. PICK p \in Objects : Fresh(p) /\ Enter(Alloc(heap, p), p, Null)
    BY <1>3 DEF CallWithTemporary
  <2>2. ~Without(Dropping)
    BY <1>3 DEF CallWithTemporary, Without, Dropping
  <2>3. Surplus(o)' = Surplus(o) + (Alloc(heap, p).count[o] - heap.count[o]) - Same(Null, o)
    BY <2>1, FreshCounts, EnterS
  <2>4. Alloc(heap, p).count[o] = heap.count[o] + Same(p, o) /\ Same(p, o) \in {0, 1}
    BY <2>1, FreshCounts DEF Same
  <2>5. Surplus(o)' = Surplus(o) + Same(p, o)
    BY <1>1, <2>3, <2>4
  <2>6. QED
    BY <1>1, <2>2, <2>4, <2>5 DEF Drift
<1>4. CASE CallWithFString
  <2>1. PICK p \in Objects : Fresh(p) /\ Enter(Alloc(heap, p), p, p)
    BY <1>4 DEF CallWithFString
  <2>2. Surplus(o)' = Surplus(o) + (Alloc(heap, p).count[o] - heap.count[o]) - Same(p, o)
    BY <2>1, FreshCounts, EnterS
  <2>3. Alloc(heap, p).count[o] = heap.count[o] + Same(p, o) /\ Same(p, o) \in {0, 1}
    BY <2>1, FreshCounts DEF Same
  <2>4. Surplus(o)' = Surplus(o)
    BY <1>1, <2>2, <2>3
  <2>5. QED
    BY <1>1, <2>4 DEF Drift
<1>5. QED
  BY <1>2, <1>3, <1>4

\* The returns that have a value, and the end of a body.
LEMMA ReturnDrift ==
  ASSUME FInv, NEW o \in Objects, ReturnFresh \/ ReturnLiteral \/ ReturnVariable \/ EndOfBody
  PROVE  Drift(o)
<1>1. Surplus(o) \in Int /\ heap.count[o] \in Nat /\ HeapOK(heap)
  BY SurplusInt DEF FInv, FTypeOK
<1>2. CASE ReturnFresh
  <2>1. PICK p \in Objects : Fresh(p) /\ Return(Alloc(heap, p), p, "temporary")
    BY <1>2 DEF ReturnFresh
  <2>2. Surplus(o)' = Surplus(o) + (Alloc(heap, p).count[o] - heap.count[o]) - Same(p, o)
    BY <2>1, FreshCounts, ReturnS
  <2>3. Alloc(heap, p).count[o] = heap.count[o] + Same(p, o) /\ Same(p, o) \in {0, 1}
    BY <2>1, FreshCounts DEF Same
  <2>4. Surplus(o)' = Surplus(o)
    BY <1>1, <2>2, <2>3
  <2>5. QED
    BY <1>1, <2>4 DEF Drift
<1>3. CASE ReturnLiteral
  <2>1. Surplus(o)' = Surplus(o) + (heap.count[o] - heap.count[o]) - Same(Lit, o)
    BY <1>1, <1>3, ReturnS DEF ReturnLiteral
  <2>2. Same(Lit, o) = 0
    BY Distinct DEF Same
  <2>3. QED
    BY <1>1, <2>1, <2>2 DEF Drift
<1>4. ASSUME NEW p, NEW how \in {"identifier", "none"}, Return(heap, p, how)
      PROVE  Drift(o)
  <2>1. Surplus(o)' = Surplus(o) + (heap.count[o] - heap.count[o]) - 0
    BY <1>1, <1>4, ReturnS
  <2>2. QED
    BY <1>1, <2>1 DEF Drift
<1>5. CASE ReturnVariable
  <2>1. PICK x \in Visible : Return(heap, slot[x], "identifier")
    BY <1>5 DEF ReturnVariable
  <2>2. QED
    BY <1>4, <2>1
<1>6. CASE EndOfBody
  <2>1. Return(heap, Null, "none")
    BY <1>6 DEF EndOfBody
  <2>2. QED
    BY <1>4, <2>1
<1>7. QED
  BY <1>2, <1>3, <1>5, <1>6

\* The releases in front of a ret, one variable at a time.
LEMMA UnwindDrift ==
  ASSUME FInv, NoTrap', NEW o \in Objects, Unwind
  PROVE  Drift(o)
<1> DEFINE last == <<depth, declared[depth]>>
<1>1. /\ Surplus(o) \in Int /\ heap.count[o] \in Nat /\ HeapOK(heap)
      /\ slot \in [Slots -> Pointers \cup {Absent}]
  BY SurplusInt DEF FInv, FTypeOK
<1>2. /\ heap' = Release(heap, slot[last]) /\ slot' = [slot EXCEPT ![last] = Absent]
      /\ UNCHANGED <<ret, call>> /\ last \in OwningSlots
  BY UnwindF DEF Unwind
<1> HIDE DEF last
<1>3. (\A s \in OwningSlots : s # last => slot'[s] = slot[s]) /\ slot'[last] = Absent
  BY <1>1, <1>2, SlotPairs
<1>4. HeapOK(heap') /\ heap'.trap = "none"
  BY <1>1, <1>2, ReleaseHeap DEF NoTrap
<1>5. heap'.count[o] = heap.count[o] - Same(slot[last], o)
  BY <1>1, <1>2, <1>4, CallCounts
<1>6. Surplus(o)' = Surplus(o) + (heap'.count[o] - heap.count[o]) + Same(slot[last], o) - Same(Absent, o)
  BY <1>2, <1>3, <1>4, StoreS
<1>7. Same(slot[last], o) \in {0, 1} /\ Same(Absent, o) = 0
  BY Distinct DEF Same
<1>8. Surplus(o)' = Surplus(o)
  BY <1>1, <1>5, <1>6, <1>7
<1>9. QED
  BY <1>1, <1>8 DEF Drift

\* The slots of a frame whose locals are all released.
LEMMA FrameEmpty ==
  ASSUME FInv, NEW s \in OwningSlots, s[1] = depth, declared[depth] = 0
  PROVE  slot[s] = Absent
<1>1. depth \in 1..MaxDepth /\ s \in Slots /\ s[2] \in 0..MaxLocals
  BY SlotPairs DEF FInv, FTypeOK
<1>2. s[2] > 0
  BY <1>1 DEF OwningSlots, Global
<1>3. QED
  BY <1>1, <1>2 DEF FInv, FramesMatchTable

\* The ret, with what the caller does with the result.
LEMMA LeaveDrift ==
  ASSUME FInv, NoTrap', NEW o \in Objects, LeaveFunction
  PROVE  Drift(o)
<1> DEFINE c == call[depth]
           h == IF ret.how = "identifier" THEN Retain(heap, ret.val) ELSE heap
           p == ret.val
           r == IF ret.how = "identifier" THEN Same(p, o) ELSE 0
           fresh == IF c.sink = "assign" THEN Same(slot[c.to], o) ELSE 0
<1>1. /\ Surplus(o) \in Int /\ heap.count[o] \in Nat /\ HeapOK(heap) /\ heap.trap = "none"
      /\ slot \in [Slots -> Pointers \cup {Absent}] /\ p \in Pointers
      /\ ret.how \in {"none", "temporary", "identifier"}
      /\ pc = "unwind" /\ depth > 1 /\ declared[depth] = 0 /\ Back(h, p)
  BY SurplusInt DEF FInv, FTypeOK, LeaveFunction
<1>2. HeapOK(h)
  BY <1>1, RetainHeap
<1>3. h.trap = "none"
  <2>1. heap'.trap = "none" /\ HeapOK(Release(h, c.fstring))
    BY <1>2, ReleaseHeap DEF NoTrap
  <2>2. heap' = IF c.sink = "assign" THEN Release(Release(h, c.fstring), slot[c.to]) ELSE Release(h, c.fstring)
    BY <1>1 DEF Back
  <2> HIDE DEF h
  <2>3. Release(h, c.fstring).trap = "none"
    BY <2>1, <2>2, ReleaseHeap
  <2>4. QED
    BY <1>2, <2>3, ReleaseHeap
<1>4. h.count[o] = heap.count[o] + r /\ r \in {0, 1} /\ Same(p, o) \in {0, 1}
  BY <1>1, <1>3, CallCounts DEF Same
<1> HIDE DEF h
<1>5. Surplus(o)' = h.count[o] - fresh - HeldBy(o)' - Pending(o)
  BY <1>1, <1>2, BackS
<1>6. Surplus(o) = heap.count[o] - HeldBy(o) - Transit(o) - Pending(o)
  BY <1>1, OwnersSum DEF Surplus
<1>7. Transit(o) = (IF ret.how = "temporary" THEN Same(p, o) ELSE 0)
  BY DEF Transit, Same
<1>8. ret.how = "none" => Same(p, o) = 0
  BY Distinct DEF FInv, ReturnOK, Same
<1>9. /\ c.to \in Slots
      /\ c.sink # "discard" => c.to[1] \in {0, depth - 1}
      /\ c.sink = "declare" => c.to \in OwningSlots /\ slot[c.to] = Absent
      /\ c.sink \in {"declare", "assign", "discard"} /\ depth \in 1..MaxDepth
  BY <1>1, <1>2, BackF DEF FInv, FTypeOK
<1>10. slot' = [s \in Slots |-> IF s[1] = depth THEN Absent
                                ELSE IF s = c.to /\ c.sink # "discard" THEN p ELSE slot[s]]
  BY <1>1 DEF Back
<1> HIDE DEF c, p
<1>11. \A s \in OwningSlots : ~(s = c.to /\ c.sink # "discard") => slot'[s] = slot[s]
  BY <1>1, <1>10, FrameEmpty, SlotPairs
<1>12. c.sink # "discard" => slot'[c.to] = p
  BY <1>9, <1>10
<1>13. CASE c.sink = "discard"
  <2>1. HeldBy(o)' = HeldBy(o)
    BY <1>11, <1>13, HeldBySame
  <2> DEFINE surplus == heap.count[o] + r - HeldBy(o) - Pending(o)
  <2>2. Surplus(o)' = surplus
    <3>1. fresh = 0
      BY <1>13
    <3> HIDE DEF r, fresh
    <3>2. HeldBy(o) \in Nat /\ Pending(o) \in Nat
      BY OwnersSum
    <3>3. QED
      BY <1>1, <1>4, <1>5, <2>1, <3>1, <3>2
  <2>3. ret.how # "none" => ~Without(Dropping)
    BY <1>1, <1>13 DEF FInv, ReturnOK, Without, Dropping, c
  <2>4. ret.how = "none" => r = 0 /\ Transit(o) = 0
    BY <1>7
  <2>5. QED
    BY <1>1, <1>4, <1>6, <2>2, <2>3, <2>4, OwnersSum DEF Drift
<1>14. CASE c.sink # "discard" /\ c.to \in OwningSlots
  <2>1. HeldBy(o)' + Same(slot[c.to], o) = HeldBy(o) + Same(slot'[c.to], o)
    BY <1>11, <1>14, HeldByStored
  <2>2. HeldBy(o)' + Same(slot[c.to], o) = HeldBy(o) + Same(p, o)
    BY <1>12, <1>14, <2>1
  <2>3. fresh = Same(slot[c.to], o) /\ Same(slot[c.to], o) \in {0, 1}
    BY <1>9, <1>14, Distinct DEF Same
  <2>4. r + Transit(o) = Same(p, o)
    BY <1>1, <1>4, <1>7, <1>8
  <2> HIDE DEF r, fresh
  <2>5. Surplus(o)' = Surplus(o)
    BY <1>1, <1>4, <1>5, <1>6, <2>2, <2>3, <2>4, OwnersSum, OwnersSumNext
  <2>6. QED
    BY <1>1, <2>5 DEF Drift
<1>15. CASE c.sink # "discard" /\ c.to \notin OwningSlots
  <2>1. c.sink = "assign" /\ depth \in 2..depth
    BY <1>1, <1>9, <1>15
  <2>2. "assign_param" \in kinds
    BY <1>15, <2>1 DEF FInv, CallsOK, c
  <2>3. QED
    BY <2>2 DEF Drift, Without, Aliasing, Dropping
<1>16. QED
  BY <1>13, <1>14, <1>15

\* `ret void` forgets the locals of the frame.
LEMMA VoidDrift ==
  ASSUME FInv, NoTrap', NEW o \in Objects, ReturnVoid
  PROVE  Drift(o)
<1>1. /\ Surplus(o) \in Int /\ heap.count[o] \in Nat /\ HeapOK(heap)
      /\ ~Without(Dropping) /\ pc = "run" /\ depth \in 1..MaxDepth /\ Null \in Pointers
  BY SurplusInt DEF FInv, FTypeOK, ReturnVoid, Running, Without, Dropping, Pointers
<1>2. ASSUME \A s \in OwningSlots : slot'[s] # slot[s] => slot'[s] = Absent
      PROVE  HeldBy(o)' <= HeldBy(o)
  <2> DEFINE A == {s \in OwningSlots : slot[s] = o}
             B == {s \in OwningSlots : slot'[s] = o}
  <2>1. B \in SUBSET A /\ A \in SUBSET OwningSlots
    BY <1>2, Distinct
  <2>2. HeldBy(o) = Cardinality(A) /\ HeldBy(o)' = Cardinality(B)
    BY DEF HeldBy
  <2> HIDE DEF A, B
  <2>3. QED
    BY <2>1, <2>2, OwnersFinite, FS_Subset
<1>3. CASE depth > 1
  <2>1. Back(heap, Null) /\ call[depth].sink = "discard"
    BY <1>3 DEF ReturnVoid
  <2>2. Surplus(o)' = heap.count[o] - 0 - HeldBy(o)' - Pending(o)
    BY <1>1, <1>3, <2>1, BackS
  <2>3. \A s \in OwningSlots : slot'[s] # slot[s] => slot'[s] = Absent
    BY <2>1, SlotPairs DEF Back
  <2>4. HeldBy(o)' <= HeldBy(o)
    BY <1>2, <2>3
  <2>5. QED
    BY <1>1, <2>2, <2>4, OwnersSum, OwnersSumNext DEF Drift, Surplus
<1>4. CASE depth = 1
  <2>1. UNCHANGED <<heap, ret, call>>
    BY <1>4 DEF ReturnVoid
  <2>2. \A s \in OwningSlots : slot'[s] # slot[s] => slot'[s] = Absent
    BY <1>4, ReturnVoidMainF, SlotPairs
  <2>3. HeldBy(o)' <= HeldBy(o)
    BY <1>2, <2>2
  <2>4. Transit(o)' = Transit(o) /\ Pending(o)' = Pending(o)
    BY <2>1 DEF Transit, Pending
  <2>5. QED
    BY <1>1, <2>1, <2>3, <2>4, OwnersSum, OwnersSumNext DEF Drift, Surplus
<1>5. QED
  BY <1>1, <1>3, <1>4

\* A program does not change, and after a trap it does nothing.
LEMMA StepsOfProgram == [Next]_vars => kinds' = kinds /\ (NoTrap \/ UNCHANGED vars)
<1> SUFFICES ASSUME [Next]_vars PROVE kinds' = kinds /\ (NoTrap \/ UNCHANGED vars)
  OBVIOUS
<1>1. CASE DeclareFresh \/ DeclareCopy \/ DeclareUninitialised \/ DeclareAgain
  BY <1>1 DEF DeclareFresh, DeclareCopy, DeclareUninitialised, DeclareAgain, Declare, Running, NoTrap
<1>2. CASE AssignFresh \/ AssignCopy
  BY <1>2 DEF AssignFresh, AssignCopy, Assign, Running, NoTrap
<1>3. CASE PrintFString \/ PrintFStringOfVariable \/ PrintTemporary
  BY <1>3 DEF PrintFString, PrintFStringOfVariable, PrintTemporary, PrintStep, Running, NoTrap
<1>4. CASE CallWithVariable \/ CallWithLiteral \/ CallWithTemporary \/ CallWithFString
  BY <1>4 DEF CallWithVariable, CallWithLiteral, CallWithTemporary, CallWithFString, Enter, Running, NoTrap
<1>5. CASE ReturnFresh \/ ReturnLiteral \/ ReturnVariable \/ EndOfBody
  BY <1>5 DEF ReturnFresh, ReturnLiteral, ReturnVariable, EndOfBody, Return, Running, NoTrap
<1>6. CASE ReturnVoid
  BY <1>6 DEF ReturnVoid, Back, Running, NoTrap
<1>7. CASE Unwind \/ LeaveFunction \/ LeaveMain
  BY <1>7 DEF Unwind, LeaveFunction, LeaveMain, Back, NoTrap
<1>8. CASE UNCHANGED vars
  BY <1>8 DEF vars
<1>9. QED
  BY <1>1, <1>2, <1>3, <1>4, <1>5, <1>6, <1>7, <1>8 DEF Next

\* Every step, whatever it is: kinds and counts move as Drift says.
LEMMA NextDrift ==
  ASSUME FInv, [Next]_vars, NoTrap', NEW o \in Objects
  PROVE  NoTrap /\ kinds' = kinds /\ Drift(o)
<1>1. NoTrap /\ kinds' = kinds
  BY StepsOfProgram DEF vars, NoTrap
<1>2. CASE LeaveMain \/ UNCHANGED vars
  <2>1. UNCHANGED <<heap, slot, ret, call>> /\ HeapOK(heap)
    BY <1>2 DEF LeaveMain, vars, FInv, FTypeOK
  <2>2. Surplus(o)' = Surplus(o) + (heap'.count[o] - heap.count[o])
    BY <2>1, StillS
  <2>3. Surplus(o) \in Int /\ heap.count[o] \in Nat
    BY SurplusInt
  <2>4. QED
    BY <1>1, <2>1, <2>2, <2>3 DEF Drift
<1>3. QED
  BY <1>1, <1>2, DeclareDrift, StoreDrift, PrintDrift, CallDrift, ReturnDrift, VoidDrift, UnwindDrift,
     LeaveDrift DEF Next

\* At the start nothing is counted and nothing is owned.
LEMMA InitCount == Init => \A o \in Objects : Surplus(o) = 0
<1> SUFFICES ASSUME Init, NEW o \in Objects PROVE Surplus(o) = 0
  OBVIOUS
<1>1. heap.count[o] = 0 /\ o \notin {Null, Absent} /\ Null \notin Objects
  BY Distinct DEF Init
<1>2. {s \in OwningSlots : slot[s] = o} = {} /\ {d \in 1..MaxDepth : call[d].fstring = o} = {}
  BY <1>1, SlotPairs DEF Init, NoCall
<1>3. HeldBy(o) = 0 /\ Pending(o) = 0
  BY <1>2, FS_EmptySet DEF HeldBy, Pending
<1>4. Transit(o) = 0
  BY DEF Init, NoResult, Transit
<1>5. Owners(o) = 0
  BY <1>3, <1>4, OwnersSum
<1>6. QED
  BY <1>1, <1>5 DEF Surplus

\* The counts and the frames are in order in every state.
LEMMA CountsInOrder == Spec => [](FInv /\ CountInv)
<1>1. Init => FInv /\ CountInv
  BY InitF, InitCount DEF CountInv
<1>2. FInv /\ CountInv /\ [Next]_vars => (FInv /\ CountInv)'
  <2> SUFFICES ASSUME FInv, CountInv, [Next]_vars PROVE CountInv'
    BY NextF
  <2>1. FInv'
    BY NextF
  <2>2. \A o \in Objects : Surplus(o) \in Int
    BY SurplusInt
  <2>3. \A o \in Objects : Surplus(o)' \in Int
    BY <2>1, SurplusIntNext
  <2>4. CASE NoTrap'
    <3>1. NoTrap /\ (Without(Aliasing)' <=> Without(Aliasing)) /\ (Without(Dropping)' <=> Without(Dropping))
      BY <2>4, StepsOfProgram DEF Without, Aliasing, Dropping, vars, NoTrap
    <3>2. \A o \in Objects : Drift(o)
      BY <2>4, NextDrift
    <3>3. /\ Without(Aliasing) => \A o \in Objects : Surplus(o) >= 0
          /\ Without(Dropping) => \A o \in Objects : Surplus(o) <= 0
      BY <3>1 DEF CountInv
    <3>4. /\ Without(Aliasing) => \A o \in Objects : Surplus(o)' >= 0
          /\ Without(Dropping) => \A o \in Objects : Surplus(o)' <= 0
      BY <2>2, <2>3, <3>2, <3>3 DEF Drift
    <3>5. QED
      BY <3>1, <3>4 DEF CountInv
  <2>5. CASE ~NoTrap'
    BY <2>5 DEF CountInv
  <2>6. QED
    BY <2>4, <2>5
<1>3. QED
  BY <1>1, <1>2, PTL DEF Spec

\* A program without aliasing never counts too low, so that nothing is freed early.
THEOREM NeverTooLow == Spec => []CountsCover
<1>1. FInv /\ CountInv => CountsCover
  <2> SUFFICES ASSUME FInv, CountInv, NoTrap, Without(Aliasing), NEW o \in Objects
               PROVE  heap.count[o] >= Owners(o)
    BY DEF CountsCover
  <2>1. Surplus(o) >= 0 /\ heap.count[o] \in Nat /\ Owners(o) \in Nat
    BY SurplusInt, OwnersSum DEF CountInv
  <2>2. QED
    BY <2>1 DEF Surplus
<1>2. QED
  BY <1>1, CountsInOrder, PTL

\* A program that drops nothing never counts too high, so that nothing leaks.
THEOREM NeverTooHigh == Spec => []CountsCovered
<1>1. FInv /\ CountInv => CountsCovered
  <2> SUFFICES ASSUME FInv, CountInv, NoTrap, Without(Dropping), NEW o \in Objects
               PROVE  heap.count[o] <= Owners(o)
    BY DEF CountsCovered
  <2>1. Surplus(o) <= 0 /\ heap.count[o] \in Nat /\ Owners(o) \in Nat
    BY SurplusInt, OwnersSum DEF CountInv
  <2>2. QED
    BY <2>1 DEF Surplus
<1>2. QED
  BY <1>1, CountsInOrder, PTL

\* When main has returned, all variables but the global one are gone, and with them
\* the last reference to everything the global one does not own.
THEOREM EverythingReleased == Spec => []NoLeakAtExit
<1>1. FInv /\ CountInv => NoLeakAtExit
  <2> SUFFICES ASSUME FInv, CountInv, pc = "exited", Without(Dropping), NEW o \in Objects, Live(heap, o)
               PROVE  slot[Global] = o
    BY DEF NoLeakAtExit
  <2>1. NoTrap /\ depth = 1 /\ declared[1] = 0 /\ ret.how = "none"
    BY DEF FInv, ExitOK, ReturnOK, FTypeOK
  <2>2. heap.count[o] \in Nat /\ heap.count[o] > 0
    BY DEF Live, FInv, FTypeOK, HeapOK, HeapShape
  <2>3. Surplus(o) <= 0 /\ HeldBy(o) \in Nat /\ Pending(o) \in Nat /\ Owners(o) = HeldBy(o) + Transit(o) + Pending(o)
    BY <2>1, OwnersSum DEF CountInv
  <2>4. Transit(o) = 0
    BY <2>1 DEF Transit
  <2>5. Pending(o) = 0
    <3>1. \A d \in 1..MaxDepth : call[d].fstring = Null /\ Null # o
      BY <2>1, Distinct DEF FInv, FramesAbove, NoCall
    <3>2. {d \in 1..MaxDepth : call[d].fstring = o} = {}
      BY <3>1
    <3>3. QED
      BY <3>2, FS_EmptySet DEF Pending
  <2>6. HeldBy(o) # 0
    BY <2>2, <2>3, <2>4, <2>5 DEF Surplus
  <2>7. {s \in OwningSlots : slot[s] = o} # {}
    BY <2>6, FS_EmptySet DEF HeldBy
  <2>8. PICK s \in OwningSlots : slot[s] = o
    BY <2>7
  <2>9. s = Global
    <3> SUFFICES ASSUME s # Global PROVE FALSE
      OBVIOUS
    <3>1. s \in Slots /\ s[2] > 0 /\ slot[s] # Absent /\ s[1] \in 0..MaxDepth /\ s[2] \in 0..MaxLocals
      BY <2>8, SlotPairs, Distinct DEF OwningSlots
    <3>2. s[1] > 0 /\ s[1] <= depth /\ s[2] <= declared[s[1]]
      BY <3>1 DEF FInv, FramesMatchTable
    <3>3. s[1] = 1
      BY <2>1, <3>1, <3>2
    <3>4. QED
      BY <2>1, <3>1, <3>2, <3>3
  <2>10. QED
    BY <2>8, <2>9
<1>2. QED
  BY <1>1, CountsInOrder, PTL

-----------------------------------------------------------------------------
\* A block that is owned, or that a parameter borrows, is live.
LEMMA OwnedCount ==
  ASSUME FInv, CountInv, NoTrap, Without(Aliasing), NEW p \in Objects
  PROVE  /\ heap.count[p] \in Nat /\ HeldBy(p) \in Nat /\ Pending(p) \in Nat
         /\ heap.count[p] >= HeldBy(p) + Pending(p)
         /\ \A s \in OwningSlots : slot[s] = p => HeldBy(p) >= 1
         /\ \A d \in 1..MaxDepth : Pending(p) >= Same(call[d].fstring, p)
         /\ \A s \in OwningSlots : slot[s] = p => heap.count[p] > 0
         /\ \A d \in 1..MaxDepth : call[d].fstring = p => heap.count[p] > 0
         /\ \A d \in 1..MaxDepth : Backed(d, p) => heap.count[p] > 0
<1>1. /\ heap.count[p] \in Nat /\ HeldBy(p) \in Nat /\ Pending(p) \in Nat /\ Transit(p) \in {0, 1}
      /\ Owners(p) = HeldBy(p) + Transit(p) + Pending(p)
      /\ Surplus(p) = heap.count[p] - Owners(p) /\ Surplus(p) >= 0
  BY SurplusInt, OwnersSum DEF CountInv, Surplus
<1>2. heap.count[p] >= HeldBy(p) + Pending(p)
  BY <1>1
<1>3. ASSUME NEW s \in OwningSlots, slot[s] = p PROVE HeldBy(p) >= 1
  <2> DEFINE A == {x \in OwningSlots : slot[x] = p}
  <2>1. A # {} /\ IsFiniteSet(A) /\ HeldBy(p) = Cardinality(A)
    BY <1>3, OwnersFinite DEF HeldBy
  <2> HIDE DEF A
  <2>2. QED
    BY <1>1, <2>1, FS_EmptySet
<1>4. ASSUME NEW d \in 1..MaxDepth, call[d].fstring = p PROVE Pending(p) >= 1
  <2> DEFINE A == {x \in 1..MaxDepth : call[x].fstring = p}
  <2>1. A # {} /\ IsFiniteSet(A) /\ Pending(p) = Cardinality(A)
    BY <1>4, OwnersFinite DEF Pending
  <2> HIDE DEF A
  <2>2. QED
    BY <1>1, <2>1, FS_EmptySet
<1>5. \A d \in 1..MaxDepth : Pending(p) >= Same(call[d].fstring, p)
  BY <1>1, <1>4 DEF Same
<1>6. \A s \in OwningSlots : slot[s] = p => heap.count[p] > 0
  BY <1>1, <1>2, <1>3
<1>7. \A d \in 1..MaxDepth : call[d].fstring = p => heap.count[p] > 0
  BY <1>1, <1>2, <1>4
<1>8. ASSUME NEW d \in 1..MaxDepth, Backed(d, p) PROVE heap.count[p] > 0
  <2>1. CASE Surplus(p) > 0
    BY <1>1, <2>1
  <2>2. CASE \E e \in 1..MaxDepth, i \in 1..MaxLocals : e < d /\ slot[<<e, i>>] = p
    BY <1>6, <2>2, SlotPairs
  <2>3. CASE \E e \in 1..MaxDepth : e <= d /\ call[e].fstring = p
    BY <1>7, <2>3
  <2>4. QED
    BY <1>8, <2>1, <2>2, <2>3 DEF Backed
<1>9. QED
  BY <1>1, <1>2, <1>3, <1>5, <1>6, <1>7, <1>8

\* What is in an owning slot, and what a safe program returns, can be released and retained.
LEMMA HoldsLive ==
  ASSUME FInv, CountInv, SafeInv, SafeProgram
  PROVE  /\ \A s \in OwningSlots : slot[s] = Absent \/ slot[s] = Null \/ (slot[s] \in Objects /\ heap.count[slot[s]] > 0)
         /\ \A d \in 1..MaxDepth : call[d].fstring = Null
                                     \/ (call[d].fstring \in Objects /\ heap.count[call[d].fstring] > 0)
         /\ ret.how = "identifier" => ret.val = Null \/ (ret.val \in Objects /\ heap.count[ret.val] > 0)
         /\ ret.val \notin {Lit, Wild}
<1>1. /\ NoTrap /\ Without(Aliasing) /\ OwnersSafe /\ (\A d \in 1..MaxDepth : ParamSafe(d)) /\ ResultSafe
      /\ slot \in [Slots -> Pointers \cup {Absent}] /\ depth \in 1..MaxDepth /\ ret.val \in Pointers
      /\ ret.how \in {"none", "temporary", "identifier"}
      /\ \A d \in 1..MaxDepth : call[d].fstring \in Objects \cup {Null}
      /\ (ret.how = "none" => ret.val = Null)
  BY DEF SafeInv, SafeProgram, FInv, FTypeOK, ReturnOK
<1>2. \A s \in OwningSlots : slot[s] = Absent \/ slot[s] = Null \/ (slot[s] \in Objects /\ heap.count[slot[s]] > 0)
  BY <1>1, OwnedCount, SlotPairs DEF OwnersSafe, Pointers
<1>3. \A d \in 1..MaxDepth : call[d].fstring = Null \/ (call[d].fstring \in Objects /\ heap.count[call[d].fstring] > 0)
  BY <1>1, OwnedCount
<1>4. ret.how = "identifier" => ret.val = Null \/ (ret.val \in Objects /\ heap.count[ret.val] > 0)
  <2> SUFFICES ASSUME ret.how = "identifier"
               PROVE  ret.val = Null \/ (ret.val \in Objects /\ heap.count[ret.val] > 0)
    OBVIOUS
  <2>1. CASE ret.val = slot[Global]
    BY <1>1, <1>2, <2>1, SlotPairs, Distinct DEF Pointers
  <2>2. CASE ret.val = slot[Param(depth)] /\ "return_param" \in kinds
    <3>1. ret.val # Wild /\ ret.val # Lit /\ (ret.val \in Objects => Backed(depth, ret.val))
      BY <1>1, <2>2, Zenon DEF ParamSafe, SafeProgram, Headerless
    <3>2. QED
      BY <1>1, <3>1, OwnedCount DEF Pointers
  <2>3. QED
    BY <1>1, <2>1, <2>2 DEF ResultSafe
<1>5. ret.val \notin {Lit, Wild}
  BY <1>1, <1>4, Distinct DEF ResultSafe
<1>6. QED
  BY <1>2, <1>3, <1>4, <1>5

\* Nothing that frame d can see of the frames below it has changed.
FrameStays(d) ==
  /\ slot'[Param(d)] = slot[Param(d)]
  /\ \A e \in 1..MaxDepth, i \in 1..MaxLocals : e < d => slot'[<<e, i>>] = slot[<<e, i>>]
  /\ \A e \in 1..MaxDepth : e <= d => call'[e].fstring = call[e].fstring

\* What keeps a block alive for a callee goes on doing so while the frames below stay as they are.
LEMMA BackedStays ==
  ASSUME FInv, [Next]_vars, NoTrap', Without(Aliasing), NEW p \in Objects, NEW d \in 1..MaxDepth, NEW f, f <= d, Backed(f, p), f \in Nat,
         \A e \in 1..MaxDepth, i \in 1..MaxLocals : e < f => slot'[<<e, i>>] = slot[<<e, i>>],
         \A e \in 1..MaxDepth : e <= f => call'[e].fstring = call[e].fstring
  PROVE  Backed(d, p)'
<1>1. Drift(p) /\ Surplus(p) \in Int /\ FInv'
  BY NextDrift, SurplusInt, NextF
<1>2. Surplus(p)' >= Surplus(p) /\ Surplus(p)' \in Int
  BY <1>1, SurplusIntNext DEF Drift
<1>3. CASE Surplus(p) > 0
  <2>1. Surplus(p)' > 0
    BY <1>1, <1>2, <1>3
  <2>2. QED
    BY <2>1 DEF Backed
<1>4. CASE \E e \in 1..MaxDepth, i \in 1..MaxLocals : e < f /\ slot[<<e, i>>] = p
  <2>1. PICK e \in 1..MaxDepth, i \in 1..MaxLocals : e < f /\ slot[<<e, i>>] = p
    BY <1>4
  <2>2. slot'[<<e, i>>] = p /\ e < d
    BY <2>1
  <2>3. QED
    BY <2>2 DEF Backed
<1>5. CASE \E e \in 1..MaxDepth : e <= f /\ call[e].fstring = p
  <2>1. PICK e \in 1..MaxDepth : e <= f /\ call[e].fstring = p
    BY <1>5
  <2>2. call'[e].fstring = p /\ e <= d
    BY <2>1
  <2>3. QED
    BY <2>2 DEF Backed
<1>6. QED
  BY <1>3, <1>4, <1>5 DEF Backed

\* So a parameter stays safe while its frame and those below it stay.
LEMMA ParamStays ==
  ASSUME FInv, [Next]_vars, NoTrap', Without(Aliasing), NEW d \in 1..MaxDepth, ParamSafe(d), FrameStays(d)
  PROVE  ParamSafe(d)'
<1>1. kinds' = kinds
  BY StepsOfProgram
<1>2. ASSUME NEW p \in Objects, slot'[Param(d)] = p PROVE Backed(d, p)'
  <2>1. Backed(d, p)
    BY <1>2 DEF ParamSafe, FrameStays
  <2>2. QED
    BY <2>1, BackedStays DEF FrameStays
<1>3. slot'[Param(d)] # Wild /\ (slot'[Param(d)] = Lit => "literal_arg" \in kinds)
  BY DEF ParamSafe, FrameStays
<1>4. QED
  BY <1>1, <1>2, <1>3 DEF ParamSafe, Param

\* The statement forms a safe program does not use.
LEMMA Excluded ==
  ASSUME SafeProgram
  PROVE  /\ Without(Aliasing)
         /\ "copy" \notin kinds /\ "assign_param" \notin kinds /\ "global_arg" \notin kinds
         /\ "fstring_var" \notin kinds /\ "return_local" \notin kinds
         /\ "uninitialised" \notin kinds /\ "return_literal" \notin kinds
         /\ "return_param" \in kinds => "literal_arg" \notin kinds
BY DEF SafeProgram, Headerless, Without, Aliasing

\* What a step has to show of itself: its writes, the parameters it changes and the result.
LEMMA SafeStep ==
  ASSUME FInv, CountInv, SafeInv, SafeProgram, [Next]_vars, NoTrap',
         \A s \in OwningSlots : slot'[s] \notin {Lit, Wild},
         \A d \in 1..MaxDepth : FrameStays(d) \/ slot'[Param(d)] = Absent \/ ParamSafe(d)',
         ResultSafe'
  PROVE  SafeInv'
<1>1. ASSUME NEW d \in 1..MaxDepth PROVE ParamSafe(d)'
  <2>1. CASE FrameStays(d)
    BY <2>1, ParamStays DEF SafeInv, SafeProgram
  <2>2. CASE slot'[Param(d)] = Absent
    BY <2>2, Distinct DEF ParamSafe, Param
  <2>3. QED
    BY <2>1, <2>2
<1>2. OwnersSafe'
  BY DEF OwnersSafe, OwningSlots, Slots, Global
<1>3. QED
  BY <1>1, <1>2 DEF SafeInv

\* A step that stores p in an owning variable of the running frame.
LEMMA SafeStore ==
  ASSUME FInv, CountInv, SafeInv, SafeProgram, [Next]_vars, NoTrap', UNCHANGED <<depth, call, ret>>,
         NEW x \in OwningSlots, x[1] \in {0, depth}, ret.how = "none" \/ x # Global,
         NEW p, p \notin {Lit, Wild}, slot' = [slot EXCEPT ![x] = p]
  PROVE  SafeInv'
<1>1. /\ depth \in 1..MaxDepth /\ slot \in [Slots -> Pointers \cup {Absent}] /\ OwnersSafe /\ ResultSafe /\ kinds' = kinds
      /\ \A d \in 1..MaxDepth : d > depth => slot[Param(d)] = Absent
  BY StepsOfProgram DEF FInv, FTypeOK, SafeInv, FramesAbove
<1>2. \A s \in OwningSlots : slot'[s] \notin {Lit, Wild}
  BY <1>1, SlotPairs DEF OwnersSafe
<1>3. \A d \in 1..MaxDepth : slot'[Param(d)] = slot[Param(d)]
  BY <1>1, SlotPairs
<1>4. ASSUME NEW d \in 1..MaxDepth, d <= depth PROVE FrameStays(d)
  <2>1. ASSUME NEW e \in 1..MaxDepth, NEW i \in 1..MaxLocals, e < d PROVE slot'[<<e, i>>] = slot[<<e, i>>]
    <3>1. <<e, i>> \in Slots /\ <<e, i>>[1] = e /\ e # depth /\ e # 0
      BY <1>1, <1>4, <2>1, SlotPairs
    <3>2. <<e, i>> # x
      BY <3>1
    <3>3. QED
      BY <1>1, <3>1, <3>2
  <2>2. QED
    BY <1>3, <2>1 DEF FrameStays
<1>5. ResultSafe'
  <2>1. x # Global => slot'[Global] = slot[Global]
    BY <1>1, SlotPairs
  <2>2. slot'[Param(depth)] = slot[Param(depth)]
    BY <1>1, <1>3
  <2>3. QED
    BY <1>1, <2>1, <2>2 DEF ResultSafe, Param, Global
<1>6. \A d \in 1..MaxDepth : FrameStays(d) \/ slot'[Param(d)] = Absent
  BY <1>1, <1>3, <1>4
<1>7. QED
  BY <1>2, <1>5, <1>6, SafeStep

\* A step that stores nothing.
LEMMA SafeStill ==
  ASSUME FInv, CountInv, SafeInv, SafeProgram, [Next]_vars, NoTrap', UNCHANGED <<slot, call>>, ResultSafe'
  PROVE  SafeInv'
<1>1. \A d \in 1..MaxDepth : FrameStays(d)
  BY DEF FrameStays
<1>2. \A s \in OwningSlots : slot'[s] \notin {Lit, Wild}
  BY DEF SafeInv, OwnersSafe
<1>3. QED
  BY <1>1, <1>2, SafeStep

\* Declarations, assignments and prints.
LEMMA StatementsSafe ==
  ASSUME FInv, CountInv, SafeInv, SafeProgram, [Next]_vars,
         \/ DeclareFresh \/ DeclareCopy \/ DeclareUninitialised \/ DeclareAgain \/ AssignFresh \/ AssignCopy
         \/ PrintFString \/ PrintFStringOfVariable \/ PrintTemporary
  PROVE  SafeInv'
<1>1. /\ HeapOK(heap) /\ heap.trap = "none" /\ depth \in 1..MaxDepth
      /\ pc = "run" => ret.how = "none"
      /\ \A o \in Objects : o \notin {Lit, Wild} /\ o # Null
      /\ \A o \in Objects : Fresh(o) => /\ HeapOK(Alloc(heap, o)) /\ Alloc(heap, o).trap = "none"
                                        /\ Alloc(heap, o).count = [heap.count EXCEPT ![o] = 1]
      /\ heap.count \in [Objects -> Nat]
  <2>1. HeapOK(heap) /\ heap.trap = "none" /\ depth \in 1..MaxDepth /\ (pc = "run" => ret.how = "none")
    BY DEF FInv, FTypeOK, ReturnOK, SafeInv, NoTrap
  <2>2. heap.count \in [Objects -> Nat]
    BY <2>1 DEF HeapOK, HeapShape
  <2>3. QED
    BY <2>1, <2>2, AllocHeap, Distinct DEF Fresh
<1>2. ~DeclareCopy /\ ~DeclareUninitialised /\ ~AssignCopy /\ ~PrintFStringOfVariable
  BY Excluded DEF DeclareCopy, DeclareUninitialised, AssignCopy, PrintFStringOfVariable
<1>3. CASE DeclareFresh
  <2>1. PICK o \in Objects : Fresh(o) /\ Declare(Alloc(heap, o), o)
    BY <1>3 DEF DeclareFresh
  <2>2. NextLocal \in OwningSlots /\ NextLocal[1] = depth /\ o \in Pointers
    BY <1>1, <2>1, DeclareF DEF NextLocal, Pointers
  <2>3. QED
    BY <1>1, <2>1, <2>2, SafeStore DEF Declare, Running, NoTrap
<1>4. CASE DeclareAgain
  <2>1. PICK x \in Locals(depth) \cap Visible, o \in Objects :
          Fresh(o) /\ heap' = Alloc(heap, o) /\ slot' = [slot EXCEPT ![x] = o]
    BY <1>4 DEF DeclareAgain
  <2>2. x \in OwningSlots /\ x[1] \in {0, depth}
    BY <2>1, VisibleSlots
  <2>3. QED
    BY <1>1, <1>4, <2>1, <2>2, SafeStore DEF DeclareAgain, Running, NoTrap
<1>5. CASE AssignFresh
  <2>1. PICK x \in Assignable, o \in Objects : Fresh(o) /\ Assign(Alloc(heap, o), x, o)
    BY <1>5 DEF AssignFresh
  <2>2. x \in OwningSlots /\ x[1] \in {0, depth} /\ slot[x] # Absent
    BY <2>1, VisibleSlots, Excluded
  <2>3. slot[x] = Null \/ (slot[x] \in Objects /\ Alloc(heap, o).count[slot[x]] > 0)
    <3>1. slot[x] = Null \/ (slot[x] \in Objects /\ heap.count[slot[x]] > 0)
      BY <2>2, HoldsLive
    <3>2. Alloc(heap, o).count = [heap.count EXCEPT ![o] = 1]
      BY <1>1, <2>1
    <3>3. QED
      BY <1>1, <3>1, <3>2
  <2>4. NoTrap'
    BY <1>1, <2>1, <2>3, ReleaseHeap DEF Assign, NoTrap
  <2>5. QED
    BY <1>1, <2>1, <2>2, <2>4, SafeStore DEF Assign, Running
<1>6. CASE PrintFString \/ PrintTemporary
  <2>1. PICK o \in Objects : Fresh(o) /\ (PrintStep(Release(Alloc(heap, o), o)) \/ PrintStep(Alloc(heap, o)))
    BY <1>6 DEF PrintFString, PrintTemporary
  <2>2. Alloc(heap, o).count[o] > 0
    <3>1. Alloc(heap, o).count = [heap.count EXCEPT ![o] = 1]
      BY <1>1, <2>1
    <3>2. QED
      BY <1>1, <3>1
  <2>3. Release(Alloc(heap, o), o).trap = "none"
    BY <1>1, <2>1, <2>2, ReleaseHeap
  <2>4. NoTrap' /\ UNCHANGED <<slot, call, ret>> /\ ret.how = "none"
    BY <1>1, <2>1, <2>3 DEF PrintStep, Running, NoTrap
  <2>5. ResultSafe'
    BY <2>4 DEF ResultSafe
  <2>6. QED
    BY <2>4, <2>5, SafeStill
<1>7. QED
  BY <1>2, <1>3, <1>4, <1>5, <1>6

\* Returns, the releases behind them, and the end of the program.
LEMMA ReturnsSafe ==
  ASSUME FInv, CountInv, SafeInv, SafeProgram, [Next]_vars,
         \/ ReturnFresh \/ ReturnLiteral \/ ReturnVariable \/ EndOfBody
         \/ Unwind \/ LeaveMain \/ UNCHANGED vars
  PROVE  SafeInv'
<1>1. /\ HeapOK(heap) /\ heap.trap = "none" /\ depth \in 1..MaxDepth /\ ResultSafe /\ kinds' = kinds
      /\ \A o \in Objects : Fresh(o) => Alloc(heap, o).trap = "none"
  BY AllocHeap, StepsOfProgram DEF FInv, FTypeOK, SafeInv, NoTrap, Fresh
<1>2. CASE LeaveMain \/ UNCHANGED vars
  <2>1. UNCHANGED <<heap, slot, call, ret, depth>>
    BY <1>2 DEF LeaveMain, vars
  <2>2. NoTrap' /\ ResultSafe'
    BY <1>1, <2>1 DEF NoTrap, ResultSafe, Param
  <2>3. QED
    BY <2>1, <2>2, SafeStill
<1>3. CASE ReturnFresh
  <2>1. PICK o \in Objects : Fresh(o) /\ Return(Alloc(heap, o), o, "temporary")
    BY <1>3 DEF ReturnFresh
  <2>2. NoTrap' /\ ResultSafe' /\ UNCHANGED <<slot, call>>
    BY <1>1, <2>1 DEF Return, NoTrap, ResultSafe
  <2>3. QED
    BY <2>2, SafeStill
<1>4. CASE ReturnVariable
  <2>1. PICK x \in Visible : /\ x = Param(depth) => "return_param" \in kinds
                             /\ x \in Locals(depth) => "return_local" \in kinds
                             /\ Return(heap, slot[x], "identifier")
    BY <1>4 DEF ReturnVariable
  <2>2. x = Global \/ x = Param(depth)
    BY <2>1, Excluded DEF Visible
  <2>3. NoTrap' /\ UNCHANGED <<slot, call, depth>> /\ ret' = [val |-> slot[x], how |-> "identifier"]
    BY <1>1, <2>1 DEF Return, NoTrap
  <2>4. ResultSafe'
    BY <1>1, <2>1, <2>2, <2>3 DEF ResultSafe, Param
  <2>5. QED
    BY <2>3, <2>4, SafeStill
<1>5. CASE EndOfBody
  <2>1. NoTrap' /\ UNCHANGED <<slot, call, depth>> /\ ret' = [val |-> Null, how |-> "none"]
    BY <1>1, <1>5 DEF EndOfBody, Return, NoTrap
  <2>2. ResultSafe'
    BY <2>1 DEF ResultSafe
  <2>3. QED
    BY <2>1, <2>2, SafeStill
<1>6. CASE Unwind
  <2> DEFINE last == <<depth, declared[depth]>>
  <2>1. /\ last \in OwningSlots /\ last # Global /\ slot[last] \in Pointers /\ last[1] = depth
        /\ heap' = Release(heap, slot[last]) /\ slot' = [slot EXCEPT ![last] = Absent]
        /\ UNCHANGED <<depth, call, ret>>
    BY <1>6, UnwindF DEF Unwind
  <2> HIDE DEF last
  <2>2. slot[last] = Null \/ (slot[last] \in Objects /\ heap.count[slot[last]] > 0)
    BY <2>1, HoldsLive, Distinct DEF Pointers
  <2>3. NoTrap'
    BY <1>1, <2>1, <2>2, ReleaseHeap DEF NoTrap
  <2>4. Absent \notin {Lit, Wild}
    BY Distinct
  <2>5. QED
    BY <2>1, <2>3, <2>4, SafeStore
<1>7. ~ReturnLiteral
  BY Excluded DEF ReturnLiteral
<1>8. QED
  BY <1>2, <1>3, <1>4, <1>5, <1>6, <1>7

\* A call lends the callee what its argument holds.
LEMMA EnterSafe ==
  ASSUME FInv, CountInv, SafeInv, SafeProgram, [Next]_vars, NEW h, HeapOK(h), h.trap = "none",
         NEW p \in Pointers, NEW tmp \in Objects \cup {Null}, Enter(h, p, tmp),
         p # Wild, p = Lit => "literal_arg" \in kinds,
         NEW n, n = depth + 1, p \in Objects => Backed(n, p)'
  PROVE  SafeInv'
<1>1. /\ depth + 1 \in 1..MaxDepth /\ Param(depth + 1) \in Slots \ OwningSlots
      /\ \A d \in 1..MaxDepth \ {depth + 1} : call'[d] = call[d]
  BY EnterF
<1>2. /\ heap' = h /\ slot' = [slot EXCEPT ![Param(depth + 1)] = p] /\ UNCHANGED <<kinds, pc, ret>> /\ pc = "run"
      /\ slot \in [Slots -> Pointers \cup {Absent}] /\ depth \in 1..MaxDepth
      /\ \A d \in 1..MaxDepth : d > depth => slot[Param(d)] = Absent
      /\ ret.how = "none" /\ OwnersSafe
  BY DEF Enter, Running, FInv, FTypeOK, FramesAbove, ReturnOK, SafeInv
<1>3. \A s \in OwningSlots : slot'[s] \notin {Lit, Wild}
  BY <1>1, <1>2, SlotPairs DEF OwnersSafe
<1>4. ASSUME NEW d \in 1..MaxDepth, d <= depth PROVE FrameStays(d)
  <2>1. Param(d) \in Slots /\ Param(d) # Param(depth + 1)
    BY <1>1, <1>2, <1>4, SlotPairs DEF Param
  <2>2. ASSUME NEW e \in 1..MaxDepth, NEW i \in 1..MaxLocals PROVE slot'[<<e, i>>] = slot[<<e, i>>]
    <3>1. <<e, i>> \in OwningSlots /\ <<e, i>> \in Slots
      BY SlotPairs
    <3>2. QED
      BY <1>1, <1>2, <3>1
  <2>3. \A e \in 1..MaxDepth : e <= d => call'[e].fstring = call[e].fstring
    BY <1>1, <1>2, <1>4
  <2>4. QED
    BY <1>2, <2>1, <2>2, <2>3 DEF FrameStays
<1>5. ASSUME NEW d \in 1..MaxDepth, d > depth + 1 PROVE slot'[Param(d)] = Absent
  BY <1>1, <1>2, <1>5, SlotPairs DEF Param
<1>6. ASSUME NEW d \in 1..MaxDepth, d = depth + 1 PROVE ParamSafe(d)'
  <2>1. slot'[Param(d)] = p
    BY <1>1, <1>2, <1>6
  <2>2. p \in Objects => Backed(d, p)'
    <3>1. d = n
      BY <1>6
    <3>2. QED
      BY <3>1, Zenon
  <2>3. QED
    BY <1>2, <2>1, <2>2 DEF ParamSafe, Param
<1>7. NoTrap' /\ ResultSafe'
  BY <1>2 DEF NoTrap, ResultSafe
<1>8. \A d \in 1..MaxDepth : FrameStays(d) \/ slot'[Param(d)] = Absent \/ ParamSafe(d)'
  BY <1>2, <1>4, <1>5, <1>6
<1>9. QED
  BY <1>3, <1>7, <1>8, SafeStep

\* Calls: the new parameter is backed by the caller.
LEMMA CallsSafe ==
  ASSUME FInv, CountInv, SafeInv, SafeProgram, [Next]_vars,
         CallWithVariable \/ CallWithLiteral \/ CallWithTemporary \/ CallWithFString
  PROVE  SafeInv'
<1>1. /\ HeapOK(heap) /\ heap.trap = "none" /\ depth \in 1..MaxDepth /\ OwnersSafe
      /\ Null \in Pointers /\ Lit \in Pointers /\ Lit # Wild /\ Lit \notin Objects
      /\ \A d \in 1..MaxDepth : ParamSafe(d)
  BY Distinct DEF FInv, FTypeOK, SafeInv, NoTrap, Pointers
<1>2. \A o \in Objects : /\ o \in Pointers /\ o # Wild /\ o # Lit
                         /\ Fresh(o) => HeapOK(Alloc(heap, o)) /\ Alloc(heap, o).trap = "none"
  BY <1>1, AllocHeap, Distinct DEF Fresh, Pointers
<1> PICK n \in Nat : n = depth + 1
  BY <1>1
<1>3. CASE CallWithVariable
  <2>1. PICK x \in Visible : (x = Global => "global_arg" \in kinds) /\ Enter(heap, slot[x], Null)
    BY <1>3 DEF CallWithVariable
  <2>2. x # Global
    BY <2>1, Excluded
  <2> DEFINE p == slot[x]
  <2>3. p \in Pointers /\ x \in Slots
    BY <2>1, VisibleSlots
  <2>4. NoTrap' /\ UNCHANGED <<kinds>> /\ slot' = [slot EXCEPT ![Param(depth + 1)] = p]
        /\ slot \in [Slots -> Pointers \cup {Absent}] /\ depth + 1 \in 1..MaxDepth
        /\ (\A d \in 1..MaxDepth \ {depth + 1} : call'[d] = call[d])
    BY <1>1, <2>1, <2>3, EnterF DEF Enter, NoTrap, FInv, FTypeOK
  <2>5. ASSUME NEW e \in 1..MaxDepth, NEW i \in 1..MaxLocals PROVE slot'[<<e, i>>] = slot[<<e, i>>]
    <3>1. <<e, i>> \in OwningSlots /\ <<e, i>> \in Slots /\ Param(depth + 1) \notin OwningSlots
      BY <2>4, SlotPairs
    <3>2. QED
      BY <2>4, <3>1
  <2>6. CASE x = Param(depth)
    <3>1. p # Wild /\ (p = Lit => "literal_arg" \in kinds) /\ (p \in Objects => Backed(depth, p))
      BY <1>1, <2>6 DEF ParamSafe
    <3> HIDE DEF p
    <3>2. ASSUME p \in Objects PROVE \A q \in Objects : q = p => Backed(n, q)'
      <4> SUFFICES ASSUME NEW q \in Objects, q = p PROVE Backed(n, q)'
        OBVIOUS
      <4>1. Backed(depth, q)
        BY <3>1, <3>2
      <4>2. \A e \in 1..MaxDepth : e <= depth => call'[e].fstring = call[e].fstring
        BY <1>1, <2>4
      <4>3. QED
        BY <1>1, <2>4, <2>5, <4>1, <4>2, BackedStays, Excluded
    <3>3. ASSUME NEW q, q = p PROVE SafeInv'
      <4>1. Enter(heap, q, Null) /\ q \in Pointers /\ q # Wild /\ (q = Lit => "literal_arg" \in kinds)
        BY <2>1, <2>3, <3>1, <3>3 DEF p
      <4>2. q \in Objects => Backed(n, q)'
        BY <3>2, <3>3
      <4>3. QED
        BY <1>1, <4>1, <4>2, EnterSafe
    <3>4. QED
      BY <3>3
  <2>7. CASE x \in Locals(depth)
    <3>1. PICK i \in 1..MaxLocals : x = <<depth, i>>
      BY <2>7 DEF Locals
    <3>2. x \in OwningSlots /\ p # Wild /\ p # Lit
      BY <1>1, <2>7, VisibleSlots DEF OwnersSafe
    <3>3. slot'[<<depth, i>>] = p
      BY <1>1, <2>5, <3>1
    <3>4. ASSUME NEW q, q = p PROVE SafeInv'
      <4>1. Enter(heap, q, Null) /\ q \in Pointers /\ q # Wild /\ q # Lit /\ slot'[<<depth, i>>] = q
        BY <2>1, <2>3, <3>2, <3>3, <3>4
      <4>2. \E e \in 1..MaxDepth, j \in 1..MaxLocals : e < n /\ slot'[<<e, j>>] = q
        BY <1>1, <4>1
      <4>3. Backed(n, q)'
        <5>1. \E e \in 1..MaxDepth, j \in 1..MaxLocals : e < n /\ slot'[<<e, j>>] = q
          BY <4>2
        <5>2. QED
          BY <5>1 DEF Backed
      <4>4. QED
        BY <1>1, <4>1, <4>3, EnterSafe
    <3>5. QED
      BY <3>4
  <2>8. QED
    BY <2>1, <2>2, <2>6, <2>7 DEF Visible
<1>4. CASE CallWithLiteral
  BY <1>1, <1>4, EnterSafe DEF CallWithLiteral
<1>5. CASE CallWithTemporary
  <2>1. PICK o \in Objects : Fresh(o) /\ Enter(Alloc(heap, o), o, Null)
    BY <1>5 DEF CallWithTemporary
  <2>2. Surplus(o)' = Surplus(o) + (Alloc(heap, o).count[o] - heap.count[o]) - Same(Null, o)
    BY <1>2, <2>1, EnterS
  <2>3. Alloc(heap, o).count[o] = heap.count[o] + Same(o, o) /\ heap.count[o] = 0
    BY <2>1, FreshCounts
  <2>4. Same(o, o) = 1 /\ Same(Null, o) = 0
    BY Distinct DEF Same
  <2>5. Surplus(o) >= 0 /\ Surplus(o) \in Int
    BY SurplusInt, Excluded DEF CountInv, SafeInv
  <2>6. Surplus(o)' > 0
    BY <2>2, <2>3, <2>4, <2>5
  <2>7. Backed(n, o)'
    BY <2>6 DEF Backed
  <2>8. QED
    BY <1>1, <1>2, <2>1, <2>7, EnterSafe
<1>6. CASE CallWithFString
  <2>1. PICK o \in Objects : Fresh(o) /\ Enter(Alloc(heap, o), o, o)
    BY <1>6 DEF CallWithFString
  <2>2. call'[depth + 1].fstring = o /\ depth + 1 \in 1..MaxDepth
    BY <1>2, <2>1, EnterF
  <2>3. Backed(n, o)'
    <3>1. \E e \in 1..MaxDepth : e <= n /\ call'[e].fstring = o
      BY <1>1, <2>2
    <3>2. QED
      BY <3>1 DEF Backed
  <2>4. QED
    BY <1>1, <1>2, <2>1, <2>3, EnterSafe
<1>7. QED
  BY <1>3, <1>4, <1>5, <1>6

\* The return to the caller with the result p: neither the release of the f-string nor
\* that of the variable assigned to can be of a block that is already freed.
LEMMA BackSafe ==
  ASSUME FInv, CountInv, SafeInv, SafeProgram, [Next]_vars, pc # "exited", depth > 1,
         NEW h, HeapOK(h), h.trap = "none", \A o \in Objects : h.count[o] >= heap.count[o],
         NEW p \in Pointers, p \notin {Lit, Wild}, Back(h, p)
  PROVE  SafeInv'
<1> DEFINE c == call[depth]
           h1 == Release(h, c.fstring)
<1>1. /\ heap' = IF c.sink = "assign" THEN Release(h1, slot[c.to]) ELSE h1
      /\ slot' = [s \in Slots |-> IF s[1] = depth THEN Absent
                                  ELSE IF s = c.to /\ c.sink # "discard" THEN p ELSE slot[s]]
      /\ depth' = depth - 1 /\ ret' = NoResult /\ call' = [call EXCEPT ![depth] = NoCall]
  BY DEF Back
<1>2. /\ depth \in 2..MaxDepth /\ slot \in [Slots -> Pointers \cup {Absent}]
      /\ c.sink \in {"declare", "assign", "discard"} /\ c.to \in Slots /\ c.fstring \in Objects \cup {Null}
      /\ OwnersSafe /\ NoTrap
      /\ \A d \in 1..MaxDepth : d > depth => slot[Param(d)] = Absent
      /\ call \in [1..MaxDepth -> [sink : {"declare", "assign", "discard"}, to : Slots, fstring : Objects \cup {Null}]]
  BY DEF FInv, FTypeOK, SafeInv, FramesAbove
<1>3. /\ c.sink # "discard" => c.to \in OwningSlots /\ c.to[1] \in {0, depth - 1}
      /\ c.sink = "assign" => slot[c.to] \in Pointers
  <2>1. /\ c.sink # "discard" => c.to[1] \in {0, depth - 1}
        /\ c.sink = "declare" => c.to \in OwningSlots
        /\ c.sink = "assign" => slot[c.to] \in Pointers
    BY BackF
  <2>2. c.sink = "assign" => c.to \in OwningSlots
    BY <1>2, Excluded DEF FInv, CallsOK
  <2>3. QED
    BY <1>2, <2>1, <2>2
<1> HIDE DEF c
<1>4. /\ \A o \in Objects : h.count[o] \in Nat /\ heap.count[o] \in Nat
      /\ c.fstring = Null \/ (c.fstring \in Objects /\ heap.count[c.fstring] > 0)
  <2>1. \A o \in Objects : h.count[o] \in Nat /\ heap.count[o] \in Nat
    BY CallCounts, SurplusInt
  <2>2. call[depth].fstring = Null \/ (call[depth].fstring \in Objects /\ heap.count[call[depth].fstring] > 0)
    BY <1>2, HoldsLive
  <2>3. QED
    BY <2>1, <2>2 DEF c
<1>5. HeapOK(h1) /\ h1.trap = "none"
  <2>1. c.fstring = Null \/ (c.fstring \in Objects /\ h.count[c.fstring] > 0)
    BY <1>4
  <2>2. QED
    BY <2>1, ReleaseHeap
<1>6. \A o \in Objects : h1.count[o] = h.count[o] - Same(c.fstring, o)
  BY <1>5, CallCounts
<1>7. NoTrap'
  <2>1. CASE c.sink = "assign"
    <3> DEFINE q == slot[c.to]
    <3>1. c.to \in OwningSlots /\ q \in Pointers /\ q \notin {Lit, Wild}
      BY <1>2, <1>3, <2>1 DEF OwnersSafe
    <3>2. ASSUME q \in Objects PROVE h1.count[q] > 0
      <4>1. /\ heap.count[q] >= HeldBy(q) + Pending(q) /\ HeldBy(q) \in Nat /\ Pending(q) \in Nat
            /\ HeldBy(q) >= 1 /\ Pending(q) >= Same(c.fstring, q)
        BY <1>2, <3>1, <3>2, OwnedCount, Excluded DEF c
      <4>2. Same(c.fstring, q) \in {0, 1}
        BY DEF Same
      <4>3. h.count[q] >= heap.count[q] /\ h.count[q] \in Nat /\ heap.count[q] \in Nat
            /\ h1.count[q] = h.count[q] - Same(c.fstring, q)
        BY <1>4, <1>6, <3>2
      <4> HIDE DEF q, h1
      <4>4. QED
        BY <4>1, <4>2, <4>3
    <3> HIDE DEF h1
    <3>3. q = Null \/ (q \in Objects /\ h1.count[q] > 0)
      BY <3>1, <3>2 DEF Pointers
    <3>4. QED
      BY <1>1, <1>5, <2>1, <3>3, ReleaseHeap DEF NoTrap
  <2>2. CASE c.sink # "assign"
    BY <1>1, <1>5, <2>2 DEF NoTrap
  <2>3. QED
    BY <2>1, <2>2
<1> HIDE DEF h1
<1>8. ASSUME NEW s \in OwningSlots PROVE slot'[s] \notin {Lit, Wild}
  BY <1>1, <1>2, SlotPairs, Distinct DEF OwnersSafe
<1>9. ASSUME NEW d \in 1..MaxDepth, d < depth PROVE FrameStays(d)
  <2>1. slot'[Param(d)] = slot[Param(d)]
    <3>1. Param(d) \in Slots \ OwningSlots /\ Param(d)[1] = d /\ d # depth
      BY <1>2, <1>9, SlotPairs DEF Param
    <3>2. ~(Param(d) = c.to /\ c.sink # "discard")
      BY <1>3, <3>1
    <3>3. QED
      BY <1>1, <3>1, <3>2
  <2>2. ASSUME NEW e \in 1..MaxDepth, NEW i \in 1..MaxLocals, e < d PROVE slot'[<<e, i>>] = slot[<<e, i>>]
    <3>1. <<e, i>> \in Slots /\ <<e, i>>[1] = e /\ e # depth /\ e # depth - 1 /\ e # 0
      <4>1. e # depth /\ e # depth - 1 /\ e # 0
        BY <1>2, <1>9, <2>2
      <4>2. QED
        BY <4>1, SlotPairs
    <3>2. ~(<<e, i>> = c.to /\ c.sink # "discard")
      BY <1>3, <3>1
    <3>3. QED
      BY <1>1, <3>1, <3>2
  <2>3. ASSUME NEW e \in 1..MaxDepth, e <= d PROVE call'[e].fstring = call[e].fstring
    BY <1>1, <1>2, <1>9, <2>3
  <2>4. QED
    BY <2>1, <2>2, <2>3 DEF FrameStays
<1>10. ASSUME NEW d \in 1..MaxDepth, d >= depth PROVE slot'[Param(d)] = Absent
  <2>1. Param(d) \in Slots /\ Param(d)[1] = d /\ Param(d) \notin OwningSlots
    BY SlotPairs DEF Param
  <2>2. ~(Param(d) = c.to /\ c.sink # "discard")
    BY <1>3, <2>1
  <2>3. d = depth \/ slot[Param(d)] = Absent
    BY <1>2, <1>10
  <2>4. QED
    BY <1>1, <2>1, <2>2, <2>3
<1>11. ResultSafe'
  BY <1>1 DEF ResultSafe, NoResult
<1>12. \A d \in 1..MaxDepth : FrameStays(d) \/ slot'[Param(d)] = Absent
  BY <1>2, <1>9, <1>10
<1>13. QED
  BY <1>7, <1>8, <1>11, <1>12, SafeStep

\* The way back to the caller.
LEMMA LeavesSafe ==
  ASSUME FInv, CountInv, SafeInv, SafeProgram, [Next]_vars, LeaveFunction \/ ReturnVoid
  PROVE  SafeInv'
<1>1. /\ HeapOK(heap) /\ heap.trap = "none" /\ depth \in 1..MaxDepth /\ ret.val \in Pointers
      /\ (pc = "run" => ret.how = "none") /\ Null \in Pointers /\ Null \notin {Lit, Wild}
      /\ \A o \in Objects : heap.count[o] \in Nat
  BY SurplusInt, Distinct DEF FInv, FTypeOK, SafeInv, NoTrap, ReturnOK, Pointers
<1>2. CASE LeaveFunction
  <2> DEFINE h == IF ret.how = "identifier" THEN Retain(heap, ret.val) ELSE heap
  <2>1. pc = "unwind" /\ depth > 1 /\ Back(h, ret.val) /\ ret.val \notin {Lit, Wild}
    BY <1>2, HoldsLive DEF LeaveFunction
  <2>2. HeapOK(h) /\ h.trap = "none"
    BY <1>1, HoldsLive, RetainHeap
  <2>3. ASSUME NEW o \in Objects PROVE h.count[o] >= heap.count[o]
    <3>1. CASE ret.how = "identifier"
      <4>1. h.count[o] = heap.count[o] + Same(ret.val, o)
        BY <1>1, <2>2, <3>1, CallCounts
      <4>2. Same(ret.val, o) \in {0, 1}
        BY DEF Same
      <4> HIDE DEF h
      <4>3. QED
        BY <1>1, <4>1, <4>2
    <3>2. CASE ret.how # "identifier"
      BY <1>1, <3>2
    <3>3. QED
      BY <3>1, <3>2
  <2> HIDE DEF h
  <2>4. QED
    BY <1>1, <2>1, <2>2, <2>3, BackSafe
<1>3. CASE ReturnVoid /\ depth > 1
  <2>1. pc = "run" /\ Back(heap, Null)
    BY <1>3 DEF ReturnVoid, Running
  <2>2. \A o \in Objects : heap.count[o] >= heap.count[o]
    BY <1>1
  <2>3. QED
    BY <1>1, <1>3, <2>1, <2>2, BackSafe
<1>4. CASE ReturnVoid /\ depth = 1
  <2>1. \A s \in Slots : slot'[s] = IF s = Global THEN slot[s] ELSE Absent
    BY <1>4, ReturnVoidMainF
  <2>2. UNCHANGED <<heap, ret>> /\ ret.how = "none"
    BY <1>1, <1>4 DEF ReturnVoid, Running
  <2>3. \A s \in OwningSlots : slot'[s] \notin {Lit, Wild}
    BY <2>1, SlotPairs, Distinct DEF SafeInv, OwnersSafe
  <2>4. \A d \in 1..MaxDepth : slot'[Param(d)] = Absent
    BY <2>1, SlotPairs
  <2>5. NoTrap' /\ ResultSafe'
    BY <1>1, <2>2 DEF NoTrap, ResultSafe
  <2>6. QED
    BY <2>3, <2>4, <2>5, SafeStep
<1>5. QED
  BY <1>1, <1>2, <1>3, <1>4

\* All three invariants hold in every state.
LEMMA SafetyInOrder == Spec => [](FInv /\ CountInv /\ SafeInv)
<1>1. Init => SafeInv
  <2> SUFFICES ASSUME Init PROVE SafeInv
    OBVIOUS
  <2>1. \A s \in Slots : slot[s] \in {Null, Absent}
    BY DEF Init
  <2>2. OwnersSafe /\ NoTrap /\ ResultSafe
    BY <2>1, SlotPairs, Distinct DEF Init, OwnersSafe, NoTrap, ResultSafe, NoResult
  <2>3. \A d \in 1..MaxDepth : ParamSafe(d)
    BY <2>1, SlotPairs, Distinct DEF ParamSafe
  <2>4. QED
    BY <2>2, <2>3 DEF SafeInv
<1>2. FInv /\ CountInv /\ SafeInv /\ [Next]_vars => SafeInv'
  <2> SUFFICES ASSUME FInv, CountInv, SafeInv, [Next]_vars PROVE SafeInv'
    OBVIOUS
  <2>1. CASE SafeProgram
    BY <2>1, StatementsSafe, CallsSafe, ReturnsSafe, LeavesSafe DEF Next
  <2>2. CASE ~SafeProgram
    <3>1. ~SafeProgram'
      BY <2>2, StepsOfProgram DEF SafeProgram, Headerless, Without, Aliasing
    <3>2. QED
      BY <3>1 DEF SafeInv
  <2>3. QED
    BY <2>1, <2>2
<1>3. QED
  BY <1>1, <1>2, CountsInOrder, PTL DEF Spec

\* A program with neither aliasing nor headerless pointers is memory safe: it retains and
\* releases live blocks only, and what its variables and parameters point to is live.
THEOREM ProgramsAreSafe == Spec => []MemorySafe
<1>1. FInv /\ CountInv /\ SafeInv => MemorySafe
  <2> SUFFICES ASSUME FInv, CountInv, SafeInv, SafeProgram
               PROVE  NoTrap /\ \A s \in Slots : slot[s] \in Objects => Live(heap, slot[s])
    BY DEF MemorySafe, SafeProgram
  <2>1. /\ NoTrap /\ Without(Aliasing) /\ (\A d \in 1..MaxDepth : ParamSafe(d)) /\ slot[Global] # Absent
        /\ \A o \in Objects : heap.state[o] = "live" <=> heap.count[o] > 0
    BY DEF SafeInv, SafeProgram, FInv, FTypeOK, HeapOK, FramesAbove
  <2>2. ASSUME NEW s \in Slots, slot[s] \in Objects PROVE heap.count[slot[s]] > 0
    <3>1. CASE s \in OwningSlots
      BY <2>1, <2>2, <3>1, OwnedCount
    <3>2. CASE s \notin OwningSlots
      <4>1. s[2] = 0 /\ s[1] \in 1..MaxDepth /\ s = Param(s[1])
        BY <3>2, SlotPairs DEF OwningSlots, Global, Param
      <4>2. Backed(s[1], slot[s])
        BY <2>1, <2>2, <4>1 DEF ParamSafe
      <4>3. QED
        BY <2>1, <2>2, <4>1, <4>2, OwnedCount
    <3>3. QED
      BY <3>1, <3>2
  <2>3. QED
    BY <2>1, <2>2 DEF Live
<1>2. QED
  BY <1>1, SafetyInOrder, PTL
=============================================================================
