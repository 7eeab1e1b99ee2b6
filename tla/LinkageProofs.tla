--------------------------- MODULE LinkageProofs ---------------------------
(***************************************************************************)
(* Proofs about imports and calls, for every set of programs: what of a    *)
(* source file an import reads (SourcesRead), what a using calls           *)
(* (UsingHolds), and that a call reaches nothing that it does not see      *)
(* (OnlyVisible, of programs in which no symbol is another's).             *)
(*                                                                         *)
(* The first part is about sequences: what Picked and FlattenSeq make of   *)
(* them.  The second reads a source file line by line: the reader is in a  *)
(* body just where the braces say that a line is in one.  The third is     *)
(* about names: where the dots are in a name tells of what it is one, so   *)
(* that a lookup finds no other.  Reading, DeclaredFrom and TypesFrom are  *)
(* the inductive invariants: what the code generator has of names, of      *)
(* functions and of their types when it is at a declaration.               *)
(***************************************************************************)
EXTENDS Linkage, FiniteSetTheorems, SequenceTheorems, WellFoundedInduction, TLAPS

\* A set of natural numbers has a least element.
LEMMA LeastIn ==
  ASSUME NEW T \in SUBSET Nat, T # {}
  PROVE  \E m \in T : \A n \in T : m <= n
<1> DEFINE R == OpToRel(<, Nat)
<1>1. IsWellFoundedOn(R, Nat)
  BY NatLessThanWellFounded
<1>2. \A x, y \in Nat : x < y => <<x, y>> \in R
  BY DEF OpToRel
<1> HIDE DEF R
<1>3. PICK m \in T : \A n \in T : <<n, m>> \notin R
  BY <1>1, WFMin
<1>4. \A n \in T : ~(n < m)
  BY <1>2, <1>3
<1>5. QED
  BY <1>4

\* Min is the least place of some.
LEMMA MinIs ==
  ASSUME NEW S \in SUBSET Nat, S # {}
  PROVE  Min(S) \in S /\ \A x \in S : Min(S) <= x
<1>1. \E m \in S : \A n \in S : m <= n
  BY LeastIn
<1>2. QED
  BY <1>1 DEF Min

\* Max is the greatest place of some.
LEMMA MaxIs ==
  ASSUME NEW k \in Nat, NEW S \in SUBSET (1 .. k), S # {}
  PROVE  Max(S) \in S /\ \A x \in S : x <= Max(S)
<1> DEFINE T == {k - x : x \in S}
<1>1. T \in SUBSET Nat /\ T # {}
  OBVIOUS
<1>2. PICK m \in T : \A n \in T : m <= n
  <2> HIDE DEF T
  <2> QED BY <1>1, LeastIn
<1>3. k - m \in S /\ \A x \in S : k - m >= x
  BY <1>2
<1>4. Max(S) \in S /\ \A x \in S : Max(S) >= x
  BY <1>3 DEF Max
<1>5. QED
  BY <1>4

\* Induction up to n.
LEMMA Forwards ==
  ASSUME NEW S, NEW n \in Nat, 0 \in S,
         \A m \in 0 .. n : (m < n /\ m \in S) => m + 1 \in S
  PROVE  0 .. n \subseteq S
<1> SUFFICES ASSUME NEW x \in 0 .. n, x \notin S PROVE FALSE
  OBVIOUS
<1> DEFINE T == {m \in 0 .. n : m \notin S}
<1>1. T \in SUBSET Nat /\ x \in T
  OBVIOUS
<1>2. PICK m \in T : \A k \in T : m <= k
  <2> HIDE DEF T
  <2> QED BY <1>1, LeastIn
<1>3. m # 0 /\ m - 1 \in 0 .. n /\ m - 1 < n /\ (m - 1) + 1 = m
  BY <1>2
<1>4. m - 1 \notin T
  BY <1>2, <1>3
<1>5. QED
  BY <1>2, <1>3, <1>4

\* f begins with v, and goes on from place to place by G, up to n.
Iterates(f, n, V, v, G) == f \in [0 .. n -> V] /\ f[0] = v /\ \A k \in 1 .. n : f[k] = G[k][f[k - 1]]

\* A definition by recursion on the place in front of it defines a function.
LEMMA Recursion ==
  ASSUME NEW n \in Nat, NEW V, NEW v \in V, NEW G, \A k \in 1 .. n, x \in V : G[k][x] \in V
  PROVE  \E f : Iterates(f, n, V, v, G)
<1> DEFINE To(m, f) == f = [k \in 0 .. m |-> IF k = 0 THEN v ELSE G[k][f[k - 1]]]
           S == {m \in 0 .. n : \E f \in [0 .. m -> V] : To(m, f)}
<1>1. 0 \in S
  <2> DEFINE f == [k \in 0 .. 0 |-> v]
  <2>1. f \in [0 .. 0 -> V] /\ f = [k \in 0 .. 0 |-> IF k = 0 THEN v ELSE G[k][f[k - 1]]]
    OBVIOUS
  <2> HIDE DEF f
  <2>2. 0 \in 0 .. n
    OBVIOUS
  <2>3. QED
    BY <2>1, <2>2
<1>2. ASSUME NEW m \in 0 .. n, m < n, m \in S PROVE m + 1 \in S
  <2>1. PICK f \in [0 .. m -> V] : To(m, f)
    BY <1>2
  <2> DEFINE g == [k \in 0 .. m + 1 |-> IF k = m + 1 THEN G[k][f[m]] ELSE f[k]]
  <2>2. f[m] \in V /\ m + 1 \in 1 .. n
    BY <1>2
  <2>3. G[m + 1][f[m]] \in V
    BY <2>2
  <2>4. g \in [0 .. m + 1 -> V]
    BY <2>3
  <2>5. ASSUME NEW k \in 0 .. m + 1 PROVE g[k] = IF k = 0 THEN v ELSE G[k][g[k - 1]]
    <3>1. CASE k = m + 1
      <4>1. k # 0 /\ k - 1 = m /\ m \in 0 .. m + 1 /\ m # m + 1
        BY <3>1
      <4>2. g[k] = G[k][f[m]] /\ g[k - 1] = f[m]
        BY <3>1, <4>1
      <4>3. QED
        BY <4>1, <4>2
    <3>2. CASE k # m + 1
      <4>1. k \in 0 .. m /\ (k # 0 => k - 1 \in 0 .. m /\ k - 1 \in 0 .. m + 1 /\ k - 1 # m + 1)
        BY <3>2
      <4>2. g[k] = f[k] /\ (k # 0 => g[k - 1] = f[k - 1])
        BY <3>2, <4>1
      <4>3. f[k] = IF k = 0 THEN v ELSE G[k][f[k - 1]]
        BY <2>1, <4>1
      <4>4. QED
        BY <4>2, <4>3
    <3>3. QED
      BY <3>1, <3>2
  <2> HIDE DEF g
  <2>6. To(m + 1, g)
    BY <2>4, <2>5
  <2>7. QED
    BY <1>2, <2>4, <2>6
<1>3. n \in S
  <2> HIDE DEF S
  <2> QED BY <1>1, <1>2, Forwards
<1>4. PICK f \in [0 .. n -> V] : To(n, f)
  BY <1>3
<1>5. \A k \in 1 .. n : k \in 0 .. n /\ k # 0
  OBVIOUS
<1>6. Iterates(f, n, V, v, G)
  BY <1>4, <1>5 DEF Iterates
<1>7. QED
  BY <1>6

-----------------------------------------------------------------------------
(* Sequences.                                                              *)

\* The elements of a sequence that is made of others.
LEMMA ElementsOf ==
  ASSUME NEW S
  PROVE  /\ ToSet(<<>>) = {}
         /\ \A s \in Seq(S) : ToSet(s) \subseteq S /\ ToSet(s) = {s[i] : i \in 1 .. Len(s)}
         /\ \A s \in Seq(S), x \in S : ToSet(Append(s, x)) = ToSet(s) \cup {x}
         /\ \A s, t \in Seq(S) : ToSet(s \o t) = ToSet(s) \cup ToSet(t)
<1>1. ToSet(<<>>) = {}
  BY DEF ToSet
<1>2. ASSUME NEW s \in Seq(S) PROVE ToSet(s) \subseteq S /\ ToSet(s) = {s[i] : i \in 1 .. Len(s)}
  BY DEF ToSet
<1>3. ASSUME NEW s \in Seq(S), NEW x \in S PROVE ToSet(Append(s, x)) = ToSet(s) \cup {x}
  <2>1. /\ DOMAIN Append(s, x) = 1 .. Len(s) + 1 /\ DOMAIN s = 1 .. Len(s) /\ Len(s) \in Nat
        /\ \A i \in 1 .. Len(s) : Append(s, x)[i] = s[i]
        /\ Append(s, x)[Len(s) + 1] = x
    OBVIOUS
  <2>2. \A i \in 1 .. Len(s) + 1 : i = Len(s) + 1 \/ i \in 1 .. Len(s)
    BY <2>1
  <2>3. QED
    BY <2>1, <2>2 DEF ToSet
<1>4. ASSUME NEW s \in Seq(S), NEW t \in Seq(S) PROVE ToSet(s \o t) = ToSet(s) \cup ToSet(t)
  <2>1. /\ DOMAIN (s \o t) = 1 .. Len(s) + Len(t) /\ DOMAIN s = 1 .. Len(s) /\ DOMAIN t = 1 .. Len(t)
        /\ Len(s) \in Nat /\ Len(t) \in Nat
        /\ \A i \in 1 .. Len(s) : (s \o t)[i] = s[i]
    OBVIOUS
  <2>2. \A i \in 1 .. Len(t) : Len(s) + i \in 1 .. Len(s) + Len(t) /\ (s \o t)[Len(s) + i] = t[i]
    OBVIOUS
  <2>3. ASSUME NEW i \in 1 .. Len(s) + Len(t), i \notin 1 .. Len(s)
        PROVE  i - Len(s) \in 1 .. Len(t) /\ (s \o t)[i] = t[i - Len(s)]
    <3>1. i - Len(s) \in 1 .. Len(t) /\ Len(s) + (i - Len(s)) = i
      BY <2>1, <2>3
    <3>2. QED
      BY <2>2, <3>1
  <2>4. \A i \in 1 .. Len(s) : i \in 1 .. Len(s) + Len(t)
    BY <2>1
  <2>5. ToSet(s \o t) \subseteq ToSet(s) \cup ToSet(t)
    BY <2>1, <2>3 DEF ToSet
  <2>6. ToSet(s) \subseteq ToSet(s \o t) /\ ToSet(t) \subseteq ToSet(s \o t)
    BY <2>1, <2>2, <2>4 DEF ToSet
  <2>7. QED
    BY <2>5, <2>6
<1>5. QED
  BY <1>1, <1>2, <1>3, <1>4

\* p picks what is at the places I of s, place by place.
Picks(p, s, I, S) ==
  /\ p \in [0 .. Len(s) -> Seq(S)] /\ p[0] = <<>>
  /\ \A n \in 1 .. Len(s) : p[n] = IF n \in I THEN Append(p[n - 1], s[n]) ELSE p[n - 1]

\* Picked goes through the sequence place by place.
LEMMA PickedSteps ==
  ASSUME NEW S, NEW s \in Seq(S), NEW I
  PROVE  \E p : Picks(p, s, I, S) /\ Picked(s, I) = p[Len(s)]
<1> DEFINE Step(p) == [n \in 0 .. Len(s) |-> IF n = 0 THEN <<>> ELSE
                                            IF n \in I THEN Append(p[n - 1], s[n]) ELSE p[n - 1]]
           G == [n \in 1 .. Len(s) |-> [q \in Seq(S) |-> IF n \in I THEN Append(q, s[n]) ELSE q]]
           picked == CHOOSE p : p = Step(p)
<1>1. Len(s) \in Nat /\ <<>> \in Seq(S) /\ \A n \in 1 .. Len(s) : s[n] \in S
  OBVIOUS
<1>2. \A n \in 1 .. Len(s), q \in Seq(S) : G[n][q] = (IF n \in I THEN Append(q, s[n]) ELSE q) /\ G[n][q] \in Seq(S)
  BY <1>1
<1>3. PICK p \in [0 .. Len(s) -> Seq(S)] : p[0] = <<>> /\ \A n \in 1 .. Len(s) : p[n] = G[n][p[n - 1]]
  <2>1. \A n \in 1 .. Len(s), q \in Seq(S) : G[n][q] \in Seq(S)
    BY <1>2
  <2> HIDE DEF G
  <2>2. \E p : Iterates(p, Len(s), Seq(S), <<>>, G)
    BY <1>1, <2>1, Recursion
  <2>3. QED
    BY <2>2 DEF Iterates
<1>4. p = Step(p)
  <2>1. ASSUME NEW n \in 1 .. Len(s) PROVE G[n][p[n - 1]] = IF n \in I THEN Append(p[n - 1], s[n]) ELSE p[n - 1]
    <3>1. n - 1 \in 0 .. Len(s)
      BY <1>1
    <3>2. p[n - 1] \in Seq(S)
      BY <3>1
    <3>3. QED
      BY <1>2, <3>2
  <2> HIDE DEF G
  <2>2. \A n \in 0 .. Len(s) : n # 0 => n \in 1 .. Len(s)
    BY <1>1
  <2>3. \A n \in 0 .. Len(s) : p[n] = Step(p)[n]
    BY <1>3, <2>1, <2>2
  <2>4. DOMAIN p = 0 .. Len(s) /\ p = [n \in 0 .. Len(s) |-> p[n]]
    OBVIOUS
  <2>5. QED
    BY <2>3, <2>4
<1>5. picked = Step(picked)
  BY <1>4
<1>6. Picked(s, I) = picked[Len(s)]
  BY DEF Picked
<1> DEFINE T == {n \in 0 .. Len(s) : picked[n] \in Seq(S)}
<1> HIDE DEF picked
<1>7. 0 .. Len(s) \subseteq T
  <2>1. 0 \in T
    BY <1>1, <1>5
  <2>2. ASSUME NEW m \in 0 .. Len(s), m < Len(s), m \in T PROVE m + 1 \in T
    <3>1. m + 1 \in 0 .. Len(s) /\ m + 1 \in 1 .. Len(s) /\ (m + 1) - 1 = m /\ m + 1 # 0
      BY <1>1, <2>2
    <3>2. picked[m + 1] = IF m + 1 \in I THEN Append(picked[m], s[m + 1]) ELSE picked[m]
      BY <1>5, <3>1
    <3>3. picked[m] \in Seq(S) /\ s[m + 1] \in S
      BY <1>1, <2>2, <3>1
    <3>4. picked[m + 1] \in Seq(S)
      BY <3>2, <3>3
    <3>5. QED
      BY <3>1, <3>4
  <2> HIDE DEF T
  <2>3. QED
    BY <1>1, <2>1, <2>2, Forwards
<1>8. picked \in [0 .. Len(s) -> Seq(S)]
  <2>1. picked = [n \in 0 .. Len(s) |-> picked[n]]
    BY <1>5
  <2>2. QED
    BY <1>7, <2>1
<1>9. picked[0] = <<>>
  BY <1>1, <1>5
<1>10. \A n \in 1 .. Len(s) : picked[n] = IF n \in I THEN Append(picked[n - 1], s[n]) ELSE picked[n - 1]
  <2>1. \A n \in 1 .. Len(s) : n \in 0 .. Len(s) /\ n # 0
    BY <1>1
  <2>2. QED
    BY <1>5, <2>1
<1>11. Picks(picked, s, I, S)
  BY <1>8, <1>9, <1>10 DEF Picks
<1>12. QED
  BY <1>6, <1>11

\* Picked is a sequence of what is at the places.
LEMMA PickedIs ==
  ASSUME NEW S, NEW s \in Seq(S), NEW I
  PROVE  Picked(s, I) \in Seq(S) /\ ToSet(Picked(s, I)) = {s[n] : n \in I \cap DOMAIN s}
<1>0. PICK p : Picks(p, s, I, S) /\ Picked(s, I) = p[Len(s)]
  BY PickedSteps
<1>1. /\ p \in [0 .. Len(s) -> Seq(S)] /\ p[0] = <<>>
      /\ \A n \in 1 .. Len(s) : p[n] = IF n \in I THEN Append(p[n - 1], s[n]) ELSE p[n - 1]
  BY <1>0 DEF Picks
<1>2. Len(s) \in Nat /\ DOMAIN s = 1 .. Len(s) /\ \A n \in 1 .. Len(s) : s[n] \in S
  OBVIOUS
<1> DEFINE T == {n \in 0 .. Len(s) : ToSet(p[n]) = {s[k] : k \in I \cap (1 .. n)}}
<1>3. 0 \in T
  BY <1>1, <1>2, ElementsOf
<1>4. ASSUME NEW m \in 0 .. Len(s), m < Len(s), m \in T PROVE m + 1 \in T
  <2>1. m + 1 \in 0 .. Len(s) /\ m + 1 \in 1 .. Len(s) /\ (m + 1) - 1 = m
    BY <1>2, <1>4
  <2>2. p[m + 1] = IF m + 1 \in I THEN Append(p[m], s[m + 1]) ELSE p[m]
    BY <1>1, <2>1
  <2>3. p[m] \in Seq(S) /\ s[m + 1] \in S
    BY <1>1, <1>2, <2>1
  <2>4. ToSet(Append(p[m], s[m + 1])) = ToSet(p[m]) \cup {s[m + 1]}
    BY <2>3, ElementsOf
  <2>5. 1 .. m + 1 = (1 .. m) \cup {m + 1}
    BY <1>2
  <2>6. CASE m + 1 \in I
    <3>1. I \cap (1 .. m + 1) = (I \cap (1 .. m)) \cup {m + 1}
      BY <2>5, <2>6
    <3>2. QED
      BY <1>4, <2>1, <2>2, <2>4, <2>6, <3>1
  <2>7. CASE m + 1 \notin I
    <3>1. I \cap (1 .. m + 1) = I \cap (1 .. m)
      BY <2>5, <2>7
    <3>2. QED
      BY <1>4, <2>1, <2>2, <2>7, <3>1
  <2>8. QED
    BY <2>6, <2>7
<1>5. Len(s) \in T
  <2> HIDE DEF T
  <2>1. 0 .. Len(s) \subseteq T
    BY <1>2, <1>3, <1>4, Forwards
  <2>2. QED
    BY <1>2, <2>1
<1>6. QED
  BY <1>0, <1>1, <1>2, <1>5

\* OfKind is a sequence of what has the kind.
LEMMA OfKindIs ==
  ASSUME NEW S, NEW s \in Seq(S), NEW kind
  PROVE  /\ OfKind(s, kind) \in Seq({x \in S : x.kind = kind})
         /\ ToSet(OfKind(s, kind)) = {x \in ToSet(s) : x.kind = kind}
<1> DEFINE I == {n \in DOMAIN s : s[n].kind = kind}
<1>1. OfKind(s, kind) = Picked(s, I)
  BY DEF OfKind
<1>2. Picked(s, I) \in Seq(S) /\ ToSet(Picked(s, I)) = {s[n] : n \in I \cap DOMAIN s}
  <2> HIDE DEF I
  <2> QED BY PickedIs
<1>3. {s[n] : n \in I \cap DOMAIN s} = {x \in ToSet(s) : x.kind = kind}
  BY DEF ToSet
<1> HIDE DEF I
<1>4. \A n \in 1 .. Len(Picked(s, I)) : Picked(s, I)[n] \in {x \in S : x.kind = kind}
  <2>1. ToSet(Picked(s, I)) = {x \in ToSet(s) : x.kind = kind}
    BY <1>2, <1>3
  <2>2. \A n \in 1 .. Len(Picked(s, I)) : Picked(s, I)[n] \in ToSet(Picked(s, I)) /\ Picked(s, I)[n] \in S
    BY <1>2 DEF ToSet
  <2>3. QED
    BY <2>1, <2>2
<1>5. Picked(s, I) \in Seq({x \in S : x.kind = kind})
  BY <1>2, <1>4
<1>6. QED
  BY <1>1, <1>2, <1>3, <1>5

\* f puts the sequences together, one after the other.
Flattens(f, ss) == \A i \in 1 .. Len(ss) : f[i] = IF i = 1 THEN ss[i] ELSE f[i - 1] \o ss[i]

\* A function on the numbers from 1 to n is a sequence of that length.
LEMMA FunctionIsSequence ==
  ASSUME NEW S, NEW n \in Nat, NEW f \in [1 .. n -> S]
  PROVE  f \in Seq(S) /\ Len(f) = n
<1>1. f \in Seq(S)
  OBVIOUS
<1>2. DOMAIN f = 1 .. n /\ Len(f) \in Nat /\ DOMAIN f = 1 .. Len(f)
  BY <1>1
<1>3. QED
  BY <1>1, <1>2

\* FlattenSeq as a row of partial results.
LEMMA FlattenSteps ==
  ASSUME NEW S, NEW ss \in Seq(Seq(S)), Len(ss) # 0
  PROVE  \E f : Flattens(f, ss) /\ FlattenSeq(ss) = f[Len(ss)]
<1> DEFINE n == Len(ss)
           Step(f) == [i \in 1 .. n |-> IF i = 1 THEN ss[i] ELSE f[i - 1] \o ss[i]]
           G == [i \in 1 .. n |-> [t \in Seq(S) |-> t \o ss[i]]]
           flatten == CHOOSE f : f = Step(f)
<1>1. n = Len(ss) /\ n # 0
  OBVIOUS
<1>2. n \in Nat /\ <<>> \in Seq(S) /\ \A i \in 1 .. n : ss[i] \in Seq(S)
  OBVIOUS
<1> HIDE DEF n
<1>3. \A i \in 1 .. n, t \in Seq(S) : G[i][t] = t \o ss[i] /\ G[i][t] \in Seq(S)
  BY <1>2
<1> HIDE DEF G
<1>4. PICK f : Iterates(f, n, Seq(S), <<>>, G)
  <2>1. \A i \in 1 .. n, t \in Seq(S) : G[i][t] \in Seq(S)
    BY <1>3
  <2>2. QED
    BY <1>2, <2>1, Recursion
<1>5. \A i \in 1 .. n : f[i - 1] \in Seq(S) /\ f[i] = f[i - 1] \o ss[i]
  <2>1. \A i \in 1 .. n : i - 1 \in 0 .. n
    BY <1>2
  <2>2. QED
    BY <1>3, <1>4, <2>1 DEF Iterates
<1> DEFINE g == [i \in 1 .. n |-> f[i]]
<1>6. g = Step(g)
  <2>1. ASSUME NEW i \in 1 .. n PROVE g[i] = Step(g)[i]
    <3>1. CASE i = 1
      <4>1. i - 1 = 0 /\ f[0] = <<>>
        BY <1>4, <3>1 DEF Iterates
      <4>2. f[i] = <<>> \o ss[i]
        BY <1>5, <4>1
      <4>3. QED
        BY <1>2, <3>1, <4>2
    <3>2. CASE i # 1
      <4>1. i - 1 \in 1 .. n
        BY <1>2, <3>2
      <4>2. QED
        BY <1>5, <3>2, <4>1
    <3>3. QED
      BY <3>1, <3>2
  <2>2. QED
    BY <2>1
<1>7. flatten = Step(flatten)
  <2> HIDE DEF g
  <2>1. \E f_1 : f_1 = Step(f_1)
    BY <1>6
  <2>2. QED
    BY <2>1
<1>8. FlattenSeq(ss) = flatten[n]
  BY <1>1 DEF FlattenSeq
<1> HIDE DEF flatten
<1>9. \A i \in 1 .. n : flatten[i] = IF i = 1 THEN ss[i] ELSE flatten[i - 1] \o ss[i]
  BY <1>7
<1>10. QED
  BY <1>1, <1>8, <1>9 DEF Flattens

\* FlattenSeq is a sequence of what is in the sequences.
LEMMA FlattenIs ==
  ASSUME NEW S, NEW ss \in Seq(Seq(S))
  PROVE  FlattenSeq(ss) \in Seq(S) /\ ToSet(FlattenSeq(ss)) = UNION {ToSet(ss[i]) : i \in DOMAIN ss}
<1> DEFINE n == Len(ss)
<1>1. n = Len(ss)
  OBVIOUS
<1>2. n \in Nat /\ DOMAIN ss = 1 .. n /\ <<>> \in Seq(S) /\ \A i \in 1 .. n : ss[i] \in Seq(S)
  OBVIOUS
<1> HIDE DEF n
<1>3. CASE n = 0
  <2>1. ss = <<>>
    BY <1>1, <1>3, EmptySeq
  <2>2. FlattenSeq(ss) = ss
    BY <1>1, <1>3, <2>1 DEF FlattenSeq
  <2>3. ToSet(<<>>) = {} /\ DOMAIN ss = {}
    BY <1>2, <1>3, ElementsOf
  <2>4. {ToSet(ss[i]) : i \in DOMAIN ss} = {}
    BY <2>3
  <2>5. QED
    BY <1>2, <2>1, <2>2, <2>3, <2>4
<1>4. CASE n # 0
  <2>1. PICK f : Flattens(f, ss) /\ FlattenSeq(ss) = f[n]
    BY <1>1, <1>4, FlattenSteps
  <2>2. \A i \in 1 .. n : f[i] = IF i = 1 THEN ss[i] ELSE f[i - 1] \o ss[i]
    BY <1>1, <2>1 DEF Flattens
  <2> DEFINE All(k) == UNION {ToSet(ss[i]) : i \in 1 .. k}
             T == {m \in 0 .. n : m # 0 => f[m] \in Seq(S) /\ ToSet(f[m]) = All(m)}
  <2>3. 0 \in T
    BY <1>2
  <2>4. ASSUME NEW m \in 0 .. n, m < n, m \in T PROVE m + 1 \in T
    <3>1. m + 1 \in 1 .. n /\ m + 1 # 0 /\ (m + 1) - 1 = m /\ 1 .. m + 1 = (1 .. m) \cup {m + 1}
      BY <1>2, <2>4
    <3>2. All(m + 1) = All(m) \cup ToSet(ss[m + 1])
      BY <3>1
    <3>3. ss[m + 1] \in Seq(S)
      BY <1>2, <3>1
    <3>4. f[m + 1] \in Seq(S) /\ ToSet(f[m + 1]) = All(m + 1)
      <4>1. CASE m = 0
        <5>1. m + 1 = 1 /\ f[m + 1] = ss[m + 1]
          BY <2>2, <3>1, <4>1
        <5>2. All(m) = {}
          BY <4>1
        <5> HIDE DEF All
        <5>3. QED
          BY <3>2, <3>3, <5>1, <5>2
      <4>2. CASE m # 0
        <5>1. f[m] \in Seq(S) /\ ToSet(f[m]) = All(m)
          BY <2>4, <4>2
        <5>2. m + 1 # 1
          BY <1>2, <4>2
        <5>3. f[m + 1] = f[m] \o ss[m + 1]
          BY <2>2, <3>1, <5>2
        <5> HIDE DEF All
        <5>4. ToSet(f[m + 1]) = ToSet(f[m]) \cup ToSet(ss[m + 1])
          BY <3>3, <5>1, <5>3, ElementsOf
        <5>5. f[m + 1] \in Seq(S)
          BY <3>3, <5>1, <5>3
        <5>6. QED
          BY <3>2, <5>1, <5>4, <5>5
      <4>3. QED
        BY <4>1, <4>2
    <3>5. QED
      BY <1>2, <2>4, <3>4
  <2>5. n \in T
    <3> HIDE DEF T
    <3>1. 0 .. n \subseteq T
      BY <1>2, <2>3, <2>4, Forwards
    <3>2. QED
      BY <1>2, <3>1
  <2>6. QED
    BY <1>2, <1>4, <2>1, <2>5
<1>5. QED
  BY <1>3, <1>4

\* FlattenSeq of one or two sequences.
LEMMA FlattenFew ==
  ASSUME NEW S, NEW s \in Seq(S), NEW t \in Seq(S)
  PROVE  FlattenSeq(<<>>) = <<>> /\ FlattenSeq(<<s>>) = s /\ FlattenSeq(<<s, t>>) = s \o t
<1>1. FlattenSeq(<<>>) = <<>>
  BY DEF FlattenSeq
<1>2. FlattenSeq(<<s>>) = s
  <2> DEFINE ss == <<s>>
  <2>1. ss \in Seq(Seq(S)) /\ Len(ss) # 0 /\ Len(ss) = 1 /\ ss[1] = s
    OBVIOUS
  <2> HIDE DEF ss
  <2>2. PICK f : Flattens(f, ss) /\ FlattenSeq(ss) = f[Len(ss)]
    BY <2>1, FlattenSteps
  <2>3. f[1] = s
    BY <2>1, <2>2 DEF Flattens
  <2>4. QED
    BY <2>1, <2>2, <2>3 DEF ss
<1>3. FlattenSeq(<<s, t>>) = s \o t
  <2> DEFINE ss == <<s, t>>
  <2>1. ss \in Seq(Seq(S)) /\ Len(ss) # 0 /\ Len(ss) = 2 /\ ss[1] = s /\ ss[2] = t
    OBVIOUS
  <2> HIDE DEF ss
  <2>2. PICK f : Flattens(f, ss) /\ FlattenSeq(ss) = f[Len(ss)]
    BY <2>1, FlattenSteps
  <2>3. 1 \in 1 .. Len(ss) /\ 2 \in 1 .. Len(ss) /\ 2 - 1 = 1
    BY <2>1
  <2>4. f[1] = s /\ f[2] = f[1] \o t
    BY <2>1, <2>2, <2>3 DEF Flattens
  <2>5. QED
    BY <2>1, <2>2, <2>4 DEF ss
<1>4. QED
  BY <1>1, <1>2, <1>3

-----------------------------------------------------------------------------
(* What the readers of files find.                                         *)

\* The pieces of a name in the object file.
Pieces ==
  Parts \cup {"_pC", "p", "i", "2"} \cup {LetterOf[t] : t \in DOMAIN LetterOf} \cup {InitialOf[t] : t \in DOMAIN InitialOf}

\* No piece is a dot.
LEMMA PiecesAreNotDots == "." \notin Pieces
<1>1. \A t \in DOMAIN LetterOf : LetterOf[t] # "."
  BY DEF LetterOf
<1>2. \A t \in DOMAIN InitialOf : InitialOf[t] # "."
  BY DEF InitialOf
<1>3. QED
  BY <1>1, <1>2 DEF Pieces, Parts

\* The letters of a type, by either table, are parts of a name.
LEMMA LettersArePieces ==
  \A t \in KnownTypes : Letters(t) \in Seq(Pieces) /\ PcLetters(t) \in Seq(Pieces)
<1>1. /\ \A t \in DOMAIN LetterOf : LetterOf[t] \in Pieces
      /\ \A t \in DOMAIN InitialOf : InitialOf[t] \in Pieces
      /\ "p" \in Pieces /\ "i" \in Pieces
  BY DEF Pieces
<1>2. ASSUME NEW t \in KnownTypes PROVE Letters(t) \in Seq(Pieces)
  <2>1. CASE t \in Pointers
    BY <1>1, <2>1 DEF Letters
  <2>2. CASE t \notin Pointers /\ t \in DOMAIN LetterOf
    BY <1>1, <2>2 DEF Letters
  <2>3. CASE t \notin Pointers /\ t \notin DOMAIN LetterOf
    <3>1. InitialOf[t] \in Pieces
      BY <1>1, <2>3 DEF KnownTypes
    <3>2. QED
      BY <1>1, <2>3, <3>1 DEF Letters
  <2>4. QED
    BY <2>1, <2>2, <2>3
<1>3. {"i64", "u64"} \subseteq DOMAIN InitialOf
  BY DEF InitialOf
<1>4. ASSUME NEW t \in KnownTypes PROVE PcLetters(t) \in Seq(Pieces)
  <2>1. CASE t \in {"int", "long"}
    BY <1>1, <2>1 DEF PcLetters
  <2>2. CASE t \notin {"int", "long"} /\ t \in {"i64", "u64"}
    <3>1. InitialOf[t] \in Pieces
      BY <1>1, <1>3, <2>2
    <3>2. QED
      BY <1>1, <2>2, <3>1 DEF PcLetters
  <2>3. CASE t \notin {"int", "long"} /\ t \notin {"i64", "u64"}
    BY <1>2, <2>3 DEF PcLetters
  <2>4. QED
    BY <2>1, <2>2, <2>3
<1>5. QED
  BY <1>2, <1>4

\* So are the letters of a list of types.
LEMMA LettersOfArePieces ==
  ASSUME NEW ts \in Seq(KnownTypes)
  PROVE  LettersOf(ts, Letters) \in Seq(Pieces) /\ LettersOf(ts, PcLetters) \in Seq(Pieces)
<1>1. DOMAIN ts = 1 .. Len(ts) /\ Len(ts) \in Nat /\ \A i \in 1 .. Len(ts) : ts[i] \in KnownTypes
  OBVIOUS
<1>2. [i \in DOMAIN ts |-> Letters(ts[i])] \in Seq(Seq(Pieces))
  BY <1>1, LettersArePieces
<1>3. [i \in DOMAIN ts |-> PcLetters(ts[i])] \in Seq(Seq(Pieces))
  BY <1>1, LettersArePieces
<1>4. QED
  BY <1>2, <1>3, FlattenIs DEF LettersOf

\* Functions of a header, of a source file, and methods.
EntryForms ==
  [kind : {"function"}, pc : Seq(Pieces), orig : FullNames, symbol : Seq(Pieces), ret : STRING,
   params : Seq(KnownTypes)]
HeaderFunctions == {e \in EntryForms : e.pc = Mangled(e.orig, LettersOf(e.params, Letters))}
PcFunctions     == {e \in EntryForms : e.pc = Mangled(e.orig, LettersOf(e.params, PcLetters)) /\ e.symbol = e.pc}
MethodEntries   ==
  {e \in EntryForms : \E ts \in Seq(KnownTypes) : /\ e.params = <<"long">> \o ts
                                                 /\ e.pc = Mangled(e.orig, <<"2">> \o LettersOf(ts, Letters))}
ClassEntries    == [kind : {"class"}, name : Parts, methods : Seq(MethodEntries)]

EntriesIn(kind) == IF kind = "pc" THEN PcFunctions ELSE HeaderFunctions \cup ClassEntries

\* The types of parameters are types that have letters.
LEMMA TypesOfAreKnown ==
  ASSUME NEW params \in Seq(ParamForms)
  PROVE  TypesOf(params) \in Seq(KnownTypes)
<1> DEFINE I == {i \in DOMAIN params : params[i].named}
           typed == Picked(params, I)
<1>1. typed \in Seq(ParamForms)
  <2> HIDE DEF I
  <2> QED BY PickedIs
<1>2. TypesOf(params) = [i \in DOMAIN typed |-> typed[i].type]
  BY DEF TypesOf
<1> HIDE DEF typed
<1>3. \A p \in ParamForms : p.type \in KnownTypes
  BY DEF ParamForms
<1>4. [i \in DOMAIN typed |-> typed[i].type] \in Seq(KnownTypes)
  BY <1>1, <1>3
<1>5. QED
  BY <1>2, <1>4

\* A line with a function becomes an entry of its file.
LEMMA LineEntries ==
  ASSUME NEW line \in FunctionLines
  PROVE  HeaderFunction(line) \in HeaderFunctions /\ PcFunction(line) \in PcFunctions /\ HeaderMethod(line) \in MethodEntries
<1> DEFINE ts == TypesOf(line.params)
<1>1. /\ line.name \in FullNames /\ line.params \in Seq(ParamForms) /\ line.ret \in STRING
      /\ line.symbol \in Seq(Pieces)
  <2>1. line.symbol \in Seq(Parts) /\ Parts \subseteq Pieces
    BY DEF FunctionLines, Pieces
  <2>2. QED
    BY <2>1 DEF FunctionLines
<1>2. ts \in Seq(KnownTypes)
  BY <1>1, TypesOfAreKnown
<1> HIDE DEF ts
<1>3. LettersOf(ts, Letters) \in Seq(Pieces) /\ LettersOf(ts, PcLetters) \in Seq(Pieces)
  BY <1>2, LettersOfArePieces
<1>4. line.name \in Seq(Pieces) /\ "_pC" \in Pieces /\ "2" \in Pieces /\ "long" \in KnownTypes
  <2>1. line.name \in Seq(Parts) /\ Parts \subseteq Pieces
    BY <1>1 DEF FullNames, Pieces
  <2>2. "_pC" \in Pieces /\ "2" \in Pieces /\ "long" \in KnownTypes
    BY DEF Pieces, KnownTypes, LetterOf
  <2>3. QED
    BY <2>1, <2>2
<1>5. \A letters \in Seq(Pieces) : Mangled(line.name, letters) \in Seq(Pieces)
  BY <1>4 DEF Mangled
<1>6. ASSUME NEW letters \in Seq(Pieces), NEW symbol \in Seq(Pieces), NEW us \in Seq(KnownTypes)
      PROVE  LET e == Entry(line.name, letters, symbol, line.ret, us)
             IN  /\ e \in EntryForms /\ e.pc = Mangled(line.name, letters) /\ e.orig = line.name
                 /\ e.symbol = symbol /\ e.params = us
  BY <1>1, <1>5, <1>6 DEF Entry, EntryForms
<1>7. HeaderFunction(line) \in HeaderFunctions
  BY <1>1, <1>2, <1>3, <1>6 DEF HeaderFunction, HeaderFunctions, ts
<1>8. PcFunction(line) \in PcFunctions
  BY <1>2, <1>3, <1>5, <1>6 DEF PcFunction, PcFunctions, ts
<1>9. HeaderMethod(line) \in MethodEntries
  <2> DEFINE ls == <<"2">> \o LettersOf(ts, Letters)
             us == <<"long">> \o ts
  <2>1. ls \in Seq(Pieces) /\ us \in Seq(KnownTypes)
    BY <1>2, <1>3, <1>4
  <2> HIDE DEF ls, us
  <2> DEFINE e == Entry(line.name, ls, line.symbol, line.ret, us)
  <2>2. e \in EntryForms /\ e.pc = Mangled(line.name, ls) /\ e.orig = line.name /\ e.params = us
    BY <1>1, <1>6, <2>1
  <2>3. HeaderMethod(line) = e
    BY DEF HeaderMethod, ts, ls, us
  <2> HIDE DEF e
  <2>4. e \in MethodEntries
    BY <1>2, <2>2 DEF MethodEntries, ls, us
  <2>5. QED
    BY <2>3, <2>4
<1>10. QED
  BY <1>7, <1>8, <1>9

LineForms == FunctionLines \cup OtherLines \cup LinkLines \cup ClassLines

\* The kind of a line tells its form.
LEMMA LineKinds ==
  ASSUME NEW line \in LineForms
  PROVE  /\ line.kind = "function" => line \in FunctionLines
         /\ line.kind = "class" => line \in ClassLines
         /\ line.braces \in BraceForms
BY DEF LineForms, FunctionLines, OtherLines, LinkLines, ClassLines

\* A class line of a header gives an entry of a class.
LEMMA ClassLineEntries ==
  ASSUME NEW line \in ClassLines
  PROVE  HeaderClass(line) \in ClassEntries
<1> DEFINE methods == OfKind(line.methods, "function")
<1>1. line.name \in Parts /\ line.methods \in Seq(FunctionLines \cup OtherLines)
  BY DEF ClassLines
<1>2. methods \in Seq({l \in FunctionLines \cup OtherLines : l.kind = "function"})
  BY <1>1, OfKindIs
<1>3. HeaderClass(line) =
        [kind |-> "class", name |-> line.name, methods |-> [i \in DOMAIN methods |-> HeaderMethod(methods[i])]]
  BY DEF HeaderClass
<1> HIDE DEF methods
<1>4. \A i \in DOMAIN methods : methods[i] \in FunctionLines
  <2>1. \A i \in DOMAIN methods : methods[i] \in LineForms /\ methods[i].kind = "function"
    BY <1>2 DEF LineForms
  <2>2. QED
    BY <2>1, LineKinds
<1>5. \A i \in DOMAIN methods : HeaderMethod(methods[i]) \in MethodEntries
  BY <1>4, LineEntries
<1>6. [i \in DOMAIN methods |-> HeaderMethod(methods[i])] \in Seq(MethodEntries)
  BY <1>2, <1>5
<1>7. QED
  BY <1>1, <1>3, <1>6 DEF ClassEntries

\* What is read of a header: functions of headers and classes.
LEMMA HeaderEntriesIs ==
  ASSUME NEW file \in FileForms
  PROVE  HeaderEntries(file) \in Seq(HeaderFunctions \cup ClassEntries)
<1> DEFINE I == {n \in DOMAIN file.lines : \/ file.lines[n].kind = "function"
                                           \/ file.lines[n].kind = "class" /\ file.lines[n].braces # <<>>}
           read == Picked(file.lines, I)
<1>1. file.lines \in Seq(LineForms)
  BY DEF FileForms, LineForms
<1>2. HeaderEntries(file) = [i \in DOMAIN read |-> HeaderEntry(read[i])]
  BY DEF HeaderEntries
<1>3. \A n \in I \cap DOMAIN file.lines : file.lines[n].kind \in {"function", "class"}
  OBVIOUS
<1> HIDE DEF I
<1>4. read \in Seq(LineForms) /\ ToSet(read) = {file.lines[n] : n \in I \cap DOMAIN file.lines}
  BY <1>1, PickedIs
<1> HIDE DEF read
<1>5. \A i \in DOMAIN read : read[i] \in LineForms /\ read[i].kind \in {"function", "class"}
  <2> SUFFICES ASSUME NEW i \in DOMAIN read PROVE read[i] \in LineForms /\ read[i].kind \in {"function", "class"}
    OBVIOUS
  <2>1. read[i] \in LineForms
    BY <1>4
  <2>2. read[i] \in ToSet(read)
    BY DEF ToSet
  <2>3. PICK n \in I \cap DOMAIN file.lines : read[i] = file.lines[n]
    BY <1>4, <2>2
  <2>4. QED
    BY <1>3, <2>1, <2>3
<1>6. ASSUME NEW line \in LineForms, line.kind \in {"function", "class"}
      PROVE  HeaderEntry(line) \in HeaderFunctions \cup ClassEntries
  <2>1. CASE line.kind = "class"
    <3>1. line \in ClassLines
      BY <2>1, LineKinds
    <3>2. QED
      BY <2>1, <3>1, ClassLineEntries DEF HeaderEntry
  <2>2. CASE line.kind = "function"
    <3>1. line \in FunctionLines
      BY <2>2, LineKinds
    <3>2. QED
      BY <2>2, <3>1, LineEntries DEF HeaderEntry
  <2>3. QED
    BY <1>6, <2>1, <2>2
<1>7. \A i \in DOMAIN read : HeaderEntry(read[i]) \in HeaderFunctions \cup ClassEntries
  BY <1>5, <1>6
<1>8. [i \in DOMAIN read |-> HeaderEntry(read[i])] \in Seq(HeaderFunctions \cup ClassEntries)
  BY <1>4, <1>7
<1>9. QED
  BY <1>2, <1>8

\* a is the depth after each of the braces.
Depths(a, depth, braces) ==
  /\ a \in [0 .. Len(braces) -> Nat] /\ a[0] = depth
  /\ \A n \in 1 .. Len(braces) :
       a[n] = IF braces[n] = OpenBrace THEN a[n - 1] + 1 ELSE IF a[n - 1] = 0 THEN 0 ELSE a[n - 1] - 1

\* The depth behind each brace of a line, as a row.
LEMMA DepthSteps ==
  ASSUME NEW depth \in Nat, NEW braces \in BraceForms
  PROVE  \E a : Depths(a, depth, braces) /\ DepthAfter(depth, braces) = a[Len(braces)]
<1> DEFINE n == Len(braces)
           Step(a) == [i \in 0 .. n |-> IF i = 0 THEN depth
                                       ELSE IF braces[i] = OpenBrace THEN a[i - 1] + 1
                                       ELSE IF a[i - 1] = 0 THEN 0 ELSE a[i - 1] - 1]
           G == [i \in 1 .. n |-> [d \in Nat |-> IF braces[i] = OpenBrace THEN d + 1 ELSE IF d = 0 THEN 0 ELSE d - 1]]
           after == CHOOSE a : a = Step(a)
<1>1. DepthAfter(depth, braces) = after[n]
  BY DEF DepthAfter
<1>2. n \in Nat /\ n = Len(braces)
  BY DEF BraceForms
<1> HIDE DEF n
<1>3. \A i \in 1 .. n, d \in Nat :
        G[i][d] = (IF braces[i] = OpenBrace THEN d + 1 ELSE IF d = 0 THEN 0 ELSE d - 1) /\ G[i][d] \in Nat
  OBVIOUS
<1> HIDE DEF G
<1>4. PICK a : Iterates(a, n, Nat, depth, G)
  <2>1. \A i \in 1 .. n, d \in Nat : G[i][d] \in Nat
    BY <1>3
  <2>2. QED
    BY <1>2, <2>1, Recursion
<1>5. ASSUME NEW i \in 1 .. n
      PROVE  a[i] = IF braces[i] = OpenBrace THEN a[i - 1] + 1 ELSE IF a[i - 1] = 0 THEN 0 ELSE a[i - 1] - 1
  <2>1. i - 1 \in 0 .. n
    BY <1>2
  <2>2. a[i - 1] \in Nat /\ a[i] = G[i][a[i - 1]]
    BY <1>4, <2>1 DEF Iterates
  <2>3. QED
    BY <1>3, <2>2
<1>6. a = Step(a)
  <2>1. \A i \in 0 .. n : i # 0 => i \in 1 .. n
    BY <1>2
  <2>2. \A i \in 0 .. n : a[i] = Step(a)[i]
    BY <1>4, <1>5, <2>1 DEF Iterates
  <2>3. a \in [0 .. n -> Nat]
    BY <1>4 DEF Iterates
  <2>4. QED
    BY <2>2, <2>3
<1>7. after = Step(after)
  BY <1>6
<1> HIDE DEF after
<1>8. /\ after[0] = depth
      /\ \A i \in 1 .. n : after[i] = IF braces[i] = OpenBrace THEN after[i - 1] + 1
                                       ELSE IF after[i - 1] = 0 THEN 0 ELSE after[i - 1] - 1
  <2>1. \A i \in 1 .. n : i \in 0 .. n /\ i # 0
    BY <1>2
  <2>2. after[0] = depth
    BY <1>2, <1>7
  <2>3. ASSUME NEW i \in 1 .. n
        PROVE  after[i] = IF braces[i] = OpenBrace THEN after[i - 1] + 1
                          ELSE IF after[i - 1] = 0 THEN 0 ELSE after[i - 1] - 1
    BY <1>7, <2>1
  <2>4. QED
    BY <2>2, <2>3
<1> DEFINE T == {i \in 0 .. n : after[i] \in Nat}
<1>9. 0 .. n \subseteq T
  <2>1. 0 \in T
    BY <1>2, <1>8
  <2>2. ASSUME NEW m \in 0 .. n, m < n, m \in T PROVE m + 1 \in T
    <3>1. m + 1 \in 1 .. n /\ m + 1 \in 0 .. n /\ (m + 1) - 1 = m /\ after[m] \in Nat
      BY <1>2, <2>2
    <3>2. QED
      BY <1>8, <3>1
  <2> HIDE DEF T
  <2>3. QED
    BY <1>2, <2>1, <2>2, Forwards
<1>10. after \in [0 .. n -> Nat]
  <2>1. after = [i \in 0 .. n |-> after[i]]
    BY <1>7
  <2>2. QED
    BY <1>9, <2>1
<1>11. Depths(after, depth, braces)
  BY <1>2, <1>8, <1>10 DEF Depths
<1>12. QED
  BY <1>1, <1>2, <1>11

\* The depth behind a line is a number; an opening brace makes it 1.
LEMMA DepthAfterIs ==
  /\ \A depth \in Nat, braces \in BraceForms : DepthAfter(depth, braces) \in Nat
  /\ DepthAfter(0, <<OpenBrace>>) = 1
<1>1. ASSUME NEW depth \in Nat, NEW braces \in BraceForms PROVE DepthAfter(depth, braces) \in Nat
  <2>1. PICK a : Depths(a, depth, braces) /\ DepthAfter(depth, braces) = a[Len(braces)]
    BY DepthSteps
  <2>2. Len(braces) \in 0 .. Len(braces)
    BY DEF BraceForms
  <2>3. QED
    BY <2>1, <2>2 DEF Depths
<1>2. DepthAfter(0, <<OpenBrace>>) = 1
  <2>1. <<OpenBrace>> \in BraceForms /\ Len(<<OpenBrace>>) = 1 /\ <<OpenBrace>>[1] = OpenBrace
    BY DEF BraceForms
  <2>2. PICK a : Depths(a, 0, <<OpenBrace>>) /\ DepthAfter(0, <<OpenBrace>>) = a[Len(<<OpenBrace>>)]
    BY <2>1, DepthSteps
  <2>3. a[0] = 0 /\ a[1] = a[0] + 1
    BY <2>1, <2>2 DEF Depths
  <2>4. QED
    BY <2>1, <2>2, <2>3
<1>3. QED
  BY <1>1, <1>2

\* What is known after some lines of a source file.
ScanForms(dir) ==
  [depth : Nat, at : {"top", "function", "construct"}, dir : {dir}, entries : Seq(PcFunctions),
   links : Seq({Linked(line, dir) : line \in LineForms})]

\* What an update of four fields of a scan leaves: those fields, and the directory it had.
LEMMA ScanUpdated ==
  ASSUME NEW d, NEW a, NEW dir, NEW e, NEW l, NEW w, NEW x, NEW y, NEW z, NEW scan, NEW next,
         scan = [depth |-> d, at |-> a, dir |-> dir, entries |-> e, links |-> l],
         next = [scan EXCEPT !.depth = w, !.at = x, !.entries = y, !.links = z]
  PROVE  next = [depth |-> w, at |-> x, dir |-> dir, entries |-> y, links |-> z]
<1>1. DOMAIN next = DOMAIN scan
  OBVIOUS
<1>2. next.depth = w /\ next.at = x /\ next.dir = dir /\ next.entries = y /\ next.links = z
  OBVIOUS
<1>3. QED
  BY <1>1, <1>2

\* What a line does to it.
LEMMA PcLineIs ==
  ASSUME NEW dir, NEW scan \in ScanForms(dir), NEW line \in LineForms
  PROVE  LET depth == DepthAfter(scan.depth, line.braces)
             next  == PcLine(scan, line)
         IN  /\ next \in ScanForms(dir)
             /\ next.depth = IF scan.at = "top" /\ line.kind = "function" /\ line.bodied THEN 1 ELSE depth
             /\ next.entries = IF scan.at = "top" /\ line.kind = "function"
                               THEN Append(scan.entries, PcFunction(line)) ELSE scan.entries
             /\ next.at = IF scan.at # "top" THEN (IF depth = 0 THEN "top" ELSE scan.at)
                          ELSE IF line.kind = "function" /\ line.bodied THEN "function"
                          ELSE IF line.kind \in {"construct", "class"} /\ depth = 0 /\ Contains(line.braces, OpenBrace)
                               THEN "construct" ELSE "top"
<1> DEFINE depth == DepthAfter(scan.depth, line.braces)
           top == scan.at = "top"
           found == top /\ line.kind = "function"
           skip == line.kind \in {"construct", "class"} /\ depth = 0 /\ Contains(line.braces, OpenBrace)
           result == PcLine(scan, line)
<1>1. /\ scan.depth \in Nat /\ scan.at \in {"top", "function", "construct"} /\ scan.dir = dir
      /\ scan.entries \in Seq(PcFunctions) /\ scan.links \in Seq({Linked(l, dir) : l \in LineForms})
      /\ scan = [depth |-> scan.depth, at |-> scan.at, dir |-> scan.dir, entries |-> scan.entries, links |-> scan.links]
  BY DEF ScanForms
<1>2. depth \in Nat
  BY <1>1, LineKinds, DepthAfterIs
<1>3. line.kind = "function" => PcFunction(line) \in PcFunctions
  BY LineKinds, LineEntries
<1>4. Linked(line, dir) \in {Linked(l, dir) : l \in LineForms}
  OBVIOUS
<1> HIDE DEF depth
<1>5. \A d \in Nat, a \in {"top", "function", "construct"}, e \in Seq(PcFunctions),
         l \in Seq({Linked(k, dir) : k \in LineForms}) :
        [depth |-> d, at |-> a, dir |-> dir, entries |-> e, links |-> l] \in ScanForms(dir)
  BY DEF ScanForms
<1>6. result = [depth |-> IF found /\ line.bodied THEN 1 ELSE depth,
               at |-> CASE ~top -> IF depth = 0 THEN "top" ELSE scan.at
                        [] found /\ line.bodied -> "function"
                        [] top /\ skip -> "construct"
                        [] OTHER -> "top",
               dir |-> dir,
               entries |-> IF found THEN Append(scan.entries, PcFunction(line)) ELSE scan.entries,
               links |-> IF top /\ line.kind = "link" THEN Append(scan.links, Linked(line, dir)) ELSE scan.links]
  <2>1. PICK d, a, e, l : d = scan.depth /\ a = scan.at /\ e = scan.entries /\ l = scan.links
    OBVIOUS
  <2>2. scan = [depth |-> d, at |-> a, dir |-> dir, entries |-> e, links |-> l]
    BY <1>1, <2>1
  <2> HIDE DEF top, found, skip
  <2>3. PICK w, x, y, z :
          /\ w = IF found /\ line.bodied THEN 1 ELSE depth
          /\ x = CASE ~top -> IF depth = 0 THEN "top" ELSE scan.at
                   [] found /\ line.bodied -> "function"
                   [] top /\ skip -> "construct"
                   [] OTHER -> "top"
          /\ y = IF found THEN Append(scan.entries, PcFunction(line)) ELSE scan.entries
          /\ z = IF top /\ line.kind = "link" THEN Append(scan.links, Linked(line, dir)) ELSE scan.links
    OBVIOUS
  <2>4. result = [scan EXCEPT !.depth = w, !.at = x, !.entries = y, !.links = z]
    BY <1>1, <2>3 DEF PcLine, depth, top, found, skip
  <2>5. PICK r : r = result
    OBVIOUS
  <2>6. r = [depth |-> w, at |-> x, dir |-> dir, entries |-> y, links |-> z]
    BY <2>2, <2>4, <2>5, ScanUpdated
  <2>7. QED
    BY <2>3, <2>5, <2>6
<1>7. CASE scan.at # "top"
  <2>1. result = [depth |-> depth, at |-> IF depth = 0 THEN "top" ELSE scan.at, dir |-> dir,
                  entries |-> scan.entries, links |-> scan.links]
    BY <1>1, <1>6, <1>7
  <2> HIDE DEF result
  <2>2. result \in ScanForms(dir)
    BY <1>1, <1>2, <1>5, <2>1
  <2>3. QED
    BY <1>7, <2>1, <2>2 DEF result, depth
<1>8. CASE scan.at = "top" /\ line.kind = "link"
  <2>1. result = [depth |-> depth, at |-> "top", dir |-> dir, entries |-> scan.entries,
                  links |-> Append(scan.links, Linked(line, dir))]
    BY <1>1, <1>6, <1>8
  <2>2. Append(scan.links, Linked(line, dir)) \in Seq({Linked(l, dir) : l \in LineForms})
    BY <1>1, <1>4
  <2> HIDE DEF result
  <2>3. result \in ScanForms(dir)
    BY <1>1, <1>2, <1>5, <2>1, <2>2
  <2>4. QED
    BY <1>8, <2>1, <2>3 DEF result, depth
<1>9. CASE scan.at = "top" /\ line.kind \in {"construct", "class"}
  <2>1. result = [depth |-> depth, at |-> IF depth = 0 /\ Contains(line.braces, OpenBrace) THEN "construct" ELSE "top",
                  dir |-> dir, entries |-> scan.entries, links |-> scan.links]
    BY <1>1, <1>6, <1>9
  <2> HIDE DEF result
  <2>2. result \in ScanForms(dir)
    BY <1>1, <1>2, <1>5, <2>1
  <2>3. QED
    BY <1>9, <2>1, <2>2 DEF result, depth
<1>10. CASE scan.at = "top" /\ line.kind = "function"
  <2>1. result = [depth |-> IF line.bodied THEN 1 ELSE depth, at |-> IF line.bodied THEN "function" ELSE "top",
                  dir |-> dir, entries |-> Append(scan.entries, PcFunction(line)), links |-> scan.links]
    BY <1>1, <1>6, <1>10
  <2>2. Append(scan.entries, PcFunction(line)) \in Seq(PcFunctions)
    BY <1>1, <1>3, <1>10
  <2> HIDE DEF result
  <2>3. result \in ScanForms(dir)
    BY <1>1, <1>2, <1>5, <2>1, <2>2
  <2>4. QED
    BY <1>10, <2>1, <2>3 DEF result, depth
<1>11. CASE scan.at = "top" /\ line.kind \notin {"link", "construct", "class", "function"}
  <2>1. result = [depth |-> depth, at |-> "top", dir |-> dir, entries |-> scan.entries, links |-> scan.links]
    BY <1>1, <1>6, <1>11
  <2> HIDE DEF result
  <2>2. result \in ScanForms(dir)
    BY <1>1, <1>2, <1>5, <2>1
  <2>3. QED
    BY <1>11, <2>1, <2>2 DEF result, depth
<1>12. QED
  BY <1>7, <1>8, <1>9, <1>10, <1>11

\* scan is what is known after each line.
Scans(scan, file) ==
  /\ scan \in [0 .. Len(file.lines) -> ScanForms(file.dir)]
  /\ scan[0] = [depth |-> 0, at |-> "top", dir |-> file.dir, entries |-> <<>>, links |-> <<>>]
  /\ \A n \in 1 .. Len(file.lines) : scan[n] = PcLine(scan[n - 1], file.lines[n])

\* The states of the reader of a source file, one for each line.
LEMMA PcScanSteps ==
  ASSUME NEW file \in FileForms
  PROVE  \E scan : Scans(scan, file) /\ PcScan(file) = scan[Len(file.lines)]
<1> DEFINE n == Len(file.lines)
           V == ScanForms(file.dir)
           first == [depth |-> 0, at |-> "top", dir |-> file.dir, entries |-> <<>>, links |-> <<>>]
           Step(s) == [i \in 0 .. n |-> IF i = 0 THEN first ELSE PcLine(s[i - 1], file.lines[i])]
           G == [i \in 1 .. n |-> [s \in V |-> PcLine(s, file.lines[i])]]
           scan == CHOOSE s : s = Step(s)
<1>1. PcScan(file) = scan[n]
  BY DEF PcScan
<1>2. n \in Nat /\ n = Len(file.lines) /\ \A i \in 1 .. n : file.lines[i] \in LineForms
  BY DEF FileForms, LineForms
<1>3. first \in V
  BY DEF ScanForms
<1>4. first = [depth |-> 0, at |-> "top", dir |-> file.dir, entries |-> <<>>, links |-> <<>>]
  OBVIOUS
<1>5. \A i \in 1 .. n, s \in V : PcLine(s, file.lines[i]) \in V
  BY <1>2, PcLineIs
<1> HIDE DEF n, V, first
<1>6. \A i \in 1 .. n, s \in V : G[i][s] = PcLine(s, file.lines[i]) /\ G[i][s] \in V
  BY <1>5
<1> HIDE DEF G
<1>7. PICK s : Iterates(s, n, V, first, G)
  <2>1. \A i \in 1 .. n, s \in V : G[i][s] \in V
    BY <1>6
  <2>2. QED
    BY <1>2, <1>3, <2>1, Recursion
<1>8. ASSUME NEW i \in 1 .. n PROVE s[i] = PcLine(s[i - 1], file.lines[i])
  <2>1. i - 1 \in 0 .. n
    BY <1>2
  <2>2. s[i - 1] \in V /\ s[i] = G[i][s[i - 1]]
    BY <1>7, <2>1 DEF Iterates
  <2>3. QED
    BY <1>6, <2>2
<1>9. s = Step(s)
  <2>1. \A i \in 0 .. n : i # 0 => i \in 1 .. n
    BY <1>2
  <2>2. \A i \in 0 .. n : s[i] = Step(s)[i]
    BY <1>7, <1>8, <2>1 DEF Iterates
  <2>3. s \in [0 .. n -> V]
    BY <1>7 DEF Iterates
  <2>4. QED
    BY <2>2, <2>3
<1>10. scan = Step(scan)
  BY <1>9
<1> HIDE DEF scan
<1>11. scan[0] = first
  BY <1>2, <1>10
<1>12. ASSUME NEW i \in 1 .. n PROVE scan[i] = PcLine(scan[i - 1], file.lines[i])
  <2>1. i \in 0 .. n /\ i # 0
    BY <1>2
  <2>2. QED
    BY <1>10, <2>1
<1> DEFINE T == {i \in 0 .. n : scan[i] \in V}
<1>13. 0 .. n \subseteq T
  <2>1. 0 \in T
    BY <1>2, <1>3, <1>11
  <2>2. ASSUME NEW m \in 0 .. n, m < n, m \in T PROVE m + 1 \in T
    <3>1. m + 1 \in 1 .. n /\ m + 1 \in 0 .. n /\ (m + 1) - 1 = m /\ scan[m] \in V
      BY <1>2, <2>2
    <3>2. scan[m + 1] = PcLine(scan[m], file.lines[m + 1])
      BY <1>12, <3>1
    <3>3. QED
      BY <1>5, <3>1, <3>2
  <2> HIDE DEF T
  <2>3. QED
    BY <1>2, <2>1, <2>2, Forwards
<1>14. scan \in [0 .. n -> V]
  <2>1. scan = [i \in 0 .. n |-> scan[i]]
    BY <1>10
  <2>2. QED
    BY <1>13, <2>1
<1>15. Scans(scan, file)
  BY <1>2, <1>4, <1>11, <1>12, <1>14 DEF Scans, V
<1>16. QED
  BY <1>1, <1>2, <1>15

\* The entries of a file.
LEMMA EntriesOfIs ==
  ASSUME NEW file \in FileForms
  PROVE  EntriesOf(file) \in Seq(EntriesIn(file.kind))
<1>1. CASE file.kind = "pc"
  <2>1. PICK scan : Scans(scan, file) /\ PcScan(file) = scan[Len(file.lines)]
    BY PcScanSteps
  <2>2. Len(file.lines) \in 0 .. Len(file.lines)
    BY DEF FileForms
  <2>3. PcScan(file).entries \in Seq(PcFunctions)
    BY <2>1, <2>2 DEF Scans, ScanForms
  <2>4. QED
    BY <1>1, <2>3 DEF EntriesOf, EntriesIn
<1>2. CASE file.kind # "pc"
  BY <1>2, HeaderEntriesIs DEF EntriesOf, EntriesIn
<1>3. QED
  BY <1>1, <1>2

-----------------------------------------------------------------------------
(* Source files.                                                           *)

\* The depth behind each line, as a row.
LEMMA DepthsOfIs ==
  ASSUME NEW lines \in Seq(LineForms)
  PROVE  LET depth == DepthsOf(lines)
         IN  /\ depth \in [0 .. Len(lines) -> Nat] /\ depth[0] = 0
             /\ \A n \in 1 .. Len(lines) : depth[n] = DepthAfter(depth[n - 1], lines[n].braces)
<1> DEFINE n == Len(lines)
           Step(d) == [i \in 0 .. n |-> IF i = 0 THEN 0 ELSE DepthAfter(d[i - 1], lines[i].braces)]
           G == [i \in 1 .. n |-> [d \in Nat |-> DepthAfter(d, lines[i].braces)]]
           depth == CHOOSE d : d = Step(d)
<1>1. DepthsOf(lines) = depth
  BY DEF DepthsOf
<1>2. n \in Nat /\ n = Len(lines) /\ \A i \in 1 .. n : lines[i] \in LineForms
  OBVIOUS
<1> HIDE DEF n
<1>3. \A i \in 1 .. n : lines[i].braces \in BraceForms
  BY <1>2, LineKinds
<1>4. \A i \in 1 .. n, d \in Nat : G[i][d] = DepthAfter(d, lines[i].braces) /\ G[i][d] \in Nat
  BY <1>3, DepthAfterIs
<1> HIDE DEF G
<1>5. PICK d : Iterates(d, n, Nat, 0, G)
  <2>1. \A i \in 1 .. n, d \in Nat : G[i][d] \in Nat
    BY <1>4
  <2>2. 0 \in Nat
    OBVIOUS
  <2>3. QED
    BY <1>2, <2>1, <2>2, Recursion
<1>6. ASSUME NEW i \in 1 .. n PROVE d[i] = DepthAfter(d[i - 1], lines[i].braces)
  <2>1. i - 1 \in 0 .. n
    BY <1>2
  <2>2. d[i - 1] \in Nat /\ d[i] = G[i][d[i - 1]]
    BY <1>5, <2>1 DEF Iterates
  <2>3. QED
    BY <1>4, <2>2
<1>7. d = Step(d)
  <2>1. \A i \in 0 .. n : i # 0 => i \in 1 .. n
    BY <1>2
  <2>2. \A i \in 0 .. n : d[i] = Step(d)[i]
    BY <1>5, <1>6, <2>1 DEF Iterates
  <2>3. d \in [0 .. n -> Nat]
    BY <1>5 DEF Iterates
  <2>4. QED
    BY <2>2, <2>3
<1>8. depth = Step(depth)
  BY <1>7
<1> HIDE DEF depth
<1>9. depth[0] = 0
  BY <1>2, <1>8
<1>10. ASSUME NEW i \in 1 .. n PROVE depth[i] = DepthAfter(depth[i - 1], lines[i].braces)
  <2>1. i \in 0 .. n /\ i # 0
    BY <1>2
  <2>2. QED
    BY <1>8, <2>1
<1> DEFINE T == {i \in 0 .. n : depth[i] \in Nat}
<1>11. 0 .. n \subseteq T
  <2>1. 0 \in T
    BY <1>2, <1>9
  <2>2. ASSUME NEW m \in 0 .. n, m < n, m \in T PROVE m + 1 \in T
    <3>1. m + 1 \in 1 .. n /\ m + 1 \in 0 .. n /\ (m + 1) - 1 = m /\ depth[m] \in Nat
      BY <1>2, <2>2
    <3>2. depth[m + 1] = DepthAfter(depth[m], lines[m + 1].braces)
      BY <1>10, <3>1
    <3>3. QED
      BY <1>3, <3>1, <3>2, DepthAfterIs
  <2> HIDE DEF T
  <2>3. QED
    BY <1>2, <2>1, <2>2, Forwards
<1>12. depth \in [0 .. n -> Nat]
  <2>1. depth = [i \in 0 .. n |-> depth[i]]
    BY <1>8
  <2>2. QED
    BY <1>11, <2>1
<1>13. QED
  BY <1>1, <1>2, <1>9, <1>10, <1>12

\* A line is in a body if the line in front of it does not close one that it begins or is in.
LEMMA InBodyGoesOn ==
  ASSUME NEW lines \in Seq(LineForms), NEW n \in 0 .. Len(lines)
  PROVE  InBody(lines, n + 1) <=> /\ n > 0 /\ DepthsOf(lines)[n] > 0
                                  /\ lines[n].declares \/ InBody(lines, n)
<1>1. n \in Nat /\ (n + 1) - 1 = n
  OBVIOUS
<1>2. ASSUME InBody(lines, n + 1)
      PROVE  n > 0 /\ DepthsOf(lines)[n] > 0 /\ (lines[n].declares \/ InBody(lines, n))
  <2>1. PICK d \in 1 .. n : lines[d].declares /\ \A k \in d .. n : DepthsOf(lines)[k] > 0
    BY <1>1, <1>2 DEF InBody
  <2>2. n > 0 /\ n \in d .. n
    BY <1>1
  <2>3. DepthsOf(lines)[n] > 0
    BY <2>1, <2>2
  <2>4. CASE d = n
    BY <2>1, <2>2, <2>3, <2>4
  <2>5. CASE d # n
    <3>1. d \in 1 .. n - 1 /\ \A k \in d .. n - 1 : k \in d .. n
      BY <1>1, <2>5
    <3>2. InBody(lines, n)
      BY <2>1, <3>1 DEF InBody
    <3>3. QED
      BY <2>2, <2>3, <3>2
  <2>6. QED
    BY <2>4, <2>5
<1>3. ASSUME n > 0, DepthsOf(lines)[n] > 0, lines[n].declares PROVE InBody(lines, n + 1)
  <2>1. n \in 1 .. n /\ \A k \in n .. n : k = n
    BY <1>1, <1>3
  <2>2. \E d \in 1 .. n : lines[d].declares /\ \A k \in d .. n : DepthsOf(lines)[k] > 0
    BY <1>3, <2>1
  <2>3. QED
    BY <1>1, <2>2 DEF InBody
<1>4. ASSUME n > 0, DepthsOf(lines)[n] > 0, InBody(lines, n) PROVE InBody(lines, n + 1)
  <2>1. PICK d \in 1 .. n - 1 : lines[d].declares /\ \A k \in d .. n - 1 : DepthsOf(lines)[k] > 0
    BY <1>4 DEF InBody
  <2>2. d \in 1 .. n /\ \A k \in d .. n : k = n \/ k \in d .. n - 1
    BY <1>1
  <2>3. \A k \in d .. n : DepthsOf(lines)[k] > 0
    BY <1>4, <2>1, <2>2
  <2>4. QED
    BY <1>1, <2>1, <2>2, <2>3 DEF InBody
<1>5. QED
  BY <1>2, <1>3, <1>4

\* What is known after n lines of a source file, and p, the declaring ones among them.
ReadUpTo(scan, p, lines, n) ==
  /\ scan[n].depth = DepthsOf(lines)[n]
  /\ scan[n].at = IF InBody(lines, n + 1) THEN "function" ELSE "top"
  /\ Len(scan[n].entries) = Len(p[n])
  /\ \A k \in 1 .. Len(p[n]) : scan[n].entries[k].orig = p[n][k].name

\* One line more, in a file in plain style.
LEMMA PlainLine ==
  ASSUME NEW file \in FileForms, PlainStyle(file), NEW scan, Scans(scan, file),
         NEW p, Picks(p, file.lines, {n \in DOMAIN file.lines : file.lines[n].declares}, LineForms),
         NEW m \in 0 .. Len(file.lines), m < Len(file.lines), ReadUpTo(scan, p, file.lines, m)
  PROVE  ReadUpTo(scan, p, file.lines, m + 1)
<1> DEFINE lines == file.lines
           line == lines[m + 1]
           depth == DepthsOf(lines)
           I == {n \in DOMAIN lines : lines[n].declares}
<1>1. lines \in Seq(LineForms) /\ Len(lines) \in Nat
  BY DEF FileForms, LineForms
<1>2. /\ m \in Nat /\ m + 1 \in 1 .. Len(lines) /\ m + 1 \in 0 .. Len(lines) /\ (m + 1) - 1 = m
      /\ m + 1 \in DOMAIN lines
  BY <1>1
<1>3. line \in LineForms
  BY <1>1, <1>2
<1>4. /\ line.kind # "class"
      /\ line.declares => /\ line.kind = "function" /\ line.bodied /\ line.braces = <<OpenBrace>> /\ depth[m] = 0
      /\ (line.kind = "function" /\ ~line.declares) => InBody(lines, m + 1)
      /\ (line.kind = "construct" /\ Contains(line.braces, OpenBrace) /\ depth[m + 1] = 0) => InBody(lines, m + 1)
  BY <1>2 DEF PlainStyle
<1>5. depth[m] \in Nat /\ depth[m + 1] \in Nat /\ depth[m + 1] = DepthAfter(depth[m], line.braces)
  BY <1>1, <1>2, DepthsOfIs
<1>6. scan[m] \in ScanForms(file.dir) /\ scan[m + 1] = PcLine(scan[m], line)
  BY <1>2 DEF Scans
<1>7. /\ p[m] \in Seq(LineForms)
      /\ p[m + 1] = IF line.declares THEN Append(p[m], line) ELSE p[m]
  <2>1. m + 1 \in I <=> line.declares
    BY <1>2
  <2>2. p[m] \in Seq(LineForms) /\ p[m + 1] = IF m + 1 \in I THEN Append(p[m], line) ELSE p[m]
    BY <1>2 DEF Picks
  <2>3. QED
    BY <2>1, <2>2
<1>8. /\ scan[m].depth = depth[m]
      /\ scan[m].at = IF InBody(lines, m + 1) THEN "function" ELSE "top"
      /\ Len(scan[m].entries) = Len(p[m])
      /\ \A k \in 1 .. Len(p[m]) : scan[m].entries[k].orig = p[m][k].name
  BY DEF ReadUpTo
<1>9. InBody(lines, (m + 1) + 1) <=> depth[m + 1] > 0 /\ (line.declares \/ InBody(lines, m + 1))
  BY <1>1, <1>2, InBodyGoesOn
<1>10. InBody(lines, m + 1) => depth[m] > 0
  BY <1>1, InBodyGoesOn
<1> HIDE DEF lines, depth, I
<1>11. /\ scan[m + 1].depth = IF scan[m].at = "top" /\ line.kind = "function" /\ line.bodied THEN 1 ELSE depth[m + 1]
       /\ scan[m + 1].entries = IF scan[m].at = "top" /\ line.kind = "function"
                                THEN Append(scan[m].entries, PcFunction(line)) ELSE scan[m].entries
       /\ scan[m + 1].at = IF scan[m].at # "top" THEN (IF depth[m + 1] = 0 THEN "top" ELSE scan[m].at)
                           ELSE IF line.kind = "function" /\ line.bodied THEN "function"
                           ELSE IF line.kind \in {"construct", "class"} /\ depth[m + 1] = 0 /\ Contains(line.braces, OpenBrace)
                                THEN "construct" ELSE "top"
  <2> HIDE DEF line
  <2>1. QED
    BY <1>3, <1>5, <1>6, <1>8, PcLineIs
<1>12. PcFunction(line).orig = line.name
  BY DEF PcFunction, Entry
<1>13. scan[m].entries \in Seq(PcFunctions)
  BY <1>6 DEF ScanForms
<1> HIDE DEF line
<1>14. CASE InBody(lines, m + 1)
  <2>1. ~line.declares /\ scan[m].at = "function"
    BY <1>4, <1>5, <1>8, <1>10, <1>14
  <2>2. scan[m + 1].depth = depth[m + 1] /\ scan[m + 1].entries = scan[m].entries /\ p[m + 1] = p[m]
    BY <1>7, <1>11, <2>1
  <2>3. scan[m + 1].at = IF InBody(lines, (m + 1) + 1) THEN "function" ELSE "top"
    BY <1>5, <1>9, <1>11, <1>14, <2>1
  <2>4. QED
    BY <1>8, <2>2, <2>3 DEF ReadUpTo, lines, depth
<1>15. CASE ~InBody(lines, m + 1) /\ line.declares
  <2>1. line.kind = "function" /\ line.bodied /\ line.braces = <<OpenBrace>> /\ depth[m] = 0 /\ scan[m].at = "top"
    BY <1>4, <1>8, <1>15
  <2>2. depth[m + 1] = 1
    BY <1>5, <2>1, DepthAfterIs
  <2>3. /\ scan[m + 1].depth = depth[m + 1] /\ scan[m + 1].entries = Append(scan[m].entries, PcFunction(line))
        /\ p[m + 1] = Append(p[m], line) /\ scan[m + 1].at = "function"
    BY <1>7, <1>11, <1>15, <2>1, <2>2
  <2>4. InBody(lines, (m + 1) + 1)
    BY <1>9, <1>15, <2>2
  <2> DEFINE es == scan[m].entries
             x == PcFunction(line)
             ps == p[m]
  <2>5. x \in PcFunctions /\ es \in Seq(PcFunctions) /\ ps \in Seq(LineForms) /\ Len(es) = Len(ps)
    BY <1>3, <1>7, <1>8, <1>13, <2>1, LineKinds, LineEntries
  <2>6. scan[m + 1].entries = Append(es, x) /\ p[m + 1] = Append(ps, line)
    BY <2>3
  <2>7. \A k \in 1 .. Len(ps) : es[k].orig = ps[k].name
    BY <1>8
  <2> HIDE DEF es, x, ps
  <2>8. Len(scan[m + 1].entries) = Len(p[m + 1])
    BY <1>3, <2>5, <2>6
  <2>9. ASSUME NEW k \in 1 .. Len(p[m + 1]) PROVE scan[m + 1].entries[k].orig = p[m + 1][k].name
    <3>1. Len(ps) \in Nat /\ Len(p[m + 1]) = Len(ps) + 1
      BY <1>3, <2>5, <2>6
    <3>2. CASE k = Len(ps) + 1
      <4>1. p[m + 1][k] = line /\ scan[m + 1].entries[k] = x
        BY <1>3, <2>5, <2>6, <3>2
      <4>2. QED
        BY <1>12, <4>1 DEF x
    <3>3. CASE k # Len(ps) + 1
      <4>1. k \in 1 .. Len(ps) /\ k \in 1 .. Len(es)
        BY <2>5, <3>1, <3>3
      <4>2. p[m + 1][k] = ps[k] /\ scan[m + 1].entries[k] = es[k]
        BY <1>3, <2>5, <2>6, <4>1
      <4>3. QED
        BY <2>7, <4>1, <4>2
    <3>4. QED
      BY <3>2, <3>3
  <2>10. QED
    BY <2>3, <2>4, <2>8, <2>9 DEF ReadUpTo, lines, depth
<1>16. CASE ~InBody(lines, m + 1) /\ ~line.declares
  <2>1. line.kind # "function" /\ scan[m].at = "top"
    BY <1>4, <1>8, <1>16
  <2>2. scan[m + 1].depth = depth[m + 1] /\ scan[m + 1].entries = scan[m].entries /\ p[m + 1] = p[m]
    BY <1>7, <1>11, <1>16, <2>1
  <2>3. scan[m + 1].at = "top"
    BY <1>4, <1>11, <1>16, <2>1
  <2>4. ~InBody(lines, (m + 1) + 1)
    BY <1>9, <1>16
  <2>5. QED
    BY <1>8, <2>2, <2>3, <2>4 DEF ReadUpTo, lines, depth
<1>17. QED
  BY <1>14, <1>15, <1>16

\* What is read from a source file in plain style is what it declares.
LEMMA PlainFile ==
  ASSUME NEW file \in FileForms, file.kind = "pc", PlainStyle(file)
  PROVE  LET there == Declaring(file.lines)
             read  == EntriesOf(file)
         IN  [k \in DOMAIN read |-> read[k].orig] = [k \in DOMAIN there |-> there[k].name]
<1> DEFINE lines == file.lines
           I == {n \in DOMAIN lines : lines[n].declares}
<1>1. lines \in Seq(LineForms) /\ Len(lines) \in Nat
  BY DEF FileForms, LineForms
<1>2. PICK scan : Scans(scan, file) /\ PcScan(file) = scan[Len(lines)]
  BY PcScanSteps
<1>3. PICK p : Picks(p, lines, I, LineForms) /\ Picked(lines, I) = p[Len(lines)]
  <2> HIDE DEF lines, I
  <2> QED BY <1>1, PickedSteps
<1>4. EntriesOf(file) = scan[Len(lines)].entries /\ Declaring(lines) = p[Len(lines)]
  BY <1>2, <1>3 DEF EntriesOf, Declaring
<1> DEFINE T == {n \in 0 .. Len(lines) : ReadUpTo(scan, p, lines, n)}
<1>5. 0 \in T
  <2>1. scan[0] = [depth |-> 0, at |-> "top", dir |-> file.dir, entries |-> <<>>, links |-> <<>>] /\ p[0] = <<>>
    BY <1>2, <1>3 DEF Scans, Picks
  <2>2. DepthsOf(lines)[0] = 0 /\ ~InBody(lines, 0 + 1)
    <3> HIDE DEF lines
    <3>1. 0 \in 0 .. Len(lines)
      BY <1>1
    <3>2. QED
      BY <1>1, <3>1, DepthsOfIs, InBodyGoesOn
  <2> HIDE DEF lines
  <2>3. ReadUpTo(scan, p, lines, 0)
    BY <2>1, <2>2 DEF ReadUpTo
  <2>4. QED
    BY <1>1, <2>3
<1>6. ASSUME NEW m \in 0 .. Len(lines), m < Len(lines), m \in T PROVE m + 1 \in T
  <2>1. ReadUpTo(scan, p, lines, m) /\ m + 1 \in 0 .. Len(lines)
    BY <1>1, <1>6
  <2>2. ReadUpTo(scan, p, lines, m + 1)
    BY <1>2, <1>3, <1>6, <2>1, PlainLine
  <2>3. QED
    BY <2>1, <2>2
<1>7. ReadUpTo(scan, p, lines, Len(lines))
  <2> HIDE DEF T, lines
  <2>1. 0 .. Len(lines) \subseteq T
    BY <1>1, <1>5, <1>6, Forwards
  <2>2. Len(lines) \in T
    BY <1>1, <2>1
  <2>3. QED
    BY <2>2 DEF T
<1>8. scan[Len(lines)].entries \in Seq(PcFunctions) /\ p[Len(lines)] \in Seq(LineForms)
  <2>1. Len(lines) \in 0 .. Len(lines)
    BY <1>1
  <2>2. QED
    BY <1>2, <1>3, <2>1 DEF Scans, ScanForms, Picks
<1> HIDE DEF lines
<1> DEFINE read == scan[Len(lines)].entries
           there == p[Len(lines)]
<1>9. Len(read) = Len(there) /\ \A k \in 1 .. Len(there) : read[k].orig = there[k].name
  BY <1>7 DEF ReadUpTo
<1>10. DOMAIN read = 1 .. Len(read) /\ DOMAIN there = 1 .. Len(there)
  BY <1>8
<1> HIDE DEF read, there
<1>11. [k \in DOMAIN read |-> read[k].orig] = [k \in DOMAIN there |-> there[k].name]
  BY <1>9, <1>10
<1>12. QED
  BY <1>4, <1>11 DEF read, there, lines

\* Outside integers of 64 bits the reader of source files has the letters of the compiler.
LEMMA PcSymbols ==
  ASSUME NEW e \in PcFunctions, ToSet(e.params) \cap {"int", "long", "i64", "u64"} = {}
  PROVE  e.symbol = MangleName(e.orig, e.params)
<1>1. e.symbol = Mangled(e.orig, LettersOf(e.params, PcLetters))
  BY DEF PcFunctions
<1>2. \A i \in DOMAIN e.params : PcLetters(e.params[i]) = Letters(e.params[i])
  BY DEF PcLetters, ToSet
<1>3. [i \in DOMAIN e.params |-> PcLetters(e.params[i])] = [i \in DOMAIN e.params |-> Letters(e.params[i])]
  BY <1>2
<1>4. LettersOf(e.params, PcLetters) = FlattenSeq([i \in DOMAIN e.params |-> Letters(e.params[i])])
  BY <1>3 DEF LettersOf
<1>5. QED
  BY <1>1, <1>4 DEF MangleName, MangledAs

\* The program is one of those that are compiled, and has their form.
LEMMA ProgramStays == Spec => [](program \in Programs)
<1>1. Init => program \in Programs
  BY DEF Init
<1>2. program \in Programs /\ [Next]_vars => (program \in Programs)'
  BY DEF Next, vars, Declare, Check, NextPhase, GenerateImport, GenerateFunction, GenerateCall, GenerateUsing
<1>3. QED
  BY <1>1, <1>2, PTL DEF Spec

\* The declarations of a program.
LEMMA ProgramIs ==
  ASSUME NEW p \in Programs
  PROVE  p \in Seq(ToSet(p)) /\ Len(p) \in Nat /\ DOMAIN p = 1 .. Len(p)
<1>1. IsProgram(p)
  BY ProgramsAssumption
<1>2. p \in Seq(ToSet(p))
  BY <1>1 DEF IsProgram, IsSequence
<1>3. QED
  BY <1>2

\* A declaration of a program is an import or a function.
LEMMA DeclarationForms ==
  ASSUME NEW p \in Programs, NEW i \in 1 .. Len(p)
  PROVE  /\ p[i].kind \in {"import", "function"}
         /\ p[i].kind = "import" => p[i] \in ImportForms
         /\ p[i].kind = "function" => IsFunction(p[i])
<1>1. IsProgram(p)
  BY ProgramsAssumption
<1>2. p[i] \in ToSet(p)
  BY ProgramIs DEF ToSet
<1>3. p[i] \in ImportForms \/ IsFunction(p[i])
  BY <1>1, <1>2 DEF IsProgram
<1>4. QED
  BY <1>3 DEF ImportForms, IsFunction

\* Every function of a source file in plain style is read, under its name and by the symbol that the
\* compiler gives it.  (parse_pc_file)
THEOREM PlainSourcesAreRead == Spec => []SourcesRead
<1>1. program \in Programs => SourcesRead
  <2> SUFFICES ASSUME program \in Programs PROVE SourcesRead
    OBVIOUS
  <2>1. ASSUME NEW i \in DOMAIN program, program[i].kind = "import", program[i].file.kind = "pc",
               PlainStyle(program[i].file)
        PROVE  LET there == Declaring(program[i].file.lines)
                   read  == EntriesOf(program[i].file)
               IN  /\ [k \in DOMAIN read |-> read[k].orig] = [k \in DOMAIN there |-> there[k].name]
                   /\ \A e \in ToSet(read) :
                        ToSet(e.params) \cap {"int", "long", "i64", "u64"} = {} => e.symbol = MangleName(e.orig, e.params)
    <3>1. program[i] \in ImportForms
      <4>1. i \in 1 .. Len(program)
        BY ProgramIs
      <4>2. QED
        BY <2>1, <4>1, DeclarationForms
    <3>2. program[i].file \in FileForms
      BY <3>1 DEF ImportForms
    <3>3. EntriesOf(program[i].file) \in Seq(PcFunctions)
      BY <2>1, <3>2, EntriesOfIs DEF EntriesIn
    <3>4. \A e \in ToSet(EntriesOf(program[i].file)) : e \in PcFunctions
      BY <3>3, ElementsOf
    <3>5. QED
      BY <2>1, <3>2, <3>4, PlainFile, PcSymbols
  <2>2. QED
    BY <2>1 DEF SourcesRead
<1>2. QED
  BY <1>1, ProgramStays, PTL

-----------------------------------------------------------------------------
(* The names that imports give to functions.                               *)

\* What is joined.
LEMMA Joined ==
  ASSUME NEW S, NEW s \in Seq(S), NEW t \in Seq(S)
  PROVE  /\ s \o t \in Seq(S) /\ Len(s \o t) = Len(s) + Len(t)
         /\ \A i \in 1 .. Len(s) : (s \o t)[i] = s[i]
         /\ \A i \in 1 .. Len(t) : (s \o t)[i + Len(s)] = t[i]
<1>1. s \o t \in Seq(S) /\ Len(s \o t) = Len(s) + Len(t) /\ Len(s) \in Nat /\ Len(t) \in Nat
  OBVIOUS
<1>2. ASSUME NEW i \in 1 .. Len(s) PROVE (s \o t)[i] = s[i]
  BY <1>1
<1>3. ASSUME NEW i \in 1 .. Len(t) PROVE (s \o t)[i + Len(s)] = t[i]
  BY <1>1
<1>4. QED
  BY <1>1, <1>2, <1>3

\* What stands where when a name follows one or two parts with a dot each.
LEMMA Behind ==
  ASSUME NEW S, NEW dot \in S, NEW a \in S, NEW b \in S, NEW n \in Seq(S),
         NEW x, x = <<a, dot>>, NEW y, y = <<b, dot>>, NEW z, z = x \o y
  PROVE  /\ x \in Seq(S) /\ y \in Seq(S)
         /\ /\ x \o n \in Seq(S) /\ Len(x \o n) = Len(n) + 2 /\ (x \o n)[1] = a /\ (x \o n)[2] = dot
            /\ \A i \in 1 .. Len(n) : (x \o n)[i + 2] = n[i]
         /\ /\ z \o n \in Seq(S) /\ Len(z \o n) = Len(n) + 4
            /\ (z \o n)[1] = a /\ (z \o n)[2] = dot /\ (z \o n)[3] = b /\ (z \o n)[4] = dot
            /\ \A i \in 1 .. Len(n) : (z \o n)[i + 4] = n[i]
<1>1. /\ x \in Seq(S) /\ Len(x) = 2 /\ x[1] = a /\ x[2] = dot
      /\ y \in Seq(S) /\ Len(y) = 2 /\ y[1] = b /\ y[2] = dot
  OBVIOUS
<1>2. z \in Seq(S) /\ Len(z) = 4 /\ z[1] = a /\ z[2] = dot /\ z[3] = b /\ z[4] = dot
  <2>1. z \in Seq(S) /\ Len(z) = 4
    BY <1>1
  <2>2. z[1] = x[1] /\ z[2] = x[2]
    BY <1>1, Joined
  <2>3. z[1 + 2] = y[1] /\ z[2 + 2] = y[2]
    <3>1. \A i \in 1 .. Len(y) : z[i + Len(x)] = y[i]
      BY <1>1, Joined
    <3> QED BY <1>1, <3>1
  <2>4. QED
    BY <1>1, <2>1, <2>2, <2>3
<1>3. /\ x \o n \in Seq(S) /\ Len(x \o n) = Len(n) + 2 /\ (x \o n)[1] = a /\ (x \o n)[2] = dot
      /\ \A i \in 1 .. Len(n) : (x \o n)[i + 2] = n[i]
  <2> DEFINE k == x \o n
  <2>1. /\ k \in Seq(S) /\ Len(k) = Len(x) + Len(n) /\ Len(n) \in Nat
        /\ \A i \in 1 .. Len(x) : k[i] = x[i]
        /\ \A i \in 1 .. Len(n) : k[i + Len(x)] = n[i]
    BY <1>1, Joined
  <2> HIDE DEF k
  <2>2. k \in Seq(S) /\ Len(k) = Len(n) + 2 /\ k[1] = a /\ k[2] = dot /\ \A i \in 1 .. Len(n) : k[i + 2] = n[i]
    BY <1>1, <2>1
  <2>3. QED
    BY <2>2 DEF k
<1>4. /\ z \o n \in Seq(S) /\ Len(z \o n) = Len(n) + 4
      /\ (z \o n)[1] = a /\ (z \o n)[2] = dot /\ (z \o n)[3] = b /\ (z \o n)[4] = dot
      /\ \A i \in 1 .. Len(n) : (z \o n)[i + 4] = n[i]
  <2> DEFINE k == z \o n
  <2>1. /\ k \in Seq(S) /\ Len(k) = Len(z) + Len(n) /\ Len(n) \in Nat
        /\ \A i \in 1 .. Len(z) : k[i] = z[i]
        /\ \A i \in 1 .. Len(n) : k[i + Len(z)] = n[i]
    BY <1>2, Joined
  <2> HIDE DEF k
  <2>2. /\ k \in Seq(S) /\ Len(k) = Len(n) + 4 /\ k[1] = a /\ k[2] = dot /\ k[3] = b /\ k[4] = dot
        /\ \A i \in 1 .. Len(n) : k[i + 4] = n[i]
    BY <1>2, <2>1
  <2>3. QED
    BY <2>2 DEF k
<1>5. QED
  BY <1>1, <1>3, <1>4

\* A name behind its scope: bare, in a module, or in a class.
LEMMA BareKey ==
  ASSUME NEW S, NEW n \in Seq(S)
  PROVE  Key(<<>>, n) = n
<1>1. [i \in DOMAIN <<>> |-> <<(<<>>)[i], ".">>] = <<>>
  OBVIOUS
<1>2. <<>> \o n = n
  OBVIOUS
<1>3. FlattenSeq(<<>>) = <<>>
  BY DEF FlattenSeq
<1>4. QED
  BY <1>1, <1>2, <1>3 DEF Key

\* A name behind its module, mark by mark.
LEMMA ModuleKey ==
  ASSUME NEW S, "." \in S, NEW n \in Seq(S), NEW a \in S, NEW key, key = Key(<<a>>, n)
  PROVE  /\ key \in Seq(S) /\ Len(key) = Len(n) + 2 /\ key[1] = a /\ key[2] = "."
         /\ \A i \in 1 .. Len(n) : key[i + 2] = n[i]
<1>1. PICK x : x = <<a, ".">>
  OBVIOUS
<1>2. PICK z : z = x \o x
  OBVIOUS
<1>3. /\ x \in Seq(S) /\ x \o n \in Seq(S) /\ Len(x \o n) = Len(n) + 2 /\ (x \o n)[1] = a /\ (x \o n)[2] = "."
      /\ \A i \in 1 .. Len(n) : (x \o n)[i + 2] = n[i]
  BY <1>1, <1>2, Behind
<1>4. key = x \o n
  <2>1. [i \in DOMAIN <<a>> |-> <<(<<a>>)[i], ".">>] = <<x>>
    BY <1>1
  <2>2. FlattenSeq(<<x>>) = x
    BY <1>3, FlattenFew
  <2>3. QED
    BY <2>1, <2>2 DEF Key
<1>5. QED
  BY <1>3, <1>4

\* A name behind its module and class, mark by mark.
LEMMA ClassKey ==
  ASSUME NEW S, "." \in S, NEW n \in Seq(S), NEW a \in S, NEW b \in S, NEW key, key = Key(<<a, b>>, n)
  PROVE  /\ key \in Seq(S) /\ Len(key) = Len(n) + 4 /\ key[1] = a /\ key[2] = "." /\ key[3] = b /\ key[4] = "."
         /\ \A i \in 1 .. Len(n) : key[i + 4] = n[i]
<1>1. PICK x : x = <<a, ".">>
  OBVIOUS
<1>2. PICK y : y = <<b, ".">>
  OBVIOUS
<1>3. PICK z : z = x \o y
  OBVIOUS
<1>4. /\ x \in Seq(S) /\ y \in Seq(S) /\ z \o n \in Seq(S) /\ Len(z \o n) = Len(n) + 4
      /\ (z \o n)[1] = a /\ (z \o n)[2] = "." /\ (z \o n)[3] = b /\ (z \o n)[4] = "."
      /\ \A i \in 1 .. Len(n) : (z \o n)[i + 4] = n[i]
  BY <1>1, <1>2, <1>3, Behind
<1>5. key = z \o n
  <2>1. [i \in DOMAIN <<a, b>> |-> <<(<<a, b>>)[i], ".">>] = <<x, y>>
    BY <1>1, <1>2
  <2>2. FlattenSeq(<<x, y>>) = z
    BY <1>3, <1>4, FlattenFew
  <2>3. QED
    BY <2>1, <2>2 DEF Key
<1>6. QED
  BY <1>4, <1>5

\* What an import takes of a file.
FunctionEntries == HeaderFunctions \cup PcFunctions

\* The functions and classes that an import takes of its file.
LEMMA SelectedIs ==
  ASSUME NEW imp \in ImportForms
  PROVE  /\ FunctionsOf(imp) \in Seq(FunctionEntries) /\ ClassesOf(imp) \in Seq(ClassEntries)
         /\ ToSet(FunctionsOf(imp)) = {e \in ToSet(EntriesOf(imp.file)) :
               e.kind = "function" /\ (imp.selected = {} \/ e.orig \in imp.selected)}
         /\ \A e \in ToSet(FunctionsOf(imp)) : e \in EntriesIn(imp.file.kind)
<1> DEFINE entries == EntriesOf(imp.file)
           I == {n \in DOMAIN entries : \/ entries[n].kind = "class"
                                       \/ imp.selected = {}
                                       \/ entries[n].orig \in imp.selected}
           All == EntriesIn(imp.file.kind)
<1>1. entries \in Seq(All)
  BY EntriesOfIs DEF ImportForms
<1>2. Selected(imp) = Picked(entries, I)
  BY DEF Selected
<1>3. Picked(entries, I) \in Seq(All) /\ ToSet(Picked(entries, I)) = {entries[n] : n \in I \cap DOMAIN entries}
  <2> HIDE DEF entries, I, All
  <2> QED BY <1>1, PickedIs
<1>4. {entries[n] : n \in I \cap DOMAIN entries} =
        {e \in ToSet(entries) : e.kind = "class" \/ imp.selected = {} \/ e.orig \in imp.selected}
  <2> HIDE DEF entries
  <2> QED BY DEF ToSet
<1>5. All \subseteq FunctionEntries \cup ClassEntries
  BY DEF EntriesIn, FunctionEntries
<1>6. /\ \A e \in FunctionEntries : e.kind = "function"
      /\ \A e \in ClassEntries : e.kind = "class"
  BY DEF FunctionEntries, HeaderFunctions, PcFunctions, EntryForms, ClassEntries
<1> HIDE DEF entries, I, All
<1>7. /\ FunctionsOf(imp) \in Seq({e \in All : e.kind = "function"})
      /\ ToSet(FunctionsOf(imp)) = {e \in ToSet(Selected(imp)) : e.kind = "function"}
  BY <1>2, <1>3, OfKindIs DEF FunctionsOf
<1>8. ClassesOf(imp) \in Seq({e \in All : e.kind = "class"})
  BY <1>2, <1>3, OfKindIs DEF ClassesOf
<1>9. {e \in All : e.kind = "function"} \subseteq FunctionEntries /\ {e \in All : e.kind = "class"} \subseteq ClassEntries
  BY <1>5, <1>6
<1>10. FunctionsOf(imp) \in Seq(FunctionEntries) /\ ClassesOf(imp) \in Seq(ClassEntries)
  BY <1>7, <1>8, <1>9
<1>11. ToSet(FunctionsOf(imp)) = {e \in ToSet(entries) : e.kind = "function" /\ (imp.selected = {} \/ e.orig \in imp.selected)}
  BY <1>2, <1>3, <1>4, <1>7
<1>12. \A e \in ToSet(FunctionsOf(imp)) : e \in All
  BY <1>1, <1>11, ElementsOf
<1>13. QED
  BY <1>10, <1>11, <1>12 DEF entries, All

\* The form of the mangled names of functions and of methods.
LEMMA MangledForms ==
  /\ \A e \in FunctionEntries : /\ e \in EntryForms
                                /\ \E l \in Seq(Pieces) : e.pc = <<"_pC">> \o e.orig \o l
  /\ \A m \in MethodEntries : /\ m \in EntryForms
                              /\ \E l \in Seq(Pieces) : m.pc = <<"_pC">> \o m.orig \o (<<"2">> \o l)
<1>1. ASSUME NEW e \in FunctionEntries
      PROVE  e \in EntryForms /\ \E l \in Seq(Pieces) : e.pc = <<"_pC">> \o e.orig \o l
  <2>1. e \in EntryForms
    BY DEF FunctionEntries, HeaderFunctions, PcFunctions
  <2>2. e.params \in Seq(KnownTypes)
    BY <2>1 DEF EntryForms
  <2>3. LettersOf(e.params, Letters) \in Seq(Pieces) /\ LettersOf(e.params, PcLetters) \in Seq(Pieces)
    BY <2>2, LettersOfArePieces
  <2>4. e.pc = Mangled(e.orig, LettersOf(e.params, Letters)) \/ e.pc = Mangled(e.orig, LettersOf(e.params, PcLetters))
    BY DEF FunctionEntries, HeaderFunctions, PcFunctions
  <2>5. QED
    BY <2>1, <2>3, <2>4 DEF Mangled
<1>2. ASSUME NEW m \in MethodEntries
      PROVE  m \in EntryForms /\ \E l \in Seq(Pieces) : m.pc = <<"_pC">> \o m.orig \o (<<"2">> \o l)
  <2>1. PICK ts \in Seq(KnownTypes) : m.pc = Mangled(m.orig, <<"2">> \o LettersOf(ts, Letters))
    BY DEF MethodEntries
  <2>2. LettersOf(ts, Letters) \in Seq(Pieces)
    BY LettersOfArePieces
  <2>3. m \in EntryForms
    BY DEF MethodEntries
  <2>4. QED
    BY <2>1, <2>2, <2>3 DEF Mangled
<1>3. QED
  BY <1>1, <1>2

\* The pieces of a name and of what it is trimmed to.
LEMMA TrimmedIs ==
  ASSUME NEW n \in FullNames, NEW l \in Seq(Pieces)
  PROVE  /\ <<"_pC">> \o n \o l \in Seq(Pieces) /\ Len(<<"_pC">> \o n \o l) >= 2
         /\ (<<"_pC">> \o n \o l)[1] = "_pC" /\ (<<"_pC">> \o n \o l)[2] = n[1]
         /\ Trimmed(<<"_pC">> \o n \o (<<"2">> \o l)) \in Seq(Pieces)
         /\ Len(Trimmed(<<"_pC">> \o n \o (<<"2">> \o l))) >= 2
<1>1. n \in Seq(Pieces) /\ Len(n) \in Nat /\ Len(n) >= 1 /\ "_pC" \in Pieces /\ "2" \in Pieces
  <2>1. n \in Seq(Parts) /\ n # <<>> /\ Parts \subseteq Pieces
    BY DEF FullNames, Pieces
  <2>2. Len(n) # 0
    BY <2>1, EmptySeq
  <2>3. QED
    BY <2>1, <2>2 DEF Pieces
<1>2. /\ <<"_pC">> \o n \o l \in Seq(Pieces) /\ Len(<<"_pC">> \o n \o l) = 1 + Len(n) + Len(l)
      /\ (<<"_pC">> \o n \o l)[1] = "_pC" /\ (<<"_pC">> \o n \o l)[2] = n[1]
  BY <1>1
<1> DEFINE k == <<"2">> \o l
           pc == <<"_pC">> \o n \o k
           t == Tail(pc)
<1>3. k \in Seq(Pieces) /\ Len(k) = 1 + Len(l) /\ k[1] = "2"
  BY <1>1
<1> HIDE DEF k
<1>4. t \in Seq(Pieces) /\ Len(t) = Len(n) + Len(k) /\ Len(l) \in Nat
  BY <1>1, <1>3
<1>5. Len(l) = 0 => t[Len(t)] = "2"
  <2>1. SUFFICES ASSUME Len(l) = 0 PROVE t[Len(t)] = "2"
    OBVIOUS
  <2>2. Len(t) = Len(n) + 1 /\ Len(pc) = Len(n) + 2 /\ pc[Len(n) + 2] = k[1]
    BY <1>1, <1>3, <1>4, <2>1
  <2>3. t[Len(n) + 1] = pc[Len(n) + 2]
    BY <1>1, <1>3, <1>4, <2>2
  <2>4. QED
    BY <1>3, <2>2, <2>3
<1>6. Trimmed(pc) = IF Last(t) \in {"i", "f", "b", "s", "v", "p"} THEN Front(t) ELSE t
  BY DEF Trimmed
<1> HIDE DEF pc, t
<1>7. Front(t) \in Seq(Pieces) /\ Len(Front(t)) = Len(t) - 1
  BY <1>1, <1>3, <1>4 DEF Front
<1>8. Trimmed(pc) \in Seq(Pieces) /\ Len(Trimmed(pc)) >= 2
  <2>1. CASE Len(l) = 0
    <3>1. Last(t) = "2"
      BY <1>5, <2>1 DEF Last
    <3>2. Trimmed(pc) = t
      BY <1>6, <3>1
    <3>3. QED
      BY <1>1, <1>3, <1>4, <3>2
  <2>2. CASE Len(l) # 0
    BY <1>1, <1>3, <1>4, <1>6, <1>7, <2>2
  <2>3. QED
    BY <2>1, <2>2
<1>9. QED
  BY <1>1, <1>2, <1>4, <1>8 DEF pc, k

\* Names and keys, and what a key names.
Marks == Pieces \cup {"."}
MapForms == [key : Seq(Marks), symbol : Seq(Pieces)]

\* The maps of an import, for its functions and for its methods.
IsFunctionMap(m, imp) ==
  \E e \in ToSet(FunctionsOf(imp)), scope \in ToSet(ScopesOf(imp)) :
    m = Map(Key(scope, e.pc), e.symbol) \/ m = Map(Key(scope, e.orig), e.symbol)

IsMethodMapOf(m, class, scope) ==
  \E k \in ToSet(class.methods) :
    \E name \in {k.pc, Trimmed(k.pc), k.orig} : m = Map(Key(<<scope, class.name>>, name), k.symbol)

IsMethodMap(m, imp) ==
  \E class \in ToSet(ClassesOf(imp)), scope \in ToSet(ClassScopes(imp)) : IsMethodMapOf(m, class, scope)

\* A sequence of one, of two or of three.
LEMMA One ==
  ASSUME NEW S, NEW a \in S
  PROVE  <<>> \in Seq(S) /\ <<a>> \in Seq(S) /\ ToSet(<<a>>) = {a}
<1>1. <<>> \in Seq(S) /\ <<a>> \in Seq(S) /\ DOMAIN <<a>> = {1} /\ <<a>>[1] = a
  OBVIOUS
<1>2. QED
  BY <1>1 DEF ToSet

\* The scopes of functions and of classes.
LEMMA ScopesAre ==
  ASSUME NEW imp \in ImportForms
  PROVE  /\ RegisteredAs(imp) \in Parts
         /\ ScopesOf(imp) \in Seq({<<>>} \cup {<<s>> : s \in Parts})
         /\ ClassScopes(imp) \in Seq(Parts)
<1>1. imp.submodule \in Parts /\ imp.alias \in Parts /\ imp.module \in Parts
  BY DEF ImportForms
<1>2. RegisteredAs(imp) \in Parts
  BY <1>1 DEF RegisteredAs
<1> DEFINE All == {<<>>} \cup {<<s>> : s \in Parts}
<1>3. <<>> \in All /\ <<RegisteredAs(imp)>> \in All /\ <<imp.alias>> \in All /\ <<imp.module>> \in All
  BY <1>1, <1>2
<1> HIDE DEF All
<1>4. ScopesOf(imp) \in Seq(All)
  <2> DEFINE alias == IF imp.alias = "" THEN <<>> ELSE <<<<imp.alias>>>>
             own == IF imp.alias = "" \/ RegisteredAs(imp) = imp.module THEN <<>> ELSE <<<<imp.module>>>>
  <2>1. alias \in Seq(All) /\ own \in Seq(All) /\ <<<<>>>> \in Seq(All) /\ <<<<RegisteredAs(imp)>>>> \in Seq(All)
    <3>1. \A a \in All : <<>> \in Seq(All) /\ <<a>> \in Seq(All)
      BY One
    <3> QED BY <1>3, <3>1
  <2>2. ScopesOf(imp) = IF Bare(imp) THEN <<<<>>>> \o alias ELSE <<<<RegisteredAs(imp)>>>> \o own
    BY DEF ScopesOf
  <2> HIDE DEF alias, own
  <2>3. <<<<>>>> \o alias \in Seq(All) /\ <<<<RegisteredAs(imp)>>>> \o own \in Seq(All)
    BY <2>1, Joined
  <2>4. QED
    BY <2>2, <2>3
<1>5. ClassScopes(imp) \in Seq(Parts)
  <2> DEFINE own == IF imp.alias = "" \/ RegisteredAs(imp) = imp.module THEN <<>> ELSE <<imp.module>>
  <2>1. <<RegisteredAs(imp)>> \in Seq(Parts) /\ own \in Seq(Parts)
    <3>1. \A a \in Parts : <<>> \in Seq(Parts) /\ <<a>> \in Seq(Parts)
      BY One
    <3> QED BY <1>1, <1>2, <3>1
  <2>2. ClassScopes(imp) = <<RegisteredAs(imp)>> \o own
    BY DEF ClassScopes
  <2> HIDE DEF own
  <2>3. QED
    BY <2>1, <2>2, Joined
<1>6. QED
  BY <1>2, <1>4, <1>5 DEF All

\* A name is made of pieces and a key of marks.
LEMMA KeyForms ==
  ASSUME NEW n \in Seq(Pieces)
  PROVE  /\ \A scope \in {<<>>} \cup {<<s>> : s \in Parts} : Key(scope, n) \in Seq(Marks)
         /\ \A s, c \in Parts : Key(<<s, c>>, n) \in Seq(Marks)
<1>1. n \in Seq(Marks) /\ "." \in Marks /\ Parts \subseteq Marks
  BY DEF Marks, Pieces
<1>2. \A s \in Marks : Key(<<>>, n) = n /\ Key(<<s>>, n) \in Seq(Marks)
  BY <1>1, BareKey, ModuleKey
<1>3. \A s, c \in Marks : Key(<<s, c>>, n) \in Seq(Marks)
  BY <1>1, ClassKey
<1>4. QED
  BY <1>1, <1>2, <1>3

\* Names in a file are made of pieces.
LEMMA NamesArePieces == FullNames \subseteq Seq(Pieces)
<1>1. Parts \subseteq Pieces
  BY DEF Pieces
<1>2. QED
  BY <1>1 DEF FullNames

\* The members of a sequence of two and of one of three.
LEMMA TwoElements ==
  ASSUME NEW S, NEW a \in S, NEW b \in S
  PROVE  <<a, b>> \in Seq(S) /\ ToSet(<<a, b>>) = {a, b}
<1>1. <<a, b>> \in Seq(S) /\ DOMAIN <<a, b>> = {1, 2} /\ <<a, b>>[1] = a /\ <<a, b>>[2] = b
  OBVIOUS
<1>2. QED
  BY <1>1 DEF ToSet

\* The elements of a sequence of three.
LEMMA ThreeElements ==
  ASSUME NEW S, NEW a \in S, NEW b \in S, NEW c \in S
  PROVE  <<a, b, c>> \in Seq(S) /\ ToSet(<<a, b, c>>) = {a, b, c}
<1>1. /\ <<a, b, c>> \in Seq(S) /\ DOMAIN <<a, b, c>> = {1, 2, 3}
      /\ <<a, b, c>>[1] = a /\ <<a, b, c>>[2] = b /\ <<a, b, c>>[3] = c
  OBVIOUS
<1>2. QED
  BY <1>1 DEF ToSet

\* The names that register_func_map gives to one function.
LEMMA MapsOfIs ==
  ASSUME NEW e \in FunctionEntries, NEW scopes \in Seq({<<>>} \cup {<<s>> : s \in Parts})
  PROVE  /\ MapsOf(e, scopes) \in Seq(MapForms)
         /\ \A m : m \in ToSet(MapsOf(e, scopes)) <=>
              \E scope \in ToSet(scopes) : m = Map(Key(scope, e.pc), e.symbol) \/ m = Map(Key(scope, e.orig), e.symbol)
<1> DEFINE ss == [i \in DOMAIN scopes |-> <<Map(Key(scopes[i], e.pc), e.symbol), Map(Key(scopes[i], e.orig), e.symbol)>>]
           All == {<<>>} \cup {<<s>> : s \in Parts}
<1>1. e.pc \in Seq(Pieces) /\ e.orig \in Seq(Pieces) /\ e.symbol \in Seq(Pieces)
  <2>1. e \in EntryForms
    BY MangledForms
  <2>2. QED
    BY <2>1, NamesArePieces DEF EntryForms
<1>2. \A s \in All : Key(s, e.pc) \in Seq(Marks) /\ Key(s, e.orig) \in Seq(Marks)
  BY <1>1, KeyForms
<1> HIDE DEF All
<1>3. DOMAIN scopes = 1 .. Len(scopes) /\ Len(scopes) \in Nat /\ \A i \in 1 .. Len(scopes) : scopes[i] \in All
  BY DEF All
<1>4. \A s \in All : Map(Key(s, e.pc), e.symbol) \in MapForms /\ Map(Key(s, e.orig), e.symbol) \in MapForms
  BY <1>1, <1>2 DEF Map, MapForms
<1> DEFINE pc(i) == Map(Key(scopes[i], e.pc), e.symbol)
           orig(i) == Map(Key(scopes[i], e.orig), e.symbol)
<1>5. ASSUME NEW i \in 1 .. Len(scopes)
      PROVE  ss[i] \in Seq(MapForms) /\ ToSet(ss[i]) = {pc(i), orig(i)}
  <2>1. PICK a, b : a = pc(i) /\ b = orig(i)
    OBVIOUS
  <2>2. a \in MapForms /\ b \in MapForms
    BY <1>3, <1>4, <2>1
  <2>3. ss[i] = <<a, b>>
    BY <1>3, <2>1
  <2>4. <<a, b>> \in Seq(MapForms) /\ ToSet(<<a, b>>) = {a, b}
    BY <2>2, TwoElements
  <2>5. QED
    BY <2>1, <2>3, <2>4
<1>6. ss \in Seq(Seq(MapForms)) /\ DOMAIN ss = 1 .. Len(scopes)
  <2>1. DOMAIN ss = 1 .. Len(scopes) /\ ss = [i \in 1 .. Len(scopes) |-> ss[i]]
    BY <1>3
  <2> HIDE DEF ss
  <2>2. QED
    BY <1>3, <1>5, <2>1
<1>7. MapsOf(e, scopes) = FlattenSeq(ss)
  BY DEF MapsOf
<1> HIDE DEF ss
<1>8. FlattenSeq(ss) \in Seq(MapForms) /\ ToSet(FlattenSeq(ss)) = UNION {ToSet(ss[i]) : i \in DOMAIN ss}
  BY <1>6, FlattenIs
<1>9. \A m : m \in ToSet(MapsOf(e, scopes)) <=> \E i \in 1 .. Len(scopes) : m \in ToSet(ss[i])
  BY <1>6, <1>7, <1>8
<1>10. ToSet(scopes) = {scopes[i] : i \in 1 .. Len(scopes)}
  BY <1>3 DEF ToSet
<1>11. ASSUME NEW m
       PROVE  m \in ToSet(MapsOf(e, scopes)) <=>
                \E scope \in ToSet(scopes) : m = Map(Key(scope, e.pc), e.symbol) \/ m = Map(Key(scope, e.orig), e.symbol)
  <2>1. m \in ToSet(MapsOf(e, scopes)) <=> \E i \in 1 .. Len(scopes) : m = pc(i) \/ m = orig(i)
    <3>1. \A i \in 1 .. Len(scopes) : m \in ToSet(ss[i]) <=> m = pc(i) \/ m = orig(i)
      BY <1>5
    <3>2. m \in ToSet(MapsOf(e, scopes)) <=> \E i \in 1 .. Len(scopes) : m \in ToSet(ss[i])
      BY <1>9
    <3> HIDE DEF pc, orig
    <3> QED BY <3>1, <3>2
  <2>2. QED
    BY <1>10, <2>1
<1>12. QED
  BY <1>7, <1>8, <1>11

\* What an import gives names to.
LEMMA FunctionMapsAre ==
  ASSUME NEW imp \in ImportForms
  PROVE  FunctionMaps(imp) \in Seq(MapForms) /\ \A m : m \in ToSet(FunctionMaps(imp)) <=> IsFunctionMap(m, imp)
<1> DEFINE fs == FunctionsOf(imp)
           scopes == ScopesOf(imp)
           ss == [i \in DOMAIN fs |-> MapsOf(fs[i], scopes)]
<1>1. fs \in Seq(FunctionEntries) /\ scopes \in Seq({<<>>} \cup {<<s>> : s \in Parts})
  BY SelectedIs, ScopesAre
<1>2. FunctionMaps(imp) = FlattenSeq(ss)
  BY DEF FunctionMaps
<1>3. \A m : IsFunctionMap(m, imp) <=>
        \E e \in ToSet(fs), scope \in ToSet(scopes) : m = Map(Key(scope, e.pc), e.symbol) \/ m = Map(Key(scope, e.orig), e.symbol)
  BY DEF IsFunctionMap
<1> HIDE DEF fs, scopes
<1>4. DOMAIN fs = 1 .. Len(fs) /\ Len(fs) \in Nat /\ \A i \in 1 .. Len(fs) : fs[i] \in FunctionEntries
  BY <1>1
<1>5. DOMAIN ss = 1 .. Len(fs) /\ \A i \in 1 .. Len(fs) : ss[i] = MapsOf(fs[i], scopes)
  BY <1>4
<1>6. ASSUME NEW i \in 1 .. Len(fs)
      PROVE  /\ ss[i] \in Seq(MapForms)
             /\ \A m : m \in ToSet(ss[i]) <=>
                  \E scope \in ToSet(scopes) : m = Map(Key(scope, fs[i].pc), fs[i].symbol) \/ m = Map(Key(scope, fs[i].orig), fs[i].symbol)
  BY <1>1, <1>4, <1>5, MapsOfIs
<1>7. ss \in Seq(Seq(MapForms))
  <2>1. ss = [i \in 1 .. Len(fs) |-> ss[i]]
    BY <1>4
  <2> HIDE DEF ss
  <2>2. QED
    BY <1>4, <1>6, <2>1
<1> HIDE DEF ss
<1>8. FlattenSeq(ss) \in Seq(MapForms) /\ ToSet(FlattenSeq(ss)) = UNION {ToSet(ss[i]) : i \in DOMAIN ss}
  BY <1>7, FlattenIs
<1>9. ToSet(fs) = {fs[i] : i \in 1 .. Len(fs)}
  BY <1>4 DEF ToSet
<1>10. ASSUME NEW m PROVE m \in ToSet(FunctionMaps(imp)) <=> IsFunctionMap(m, imp)
  <2>1. m \in ToSet(FunctionMaps(imp)) <=> \E i \in 1 .. Len(fs) : m \in ToSet(ss[i])
    BY <1>2, <1>5, <1>8
  <2>2. m \in ToSet(FunctionMaps(imp)) <=>
          \E i \in 1 .. Len(fs) : \E scope \in ToSet(scopes) :
            m = Map(Key(scope, fs[i].pc), fs[i].symbol) \/ m = Map(Key(scope, fs[i].orig), fs[i].symbol)
    BY <1>6, <2>1
  <2>3. QED
    BY <1>3, <1>9, <2>2
<1>11. QED
  BY <1>2, <1>8, <1>10

\* A method's names.
LEMMA MethodNames ==
  ASSUME NEW m \in MethodEntries
  PROVE  /\ m.pc \in Seq(Pieces) /\ Trimmed(m.pc) \in Seq(Pieces) /\ m.orig \in Seq(Pieces) /\ m.symbol \in Seq(Pieces)
         /\ m.orig \in FullNames /\ Len(m.pc) >= 2 /\ Len(Trimmed(m.pc)) >= 2
<1>1. m \in EntryForms
  BY MangledForms
<1>2. PICK l \in Seq(Pieces) : m.pc = <<"_pC">> \o m.orig \o (<<"2">> \o l)
  BY MangledForms
<1>3. m.orig \in FullNames /\ m.symbol \in Seq(Pieces) /\ m.pc \in Seq(Pieces)
  BY <1>1 DEF EntryForms
<1>4. Trimmed(m.pc) \in Seq(Pieces) /\ Len(Trimmed(m.pc)) >= 2
  BY <1>2, <1>3, TrimmedIs
<1>5. Len(m.pc) >= 2
  <2>1. PICK l2 : l2 = <<"2">> \o l
    OBVIOUS
  <2>2. l2 \in Seq(Pieces)
    <3>1. "2" \in Pieces
      BY DEF Pieces
    <3>2. <<"2">> \in Seq(Pieces)
      BY <3>1, One
    <3>3. QED
      BY <2>1, <3>2, Joined
  <2>3. m.pc = <<"_pC">> \o m.orig \o l2
    BY <1>2, <2>1
  <2>4. QED
    BY <1>3, <2>2, <2>3, TrimmedIs
<1>6. QED
  BY <1>3, <1>4, <1>5, NamesArePieces

\* The names that register_class_func_maps gives to the methods of one class.
LEMMA MethodMapsAre ==
  ASSUME NEW class \in ClassEntries, NEW scope \in Parts
  PROVE  MethodMaps(class, scope) \in Seq(MapForms) /\ \A m : m \in ToSet(MethodMaps(class, scope)) <=> IsMethodMapOf(m, class, scope)
<1> DEFINE ms == class.methods
           Name(n) == Key(<<scope, class.name>>, n)
           ss == [i \in DOMAIN ms |-> <<Map(Name(ms[i].pc), ms[i].symbol), Map(Name(Trimmed(ms[i].pc)), ms[i].symbol),
                                        Map(Name(ms[i].orig), ms[i].symbol)>>]
<1>1. ms \in Seq(MethodEntries) /\ class.name \in Parts
  BY DEF ClassEntries
<1>2. MethodMaps(class, scope) = FlattenSeq(ss)
  BY DEF MethodMaps
<1>3. \A m : IsMethodMapOf(m, class, scope) <=>
        \E k \in ToSet(ms) : \E name \in {k.pc, Trimmed(k.pc), k.orig} : m = Map(Name(name), k.symbol)
  BY DEF IsMethodMapOf
<1>4. \A n \in Seq(Pieces) : Name(n) \in Seq(Marks)
  BY <1>1, KeyForms
<1> HIDE DEF ms, Name
<1>5. DOMAIN ms = 1 .. Len(ms) /\ Len(ms) \in Nat /\ \A i \in 1 .. Len(ms) : ms[i] \in MethodEntries
  BY <1>1
<1>6. \A k \in MethodEntries : /\ Map(Name(k.pc), k.symbol) \in MapForms /\ Map(Name(Trimmed(k.pc)), k.symbol) \in MapForms
                                /\ Map(Name(k.orig), k.symbol) \in MapForms
  <2>1. \A k \in MethodEntries : k.pc \in Seq(Pieces) /\ Trimmed(k.pc) \in Seq(Pieces) /\ k.orig \in Seq(Pieces) /\ k.symbol \in Seq(Pieces)
    BY MethodNames
  <2>2. QED
    BY <1>4, <2>1 DEF Map, MapForms
<1>7. ASSUME NEW i \in 1 .. Len(ms)
      PROVE  /\ ss[i] \in Seq(MapForms)
             /\ \A m : m \in ToSet(ss[i]) <=> \E name \in {ms[i].pc, Trimmed(ms[i].pc), ms[i].orig} : m = Map(Name(name), ms[i].symbol)
  <2>1. PICK a, b, c : a = Map(Name(ms[i].pc), ms[i].symbol) /\ b = Map(Name(Trimmed(ms[i].pc)), ms[i].symbol) /\ c = Map(Name(ms[i].orig), ms[i].symbol)
    OBVIOUS
  <2>2. a \in MapForms /\ b \in MapForms /\ c \in MapForms
    BY <1>5, <1>6, <2>1
  <2>3. ss[i] = <<a, b, c>>
    BY <1>5, <2>1
  <2>4. <<a, b, c>> \in Seq(MapForms) /\ ToSet(<<a, b, c>>) = {a, b, c}
    <3> HIDE DEF ss
    <3>1. \A x, y, z \in MapForms : <<x, y, z>> \in Seq(MapForms) /\ ToSet(<<x, y, z>>) = {x, y, z}
      BY ThreeElements
    <3> QED BY <2>2, <3>1
  <2>5. QED
    BY <2>1, <2>3, <2>4
<1>8. ss \in Seq(Seq(MapForms)) /\ DOMAIN ss = 1 .. Len(ms)
  <2>1. DOMAIN ss = 1 .. Len(ms) /\ ss = [i \in 1 .. Len(ms) |-> ss[i]]
    BY <1>5
  <2> HIDE DEF ss
  <2>2. QED
    BY <1>5, <1>7, <2>1
<1> HIDE DEF ss
<1>9. FlattenSeq(ss) \in Seq(MapForms) /\ ToSet(FlattenSeq(ss)) = UNION {ToSet(ss[i]) : i \in DOMAIN ss}
  BY <1>8, FlattenIs
<1>10. ToSet(ms) = {ms[i] : i \in 1 .. Len(ms)}
  BY <1>5 DEF ToSet
<1>11. ASSUME NEW m PROVE m \in ToSet(MethodMaps(class, scope)) <=> IsMethodMapOf(m, class, scope)
  <2>1. m \in ToSet(MethodMaps(class, scope)) <=> \E i \in 1 .. Len(ms) : m \in ToSet(ss[i])
    BY <1>2, <1>8, <1>9
  <2>2. m \in ToSet(MethodMaps(class, scope)) <=>
          \E i \in 1 .. Len(ms) : \E name \in {ms[i].pc, Trimmed(ms[i].pc), ms[i].orig} : m = Map(Name(name), ms[i].symbol)
    BY <1>7, <2>1
  <2>3. QED
    BY <1>3, <1>10, <2>2
<1>12. QED
  BY <1>2, <1>9, <1>11

\* The names of the methods of an import.
LEMMA ClassMapsAre ==
  ASSUME NEW imp \in ImportForms
  PROVE  ClassMaps(imp) \in Seq(MapForms) /\ \A m : m \in ToSet(ClassMaps(imp)) <=> IsMethodMap(m, imp)
<1> DEFINE cs == ClassesOf(imp)
           scopes == ClassScopes(imp)
           in(scope) == [i \in DOMAIN cs |-> MethodMaps(cs[i], scope)]
           ss == [j \in DOMAIN scopes |-> FlattenSeq(in(scopes[j]))]
<1>1. cs \in Seq(ClassEntries) /\ scopes \in Seq(Parts)
  BY SelectedIs, ScopesAre
<1>2. ClassMaps(imp) = FlattenSeq(ss)
  BY DEF ClassMaps
<1>3. \A m : IsMethodMap(m, imp) <=> \E class \in ToSet(cs), scope \in ToSet(scopes) : IsMethodMapOf(m, class, scope)
  BY DEF IsMethodMap
<1> HIDE DEF cs, scopes
<1>4. /\ DOMAIN cs = 1 .. Len(cs) /\ Len(cs) \in Nat /\ \A i \in 1 .. Len(cs) : cs[i] \in ClassEntries
      /\ DOMAIN scopes = 1 .. Len(scopes) /\ Len(scopes) \in Nat /\ \A j \in 1 .. Len(scopes) : scopes[j] \in Parts
  BY <1>1
<1>5. ToSet(cs) = {cs[i] : i \in 1 .. Len(cs)} /\ ToSet(scopes) = {scopes[j] : j \in 1 .. Len(scopes)}
  BY <1>4 DEF ToSet
<1>6. ASSUME NEW scope \in Parts
      PROVE  /\ FlattenSeq(in(scope)) \in Seq(MapForms)
             /\ \A m : m \in ToSet(FlattenSeq(in(scope))) <=> \E class \in ToSet(cs) : IsMethodMapOf(m, class, scope)
  <2> DEFINE t == in(scope)
  <2>1. DOMAIN t = 1 .. Len(cs) /\ t = [i \in 1 .. Len(cs) |-> t[i]]
    BY <1>4
  <2>2. ASSUME NEW i \in 1 .. Len(cs)
        PROVE  t[i] \in Seq(MapForms) /\ \A m : m \in ToSet(t[i]) <=> IsMethodMapOf(m, cs[i], scope)
    <3>1. t[i] = MethodMaps(cs[i], scope)
      BY <1>4
    <3> HIDE DEF t
    <3>2. QED
      BY <1>4, <3>1, MethodMapsAre
  <2> HIDE DEF t
  <2>3. t \in Seq(Seq(MapForms))
    BY <1>4, <2>1, <2>2
  <2>4. FlattenSeq(t) \in Seq(MapForms) /\ ToSet(FlattenSeq(t)) = UNION {ToSet(t[i]) : i \in DOMAIN t}
    BY <2>3, FlattenIs
  <2>5. ASSUME NEW m PROVE m \in ToSet(FlattenSeq(t)) <=> \E class \in ToSet(cs) : IsMethodMapOf(m, class, scope)
    <3>1. m \in ToSet(FlattenSeq(t)) <=> \E i \in 1 .. Len(cs) : m \in ToSet(t[i])
      BY <2>1, <2>4
    <3>2. m \in ToSet(FlattenSeq(t)) <=> \E i \in 1 .. Len(cs) : IsMethodMapOf(m, cs[i], scope)
      BY <2>2, <3>1
    <3>3. QED
      BY <1>5, <3>2
  <2>6. QED
    BY <2>4, <2>5 DEF t
<1> HIDE DEF in
<1>7. DOMAIN ss = 1 .. Len(scopes) /\ ss = [j \in 1 .. Len(scopes) |-> ss[j]] /\ \A j \in 1 .. Len(scopes) : ss[j] = FlattenSeq(in(scopes[j]))
  BY <1>4
<1> HIDE DEF ss
<1>8. ASSUME NEW j \in 1 .. Len(scopes)
      PROVE  /\ ss[j] \in Seq(MapForms)
             /\ \A m : m \in ToSet(ss[j]) <=> \E class \in ToSet(cs) : IsMethodMapOf(m, class, scopes[j])
  BY <1>4, <1>6, <1>7
<1>9. ss \in Seq(Seq(MapForms))
  BY <1>4, <1>7, <1>8
<1>10. FlattenSeq(ss) \in Seq(MapForms) /\ ToSet(FlattenSeq(ss)) = UNION {ToSet(ss[i]) : i \in DOMAIN ss}
  BY <1>9, FlattenIs
<1>11. ASSUME NEW m PROVE m \in ToSet(ClassMaps(imp)) <=> IsMethodMap(m, imp)
  <2>1. m \in ToSet(ClassMaps(imp)) <=> \E j \in 1 .. Len(scopes) : m \in ToSet(ss[j])
    BY <1>2, <1>7, <1>10
  <2>2. m \in ToSet(ClassMaps(imp)) <=> \E j \in 1 .. Len(scopes) : \E class \in ToSet(cs) : IsMethodMapOf(m, class, scopes[j])
    BY <1>8, <2>1
  <2>3. m \in ToSet(ClassMaps(imp)) <=> \E scope \in ToSet(scopes) : \E class \in ToSet(cs) : IsMethodMapOf(m, class, scope)
    BY <1>5, <2>2
  <2>4. QED
    BY <1>3, <2>3
<1>12. QED
  BY <1>2, <1>10, <1>11

-----------------------------------------------------------------------------
(* What the code generator knows when it reads a body.                     *)

\* The code generator has the names of the imports above it and no others, and what it has still to
\* read is of the function above.
ImportMaps(i) == UNION {ToSet(FunctionMaps(imp)) \cup ToSet(ClassMaps(imp)) : imp \in ImportsTo(i)}

Reading ==
  /\ program \in Programs /\ at \in Nat \ {0}
  /\ phase \in {"declare", "check"} => maps = <<>> /\ todo = <<>>
  /\ phase = "generate" => maps \in Seq(MapForms) /\ ToSet(maps) = ImportMaps(at - 1)
  /\ todo # <<>> => /\ at - 1 \in 1 .. Len(program) /\ program[at - 1].kind = "function"
                    /\ todo \in Seq(ToSet(program[at - 1].body))

\* A declaration adds its import to those above, if it is one.
LEMMA ImportsGrow ==
  ASSUME program \in Programs, NEW i \in 1 .. Len(program)
  PROVE  /\ program[i].kind = "import" => ImportsTo(i) = ImportsTo(i - 1) \cup {program[i]}
         /\ program[i].kind = "function" => ImportsTo(i) = ImportsTo(i - 1)
         /\ ImportsTo(i) \subseteq ImportForms
         /\ ImportsTo(0) = {}
         /\ \A j \in 0 .. i : ImportsTo(j) \subseteq ImportsTo(i)
<1>1. program[i].kind = "import" => ImportsTo(i) = ImportsTo(i - 1) \cup {program[i]}
  BY DEF ImportsTo
<1>2. program[i].kind = "function" => ImportsTo(i) = ImportsTo(i - 1)
  BY DEF ImportsTo
<1>3. ImportsTo(i) \subseteq ImportForms
  <2>1. ASSUME NEW j \in 1 .. i, program[j].kind = "import" PROVE program[j] \in ImportForms
    <3>1. j \in 1 .. Len(program)
      BY ProgramIs
    <3>2. QED
      BY <2>1, <3>1, DeclarationForms
  <2>2. QED
    BY <2>1 DEF ImportsTo
<1>4. ImportsTo(0) = {} /\ \A j \in 0 .. i : ImportsTo(j) \subseteq ImportsTo(i)
  BY DEF ImportsTo
<1>5. QED
  BY <1>1, <1>2, <1>3, <1>4

\* The code generator has the names of the imports above it.  (codegen_import, codegen_func_decl)
THEOREM ReadingIs == Spec => []Reading
<1>1. Init => Reading
  BY DEF Init, Reading
<1>2. Reading /\ [Next]_vars => Reading'
  <2> SUFFICES ASSUME Reading, [Next]_vars PROVE Reading'
    OBVIOUS
  <2>1. CASE UNCHANGED vars
    BY <2>1 DEF vars, Reading, ImportMaps, ImportsTo
  <2>2. CASE Declare
    <3>1. /\ UNCHANGED <<program, phase, todo, maps>> /\ at' = at + 1 /\ at + 1 \in Nat \ {0} /\ phase = "declare"
      BY <2>2 DEF Declare, Reading
    <3>2. QED
      BY <3>1 DEF Reading
  <2>3. CASE Check
    <3>1. /\ UNCHANGED <<program, todo, maps>> /\ at' = at + 1 /\ at + 1 \in Nat \ {0} /\ phase = "check" /\ phase' \in {"check", "rejected"}
      BY <2>3 DEF Check, Reading
    <3>2. QED
      BY <3>1 DEF Reading
  <2>4. CASE NextPhase
    <3>1. /\ UNCHANGED <<program, todo, maps>> /\ at' = 1 /\ todo = <<>>
          /\ \/ phase = "declare" /\ phase' = "check"
             \/ phase = "check" /\ phase' = "generate"
             \/ phase' = "built"
      BY <2>4 DEF NextPhase
    <3>2. ImportMaps(0) = {} /\ <<>> \in Seq(MapForms) /\ ToSet(<<>>) = {}
      <4>1. ImportsTo(0) = {}
        BY DEF ImportsTo
      <4>2. QED
        BY <4>1, ElementsOf DEF ImportMaps
    <3>3. maps' = maps /\ ImportMaps(0)' = ImportMaps(0)
      BY <3>1 DEF ImportMaps, ImportsTo
    <3>4. 1 \in Nat \ {0} /\ 1 - 1 = 0
      OBVIOUS
    <3>5. QED
      BY <3>1, <3>2, <3>3, <3>4 DEF Reading
  <2>5. CASE GenerateImport
    <3>1. /\ UNCHANGED <<program, phase, todo>> /\ at' = at + 1 /\ todo = <<>> /\ phase = "generate"
          /\ at \in 1 .. Len(program) /\ program[at].kind = "import"
          /\ maps' = maps \o FunctionMaps(program[at]) \o ClassMaps(program[at])
      BY <2>5, ProgramIs DEF GenerateImport, Decl, Reading
    <3>2. PICK imp \in ImportForms : imp = program[at]
      BY <3>1, DeclarationForms DEF Reading
    <3>3. ImportsTo(at) = ImportsTo(at - 1) \cup {imp}
      BY <3>1, <3>2, ImportsGrow DEF Reading
    <3>4. ImportMaps(at) = ImportMaps(at - 1) \cup (ToSet(FunctionMaps(imp)) \cup ToSet(ClassMaps(imp)))
      BY <3>3 DEF ImportMaps
    <3>5. FunctionMaps(imp) \in Seq(MapForms) /\ ClassMaps(imp) \in Seq(MapForms)
      BY <3>2, FunctionMapsAre, ClassMapsAre
    <3>6. maps \in Seq(MapForms) /\ ToSet(maps) = ImportMaps(at - 1)
      BY <3>1 DEF Reading
    <3>7. PICK ms : ms = maps \o FunctionMaps(imp)
      OBVIOUS
    <3>8. ms \in Seq(MapForms) /\ ToSet(ms) = ToSet(maps) \cup ToSet(FunctionMaps(imp))
      BY <3>5, <3>6, <3>7, Joined, ElementsOf
    <3>9. ms \o ClassMaps(imp) \in Seq(MapForms) /\ ToSet(ms \o ClassMaps(imp)) = ToSet(ms) \cup ToSet(ClassMaps(imp))
      BY <3>5, <3>8, Joined, ElementsOf
    <3>10. maps' \in Seq(MapForms) /\ ToSet(maps') = ImportMaps(at)
      BY <3>1, <3>2, <3>4, <3>6, <3>7, <3>8, <3>9
    <3>11. (at + 1) - 1 = at /\ at + 1 \in Nat \ {0}
      BY <3>1
    <3>12. QED
      BY <3>1, <3>10, <3>11 DEF Reading, ImportMaps, ImportsTo
  <2>6. CASE GenerateFunction
    <3>1. /\ UNCHANGED <<program, phase, maps>> /\ at' = at + 1 /\ phase = "generate"
          /\ at \in 1 .. Len(program) /\ program[at].kind = "function" /\ todo' = program[at].body
      BY <2>6, ProgramIs DEF GenerateFunction, Decl, Reading
    <3>2. ImportMaps(at) = ImportMaps(at - 1)
      BY <3>1, ImportsGrow DEF Reading, ImportMaps
    <3>3. program[at].body \in Seq(ToSet(program[at].body))
      <4>1. IsFunction(program[at])
        BY <3>1, DeclarationForms DEF Reading
      <4>2. QED
        BY <4>1 DEF IsFunction, IsSequence
    <3>4. (at + 1) - 1 = at /\ at + 1 \in Nat \ {0}
      BY <3>1
    <3>5. at' - 1 = at /\ at' \in Nat \ {0} /\ program' = program /\ program \in Programs
      BY <3>1, <3>4 DEF Reading
    <3>6. phase' = "generate" /\ maps' \in Seq(MapForms) /\ ToSet(maps') = ImportMaps(at)
      BY <3>1, <3>2 DEF Reading
    <3>7. ImportMaps(at - 1)' = ImportMaps(at)
      BY <3>5 DEF ImportMaps, ImportsTo
    <3>8. /\ at' - 1 \in 1 .. Len(program') /\ program'[at' - 1].kind = "function"
          /\ todo' \in Seq(ToSet(program'[at' - 1].body))
      BY <3>1, <3>3, <3>5
    <3>9. QED
      BY <3>5, <3>6, <3>7, <3>8 DEF Reading
  <2>7. ASSUME phase = "generate", todo # <<>>, todo' = Tail(todo), UNCHANGED <<program, at, maps>>,
               phase' \in {"generate", "failed"}
        PROVE  Reading'
    <3>1. todo' \in Seq(ToSet(program[at - 1].body))
      BY <2>7 DEF Reading
    <3>2. QED
      BY <2>7, <3>1 DEF Reading, ImportMaps, ImportsTo
  <2>8. CASE GenerateCall
    BY <2>7, <2>8 DEF GenerateCall
  <2>9. CASE GenerateUsing
    BY <2>7, <2>9 DEF GenerateUsing
  <2>10. QED
    BY <2>1, <2>2, <2>3, <2>4, <2>5, <2>6, <2>8, <2>9 DEF Next
<1>3. QED
  BY <1>1, <1>2, PTL DEF Spec

-----------------------------------------------------------------------------
(* Where the dots are in a name.                                           *)

\* A dot at this place.
Dotted(key, i) == key[i] = "."

\* Where the dots of a key are.
LEMMA DotsOf ==
  /\ \A key, i : key[i] \in Pieces => ~Dotted(key, i)
  /\ \A key, i : key[i] = "." => Dotted(key, i)
BY PiecesAreNotDots DEF Dotted

\* Where the dots of a name are: nowhere, behind the module, or behind module and class.
LEMMA BareDots ==
  ASSUME NEW n \in Seq(Pieces)
  PROVE  Key(<<>>, n) = n /\ n \in Seq(Marks) /\ \A i \in 1 .. Len(n) : ~Dotted(n, i)
<1>1. n \in Seq(Marks)
  BY DEF Marks
<1>2. \A i \in 1 .. Len(n) : n[i] \in Pieces
  OBVIOUS
<1>3. QED
  BY <1>1, <1>2, BareKey, DotsOf

\* A name behind its module has its one dot there.
LEMMA ModuleDots ==
  ASSUME NEW n \in Seq(Pieces), NEW s \in Parts, NEW key, key = Key(<<s>>, n)
  PROVE  /\ key \in Seq(Marks) /\ Len(key) = Len(n) + 2 /\ key[1] = s
         /\ \A i \in 1 .. Len(n) : key[i + 2] = n[i]
         /\ \A i \in 1 .. Len(key) : Dotted(key, i) <=> i = 2
<1>1. n \in Seq(Marks) /\ "." \in Marks /\ s \in Marks
  BY DEF Marks, Pieces
<1>2. s \in Pieces /\ Len(n) \in Nat /\ \A i \in 1 .. Len(n) : n[i] \in Pieces
  BY DEF Pieces
<1>3. /\ key \in Seq(Marks) /\ Len(key) = Len(n) + 2 /\ key[1] = s /\ key[2] = "."
      /\ \A i \in 1 .. Len(n) : key[i + 2] = n[i]
  BY <1>1, ModuleKey
<1>4. Dotted(key, 2) /\ ~Dotted(key, 1)
  BY <1>2, <1>3, DotsOf
<1>5. ASSUME NEW i \in 3 .. Len(key) PROVE ~Dotted(key, i)
  <2>1. i - 2 \in 1 .. Len(n) /\ (i - 2) + 2 = i
    BY <1>2, <1>3
  <2>2. key[i] = n[i - 2]
    BY <1>3, <2>1
  <2>3. QED
    BY <1>2, <2>1, <2>2, DotsOf
<1>6. ASSUME NEW i \in 1 .. Len(key) PROVE Dotted(key, i) <=> i = 2
  <2>1. i = 1 \/ i = 2 \/ i \in 3 .. Len(key)
    BY <1>2, <1>3
  <2>2. QED
    BY <1>4, <1>5, <2>1
<1>7. QED
  BY <1>3, <1>6

\* A name behind module and class has its two dots there.
LEMMA ClassDots ==
  ASSUME NEW n \in Seq(Pieces), NEW s \in Parts, NEW c \in Parts, NEW key, key = Key(<<s, c>>, n)
  PROVE  /\ key \in Seq(Marks) /\ Len(key) = Len(n) + 4 /\ key[1] = s /\ key[3] = c
         /\ \A i \in 1 .. Len(n) : key[i + 4] = n[i]
         /\ \A i \in 1 .. Len(key) : Dotted(key, i) <=> i \in {2, 4}
<1>1. n \in Seq(Marks) /\ "." \in Marks /\ s \in Marks /\ c \in Marks
  BY DEF Marks, Pieces
<1>2. s \in Pieces /\ c \in Pieces /\ Len(n) \in Nat /\ \A i \in 1 .. Len(n) : n[i] \in Pieces
  BY DEF Pieces
<1>3. /\ key \in Seq(Marks) /\ Len(key) = Len(n) + 4 /\ key[1] = s /\ key[2] = "." /\ key[3] = c /\ key[4] = "."
      /\ \A i \in 1 .. Len(n) : key[i + 4] = n[i]
  BY <1>1, ClassKey
<1>4. Dotted(key, 2) /\ ~Dotted(key, 1) /\ ~Dotted(key, 3) /\ Dotted(key, 4)
  BY <1>2, <1>3, DotsOf
<1>5. ASSUME NEW i \in 5 .. Len(key) PROVE ~Dotted(key, i)
  <2>1. i - 4 \in 1 .. Len(n) /\ (i - 4) + 4 = i
    BY <1>2, <1>3
  <2>2. key[i] = n[i - 4]
    BY <1>3, <2>1
  <2>3. QED
    BY <1>2, <2>1, <2>2, DotsOf
<1>6. ASSUME NEW i \in 1 .. Len(key) PROVE Dotted(key, i) <=> i \in {2, 4}
  <2>1. i = 1 \/ i = 2 \/ i = 3 \/ i = 4 \/ i \in 5 .. Len(key)
    BY <1>2, <1>3
  <2>2. QED
    BY <1>4, <1>5, <2>1
<1>7. QED
  BY <1>3, <1>6

\* A function's names.
LEMMA FunctionNames ==
  ASSUME NEW e \in FunctionEntries
  PROVE  /\ e.pc \in Seq(Pieces) /\ e.orig \in Seq(Pieces) /\ e.orig \in FullNames /\ e.symbol \in Seq(Pieces)
         /\ Len(e.pc) >= 2 /\ Len(e.orig) >= 1
<1>1. e \in EntryForms /\ \E l \in Seq(Pieces) : e.pc = <<"_pC">> \o e.orig \o l
  BY MangledForms
<1>2. e.orig \in FullNames
  BY <1>1 DEF EntryForms
<1>3. Len(e.pc) >= 2
  BY <1>1, <1>2, TrimmedIs
<1>4. Len(e.orig) # 0
  <2>1. e.orig \in Seq(Parts) /\ e.orig # <<>>
    BY <1>2 DEF FullNames
  <2>2. QED
    BY <2>1, EmptySeq
<1>5. e.pc \in Seq(Pieces) /\ e.orig \in Seq(Pieces) /\ e.symbol \in Seq(Pieces)
  BY <1>1, NamesArePieces DEF EntryForms
<1>6. QED
  BY <1>2, <1>3, <1>4, <1>5

\* The name that an import gives to a function has no second dot, and only the plain name is of one part.
FunctionKey(m, e) ==
  /\ m \in MapForms
  /\ \A i \in 1 .. Len(m.key) : Dotted(m.key, i) => i = 2 /\ Len(m.key) >= 3
  /\ (Len(m.key) = 3 /\ Dotted(m.key, 2)) => Len(e.orig) = 1 /\ e.orig[1] = m.key[3]

\* What a function is registered under has at most one dot.
LEMMA FunctionKeys ==
  ASSUME NEW imp \in ImportForms, NEW m, IsFunctionMap(m, imp)
  PROVE  \E e \in ToSet(FunctionsOf(imp)) : FunctionKey(m, e)
<1>1. PICK e \in ToSet(FunctionsOf(imp)), scope \in ToSet(ScopesOf(imp)) :
         m = Map(Key(scope, e.pc), e.symbol) \/ m = Map(Key(scope, e.orig), e.symbol)
  BY DEF IsFunctionMap
<1>2. e \in FunctionEntries /\ scope \in {<<>>} \cup {<<s>> : s \in Parts}
  BY SelectedIs, ScopesAre, ElementsOf
<1>3. /\ e.pc \in Seq(Pieces) /\ e.orig \in Seq(Pieces) /\ e.orig \in FullNames /\ e.symbol \in Seq(Pieces)
      /\ Len(e.pc) >= 2 /\ Len(e.orig) >= 1
  BY <1>2, FunctionNames
<1>4. PICK n \in {e.pc, e.orig} : m = Map(Key(scope, n), e.symbol)
  BY <1>1
<1>5. n \in Seq(Pieces)
  BY <1>3, <1>4
<1>6. PICK l \in Nat : l = Len(n)
  BY <1>5
<1>7. l >= 1 /\ (l = 1 => n = e.orig)
  <2>1. CASE n = e.pc
    <3>1. l >= 2
      BY <1>3, <1>6, <2>1
    <3>2. QED
      BY <3>1
  <2>2. CASE n = e.orig
    BY <1>3, <1>6, <2>2
  <2>3. QED
    BY <1>4, <2>1, <2>2
<1>8. CASE scope = <<>>
  <2>1. Key(scope, n) = n /\ n \in Seq(Marks) /\ \A i \in 1 .. Len(n) : ~Dotted(n, i)
    BY <1>5, <1>8, BareDots
  <2>2. m \in MapForms /\ m.key = n
    BY <1>3, <1>4, <2>1 DEF Map, MapForms
  <2>3. FunctionKey(m, e)
    BY <2>1, <2>2 DEF FunctionKey
  <2>4. QED
    BY <2>3
<1>9. ASSUME NEW s \in Parts, scope = <<s>> PROVE FunctionKey(m, e)
  <2>1. PICK key : key = Key(scope, n)
    OBVIOUS
  <2>2. /\ key \in Seq(Marks) /\ Len(key) = l + 2
        /\ \A i \in 1 .. l : key[i + 2] = n[i]
        /\ \A i \in 1 .. Len(key) : Dotted(key, i) <=> i = 2
    <3>1. key = Key(<<s>>, n)
      BY <1>9, <2>1
    <3>2. QED
      BY <1>5, <1>6, <3>1, ModuleDots
  <2>3. m \in MapForms /\ m.key = key
    BY <1>3, <1>4, <2>1, <2>2 DEF Map, MapForms
  <2>4. Len(key) = 3 => Len(e.orig) = 1 /\ e.orig[1] = key[3]
    <3>1. SUFFICES ASSUME Len(key) = 3 PROVE Len(e.orig) = 1 /\ e.orig[1] = key[3]
      OBVIOUS
    <3>2. l = 1
      <4>1. l + 2 = 3
        BY <2>2, <3>1
      <4>2. QED
        BY <4>1
    <3>3. Len(n) = 1 /\ n = e.orig
      BY <1>6, <1>7, <3>2
    <3>4. key[1 + 2] = n[1]
      BY <2>2, <3>2
    <3>5. QED
      BY <3>3, <3>4
  <2>5. Len(key) >= 3
    BY <1>7, <2>2
  <2>6. QED
    BY <2>2, <2>3, <2>4, <2>5 DEF FunctionKey
<1>10. QED
  BY <1>2, <1>8, <1>9

\* The name that an import gives to a method is the scope, the class and a name; only the plain name is
\* of one part.
MethodKey(m, class, scope, k) ==
  /\ m \in MapForms /\ Len(m.key) >= 5 /\ m.key[1] = scope /\ m.key[3] = class.name
  /\ \A i \in 1 .. Len(m.key) : Dotted(m.key, i) <=> i \in {2, 4}
  /\ Len(m.key) = 5 => Len(k.orig) = 1 /\ k.orig[1] = m.key[5] /\ m.symbol = k.symbol

\* What a method is registered under has two dots.
LEMMA MethodKeys ==
  ASSUME NEW imp \in ImportForms, NEW m, IsMethodMap(m, imp)
  PROVE  \E class \in ToSet(ClassesOf(imp)), scope \in ToSet(ClassScopes(imp)) :
           \E k \in ToSet(class.methods) : MethodKey(m, class, scope, k)
<1>1. PICK class \in ToSet(ClassesOf(imp)), scope \in ToSet(ClassScopes(imp)) : IsMethodMapOf(m, class, scope)
  BY DEF IsMethodMap
<1>2. PICK k \in ToSet(class.methods) : \E name \in {k.pc, Trimmed(k.pc), k.orig} : m = Map(Key(<<scope, class.name>>, name), k.symbol)
  BY <1>1 DEF IsMethodMapOf
<1>3. PICK n \in {k.pc, Trimmed(k.pc), k.orig} : m = Map(Key(<<scope, class.name>>, n), k.symbol)
  BY <1>2
<1>4. class \in ClassEntries /\ scope \in Parts
  BY SelectedIs, ScopesAre, ElementsOf
<1>5. k \in MethodEntries /\ class.name \in Parts
  <2>1. class.methods \in Seq(MethodEntries) /\ class.name \in Parts
    BY <1>4 DEF ClassEntries
  <2>2. QED
    BY <2>1, ElementsOf
<1>6. /\ k.pc \in Seq(Pieces) /\ Trimmed(k.pc) \in Seq(Pieces) /\ k.orig \in Seq(Pieces) /\ k.symbol \in Seq(Pieces)
      /\ k.orig \in FullNames /\ Len(k.pc) >= 2 /\ Len(Trimmed(k.pc)) >= 2
  BY <1>5, MethodNames
<1>7. Len(k.orig) >= 1
  <2>1. k.orig \in Seq(Parts) /\ k.orig # <<>>
    BY <1>6 DEF FullNames
  <2>2. Len(k.orig) # 0 /\ Len(k.orig) \in Nat
    BY <2>1, EmptySeq
  <2>3. QED
    BY <2>2
<1>8. n \in Seq(Pieces)
  BY <1>3, <1>6
<1>9. PICK l \in Nat : l = Len(n)
  BY <1>8
<1>10. l >= 1 /\ (l = 1 => n = k.orig)
  <2>1. ASSUME l >= 2 PROVE l >= 1 /\ l # 1
    BY <2>1
  <2>2. CASE n = k.pc
    <3>1. l >= 2
      BY <1>6, <1>9, <2>2
    <3>2. QED
      BY <2>1, <3>1
  <2>3. CASE n = Trimmed(k.pc)
    <3>1. l >= 2
      BY <1>6, <1>9, <2>3
    <3>2. QED
      BY <2>1, <3>1
  <2>4. CASE n = k.orig
    BY <1>7, <1>9, <2>4
  <2>5. QED
    BY <1>3, <2>2, <2>3, <2>4
<1>11. PICK key : key = Key(<<scope, class.name>>, n)
  OBVIOUS
<1>12. /\ key \in Seq(Marks) /\ Len(key) = l + 4 /\ key[1] = scope /\ key[3] = class.name
       /\ \A i \in 1 .. l : key[i + 4] = n[i]
       /\ \A i \in 1 .. Len(key) : Dotted(key, i) <=> i \in {2, 4}
  BY <1>4, <1>5, <1>8, <1>11, <1>9, ClassDots
<1>13. m \in MapForms /\ m.key = key /\ m.symbol = k.symbol
  BY <1>3, <1>6, <1>11, <1>12 DEF Map, MapForms
<1>14. Len(key) = 5 => Len(k.orig) = 1 /\ k.orig[1] = key[5]
  <2>1. SUFFICES ASSUME Len(key) = 5 PROVE Len(k.orig) = 1 /\ k.orig[1] = key[5]
    OBVIOUS
  <2>2. l = 1
    <3>1. l + 4 = 5
      BY <1>12, <2>1
    <3>2. QED
      BY <3>1
  <2>3. Len(n) = 1 /\ n = k.orig
    BY <1>9, <1>10, <2>2
  <2>4. key[1 + 4] = n[1]
    BY <1>12, <2>2
  <2>5. QED
    BY <2>3, <2>4
<1>15. Len(key) >= 5
  BY <1>12, <1>10
<1>16. MethodKey(m, class, scope, k)
  BY <1>12, <1>13, <1>14, <1>15 DEF MethodKey
<1>17. QED
  BY <1>16

-----------------------------------------------------------------------------
(* What is found in a body.                                                *)

\* A body is read: the code generator has some of it still to read.
InABody == Reading /\ phase = "generate" /\ todo # <<>>

\* In a body, the names are those that the imports above gave.
LEMMA NamesInABody ==
  ASSUME InABody
  PROVE  /\ maps \in Seq(MapForms) /\ ImportsTo(at - 1) \subseteq ImportForms
         /\ \A m : m \in ToSet(maps) <=> \E imp \in ImportsTo(at - 1) : IsFunctionMap(m, imp) \/ IsMethodMap(m, imp)
<1>1. /\ program \in Programs /\ maps \in Seq(MapForms) /\ ToSet(maps) = ImportMaps(at - 1)
      /\ at - 1 \in 1 .. Len(program)
  BY DEF InABody, Reading
<1>2. ImportsTo(at - 1) \subseteq ImportForms
  BY <1>1, ImportsGrow
<1>3. ASSUME NEW m
      PROVE  m \in ToSet(maps) <=> \E imp \in ImportsTo(at - 1) : IsFunctionMap(m, imp) \/ IsMethodMap(m, imp)
  <2>1. m \in ToSet(maps) <=> \E imp \in ImportsTo(at - 1) : m \in ToSet(FunctionMaps(imp)) \/ m \in ToSet(ClassMaps(imp))
    BY <1>1 DEF ImportMaps
  <2>2. ASSUME NEW imp \in ImportsTo(at - 1)
        PROVE  (m \in ToSet(FunctionMaps(imp)) \/ m \in ToSet(ClassMaps(imp))) <=> (IsFunctionMap(m, imp) \/ IsMethodMap(m, imp))
    <3>1. imp \in ImportForms
      BY <1>2
    <3>2. m \in ToSet(FunctionMaps(imp)) <=> IsFunctionMap(m, imp)
      BY <3>1, FunctionMapsAre
    <3>3. m \in ToSet(ClassMaps(imp)) <=> IsMethodMap(m, imp)
      BY <3>1, ClassMapsAre
    <3>4. QED
      BY <3>2, <3>3
  <2>3. QED
    BY <2>1, <2>2
<1>4. QED
  BY <1>1, <1>2, <1>3

\* A class of an import and one of its scopes.
ClassIn(imp, class, scope) ==
  imp \in ImportsTo(at - 1) /\ class \in ToSet(ClassesOf(imp)) /\ scope \in ToSet(ClassScopes(imp))

\* A class of an import above, in one of its scopes.
LEMMA ClassesAreForms ==
  ASSUME InABody, NEW imp, NEW class, NEW scope, ClassIn(imp, class, scope)
  PROVE  imp \in ImportForms /\ class \in ClassEntries /\ class.name \in Parts /\ scope \in Parts
         /\ \A k \in ToSet(class.methods) : k \in MethodEntries /\ k.orig \in Seq(Pieces)
<1>1. imp \in ImportForms
  BY NamesInABody DEF ClassIn
<1>2. class \in ClassEntries /\ scope \in Parts
  BY <1>1, SelectedIs, ScopesAre, ElementsOf DEF ClassIn
<1>3. class.name \in Parts /\ class.methods \in Seq(MethodEntries)
  BY <1>2 DEF ClassEntries
<1>4. \A k \in ToSet(class.methods) : k \in MethodEntries
  BY <1>3, ElementsOf
<1>5. QED
  BY <1>1, <1>2, <1>3, <1>4, MethodNames

\* Each name is of a function, or of a method of a class above.
LEMMA KnownKeys ==
  ASSUME InABody, NEW m \in ToSet(maps)
  PROVE  \/ \E imp \in ImportsTo(at - 1) : \E e \in ToSet(FunctionsOf(imp)) : FunctionKey(m, e)
         \/ \E imp, class, scope : ClassIn(imp, class, scope) /\ \E k \in ToSet(class.methods) : MethodKey(m, class, scope, k)
<1>1. PICK imp \in ImportsTo(at - 1) : IsFunctionMap(m, imp) \/ IsMethodMap(m, imp)
  BY NamesInABody
<1>2. imp \in ImportForms
  BY <1>1, NamesInABody
<1>3. CASE IsFunctionMap(m, imp)
  BY <1>2, <1>3, FunctionKeys
<1>4. CASE IsMethodMap(m, imp)
  BY <1>2, <1>4, MethodKeys DEF ClassIn
<1>5. QED
  BY <1>1, <1>3, <1>4

\* A method is there under the name of its scope and class.
LEMMA MethodsAreNamed ==
  ASSUME InABody, NEW imp, NEW class, NEW scope, ClassIn(imp, class, scope), NEW k \in ToSet(class.methods)
  PROVE  \E m \in ToSet(maps) : m.key = Key(<<scope, class.name>>, k.orig) /\ m.symbol = k.symbol
<1>1. PICK m : m = Map(Key(<<scope, class.name>>, k.orig), k.symbol)
  OBVIOUS
<1>2. IsMethodMapOf(m, class, scope)
  BY <1>1 DEF IsMethodMapOf
<1>3. IsMethodMap(m, imp) /\ imp \in ImportsTo(at - 1)
  BY <1>2 DEF IsMethodMap, ClassIn
<1>4. m \in ToSet(maps)
  BY <1>3, NamesInABody
<1>5. QED
  BY <1>1, <1>4 DEF Map

\* The newest and the oldest of some names.
LEMMA NewestAndOldest ==
  ASSUME InABody, NEW found \in SUBSET DOMAIN maps, found # {}
  PROVE  /\ Max(found) \in found /\ maps[Max(found)] \in ToSet(maps)
         /\ Min(found) \in found /\ maps[Min(found)] \in ToSet(maps)
<1>1. maps \in Seq(MapForms)
  BY NamesInABody
<1>2. DOMAIN maps = 1 .. Len(maps) /\ Len(maps) \in Nat
  BY <1>1
<1>3. Max(found) \in found
  BY <1>2, MaxIs
<1>4. found \in SUBSET Nat
  BY <1>2
<1>5. Min(found) \in found
  BY <1>4, MinIs
<1>6. QED
  BY <1>3, <1>5 DEF ToSet

\* The key of a method of a name of one part.
LEMMA ShortMethodKey ==
  ASSUME NEW a \in Parts, NEW b \in Parts, NEW name \in Seq(Pieces), NEW key, key = Key(<<a, b>>, name)
  PROVE  Len(name) = 1 => /\ Len(key) = 5 /\ key[1] = a /\ key[3] = b /\ key[5] = name[1]
                          /\ \A i \in 1 .. Len(key) : Dotted(key, i) <=> i \in {2, 4}
<1>1. /\ Len(key) = Len(name) + 4 /\ key[1] = a /\ key[3] = b
      /\ \A i \in 1 .. Len(name) : key[i + 4] = name[i]
      /\ \A i \in 1 .. Len(key) : Dotted(key, i) <=> i \in {2, 4}
  BY ClassDots
<1> SUFFICES ASSUME Len(name) = 1
             PROVE  Len(key) = 5 /\ key[5] = name[1]
  BY <1>1
<1>2. key[1 + 4] = name[1]
  BY <1>1
<1>3. QED
  BY <1>1, <1>2

\* The lookup of a method that all classes of that name and scope have under one symbol.
LEMMA LookupOfMethod ==
  ASSUME InABody, NEW imp, NEW class, NEW scope, ClassIn(imp, class, scope),
         NEW name, Len(name) = 1, MethodSymbols(class, name) # {}, NEW symbol,
         \A i, c : (ClassIn(i, c, scope) /\ c.name = class.name) => MethodSymbols(c, name) \subseteq {symbol}
  PROVE  Lookup(Key(<<scope, class.name>>, name)) = symbol
<1>1. PICK key : key = Key(<<scope, class.name>>, name)
  OBVIOUS
<1> DEFINE found == {i \in DOMAIN maps : maps[i].key = key}
<1>2. class.name \in Parts /\ scope \in Parts /\ name \in Seq(Pieces)
  <2>1. PICK k \in ToSet(class.methods) : k.orig = name
    BY DEF MethodSymbols
  <2>2. QED
    BY <2>1, ClassesAreForms
<1>3. /\ Len(key) = 5 /\ key[1] = scope /\ key[3] = class.name /\ key[5] = name[1]
      /\ \A i \in 1 .. Len(key) : Dotted(key, i) <=> i \in {2, 4}
  BY <1>1, <1>2, ShortMethodKey
<1>4. Lookup(key) = IF found = {} THEN Undefined ELSE maps[Max(found)].symbol
  BY DEF Lookup
<1>5. found # {}
  <2>1. PICK k \in ToSet(class.methods) : k.orig = name
    BY DEF MethodSymbols
  <2>2. PICK m \in ToSet(maps) : m.key = key
    BY <1>1, <2>1, MethodsAreNamed
  <2>3. QED
    BY <2>2 DEF ToSet
<1>6. Max(found) \in found /\ maps[Max(found)] \in ToSet(maps)
  BY <1>5, NewestAndOldest
<1>7. PICK m \in ToSet(maps) : m = maps[Max(found)] /\ m.key = key
  BY <1>6
<1>8. ~(\E i \in ImportsTo(at - 1) : \E e \in ToSet(FunctionsOf(i)) : FunctionKey(m, e))
  <2>1. Dotted(key, 4) /\ 4 \in 1 .. Len(key) /\ 4 # 2
    BY <1>3
  <2>2. QED
    BY <1>7, <2>1 DEF FunctionKey
<1>9. PICK i, c, s : ClassIn(i, c, s) /\ \E k \in ToSet(c.methods) : MethodKey(m, c, s, k)
  BY <1>8, KnownKeys
<1>10. PICK k \in ToSet(c.methods) : MethodKey(m, c, s, k)
  BY <1>9
<1>11. s = scope /\ c.name = class.name /\ m.symbol = k.symbol /\ Len(k.orig) = 1 /\ k.orig[1] = name[1]
  BY <1>3, <1>7, <1>10 DEF MethodKey
<1>12. k.orig \in Seq(Pieces)
  BY <1>9, ClassesAreForms
<1>13. k.orig = name
  BY <1>2, <1>11, <1>12
<1>14. m.symbol = symbol
  <2>1. k.symbol \in MethodSymbols(c, name)
    BY <1>13 DEF MethodSymbols
  <2>2. MethodSymbols(c, name) \subseteq {symbol}
    BY <1>9, <1>11
  <2>3. QED
    BY <1>11, <2>1, <2>2
<1>15. QED
  BY <1>1, <1>4, <1>5, <1>7, <1>14

-----------------------------------------------------------------------------
(* How the class of a resource is found.                                   *)

\* The class that a name is taken for is the one of that name.
LEMMA ClassNamedIs ==
  ASSUME InABody, ClassNamesApart, NEW imp, NEW class, NEW scope, ClassIn(imp, class, scope), class.methods # <<>>
  PROVE  \E i, c, s : ClassIn(i, c, s) /\ c.name = class.name /\ ClassNamed(class.name) = <<s, c.name>>
<1> DEFINE name == class.name
           found == {i \in DOMAIN maps : PlacesOf(name, maps[i].key) # {}}
           Same(n) == SameIgnoringCase(n, name)
<1>1. \A key : PlacesOf(name, key) =
         {i \in 2 .. Len(key) : Dotted(key, i - 1) /\ Same(key[i]) /\ (i < Len(key) => Dotted(key, i + 1))}
  BY DEF PlacesOf, Dotted
<1>2. Same(name)
  BY DEF SameIgnoringCase
<1>3. imp \in ImportForms /\ class \in ClassEntries /\ name \in Parts /\ scope \in Parts
  BY ClassesAreForms
<1>4. at - 1 \in 1 .. Len(program) /\ program \in Programs
  BY DEF InABody, Reading
<1>5. Len(program) \in 1 .. Len(program) /\ at - 1 \in 0 .. Len(program)
  BY <1>4, ProgramIs
<1>6. ImportsTo(at - 1) \subseteq ImportsTo(Len(program))
  BY <1>4, <1>5, ImportsGrow
<1>7. \A i \in ImportsTo(at - 1) :
        /\ \A f \in ToSet(FunctionsOf(i)) : ~(Len(f.orig) = 1 /\ Same(f.orig[1]))
        /\ \A d \in ToSet(ClassesOf(i)) : /\ Same(d.name) => d.name = name
                                          /\ \A m \in ToSet(d.methods) : ~(Len(m.orig) = 1 /\ Same(m.orig[1]))
  BY <1>6 DEF ClassIn, ClassNamesApart
<1>8. ClassNamed(name) = LET key   == maps[Min(found)].key
                             place == Min(PlacesOf(name, key))
                         IN  IF found = {} THEN NoClass ELSE [k \in 1 .. (place + 1) \div 2 |-> key[2 * k - 1]]
  BY DEF ClassNamed
<1> HIDE DEF Same, name
<1>9. ASSUME NEW m \in ToSet(maps), NEW i, NEW c, NEW s, ClassIn(i, c, s), NEW k \in ToSet(c.methods), MethodKey(m, c, s, k)
      PROVE  PlacesOf(name, m.key) = (IF Same(c.name) THEN {3} ELSE {})
  <2>1. PICK key : key = m.key
    OBVIOUS
  <2>2. /\ Len(key) >= 5 /\ Len(key) \in Nat /\ key[3] = c.name
        /\ \A j \in 1 .. Len(key) : Dotted(key, j) <=> j \in {2, 4}
    BY <1>9, <2>1 DEF MethodKey, MapForms
  <2>3. Len(key) = 5 => ~Same(key[5])
    <3>1. Len(key) = 5 => Len(k.orig) = 1 /\ k.orig[1] = key[5]
      BY <1>9, <2>1 DEF MethodKey
    <3>2. ~(Len(k.orig) = 1 /\ Same(k.orig[1]))
      BY <1>7, <1>9 DEF ClassIn
    <3>3. QED
      BY <3>1, <3>2
  <2>4. PICK l \in Nat : l = Len(key) /\ l >= 5
    BY <2>2
  <2>5. ASSUME NEW j \in 2 .. l
        PROVE  (Dotted(key, j - 1) /\ Same(key[j]) /\ (j < l => Dotted(key, j + 1))) <=> (j = 3 /\ Same(c.name))
    <3>1. Dotted(key, j - 1) <=> j \in {3, 5}
      <4>1. j - 1 \in 1 .. l
        BY <2>4
      <4>2. Dotted(key, j - 1) <=> j - 1 \in {2, 4}
        BY <2>2, <2>4, <4>1
      <4>3. j - 1 \in {2, 4} <=> j \in {3, 5}
        OBVIOUS
      <4>4. QED
        BY <4>2, <4>3
    <3>2. CASE j = 3
      <4>1. Dotted(key, 4)
        BY <2>2, <2>4
      <4>2. 3 + 1 = 4
        OBVIOUS
      <4>3. QED
        BY <2>2, <3>1, <3>2, <4>1, <4>2
    <3>3. CASE j = 5
      <4>1. CASE l = 5
        BY <2>3, <2>4, <3>3, <4>1
      <4>2. CASE l > 5
        <5>1. ~Dotted(key, 6)
          BY <2>2, <2>4, <4>2
        <5>2. 5 + 1 = 6 /\ 5 # 3
          OBVIOUS
        <5>3. QED
          BY <3>3, <4>2, <5>1, <5>2
      <4>3. QED
        BY <2>4, <4>1, <4>2
    <3>4. CASE j \notin {3, 5}
      BY <3>1, <3>4
    <3>5. QED
      BY <3>2, <3>3, <3>4
  <2>6. 3 \in 2 .. l
    BY <2>4
  <2>7. PlacesOf(name, key) = {j \in 2 .. l : j = 3 /\ Same(c.name)}
    BY <1>1, <2>4, <2>5
  <2>8. QED
    BY <2>1, <2>6, <2>7
<1>10. ASSUME NEW m \in ToSet(maps), NEW i \in ImportsTo(at - 1), NEW e \in ToSet(FunctionsOf(i)), FunctionKey(m, e)
       PROVE  PlacesOf(name, m.key) = {}
  <2>1. PICK key : key = m.key
    OBVIOUS
  <2>2. /\ key \in Seq(Marks)
        /\ \A j \in 1 .. Len(key) : Dotted(key, j) => j = 2 /\ Len(key) >= 3
        /\ (Len(key) = 3 /\ Dotted(key, 2)) => Len(e.orig) = 1 /\ e.orig[1] = key[3]
    BY <1>10, <2>1 DEF FunctionKey, MapForms
  <2>3. PICK l \in Nat : l = Len(key)
    BY <2>2
  <2>4. SUFFICES ASSUME NEW j \in 2 .. l, Dotted(key, j - 1), Same(key[j]), j < l => Dotted(key, j + 1)
                 PROVE  FALSE
    BY <1>1, <2>1, <2>3
  <2>5. j = 3
    <3>1. j - 1 \in 1 .. l
      BY <2>3
    <3>2. j - 1 = 2
      BY <2>2, <2>3, <2>4, <3>1
    <3>3. QED
      BY <3>2
  <2>6. l = 3
    <3>1. SUFFICES ASSUME l # 3 PROVE FALSE
      OBVIOUS
    <3>2. 3 < l /\ 3 + 1 = 4 /\ 4 \in 1 .. l /\ 4 # 2
      BY <2>5, <3>1
    <3>3. Dotted(key, 4)
      BY <2>4, <2>5, <3>2
    <3>4. QED
      BY <2>2, <2>3, <3>2, <3>3
  <2>7. Dotted(key, 2)
    BY <2>4, <2>5
  <2>8. Len(e.orig) = 1 /\ Same(e.orig[1])
    BY <2>2, <2>3, <2>4, <2>5, <2>6, <2>7
  <2>9. QED
    BY <1>7, <2>8
<1>11. found # {}
  <2>1. PICK k \in ToSet(class.methods) : k = class.methods[1]
    <3>1. class.methods \in Seq(MethodEntries)
      BY <1>3 DEF ClassEntries
    <3>2. Len(class.methods) # 0 /\ Len(class.methods) \in Nat
      BY <3>1, EmptySeq
    <3>3. 1 \in DOMAIN class.methods
      BY <3>1, <3>2
    <3>4. QED
      BY <3>3 DEF ToSet
  <2>2. PICK m \in ToSet(maps) : m.key = Key(<<scope, class.name>>, k.orig)
    BY MethodsAreNamed
  <2>3. PICK key : key = Key(<<scope, class.name>>, k.orig)
    OBVIOUS
  <2>4. /\ key \in Seq(Marks) /\ Len(key) = Len(k.orig) + 4 /\ key[3] = name
        /\ \A i \in 1 .. Len(key) : Dotted(key, i) <=> i \in {2, 4}
    <3>1. k.orig \in Seq(Pieces)
      BY ClassesAreForms
    <3>2. QED
      BY <1>3, <2>3, <3>1, ClassDots DEF name
  <2>5. PICK l \in Nat : l = Len(key) /\ l >= 4
    <3>1. PICK n \in Nat : n = Len(k.orig)
      BY ClassesAreForms
    <3>2. QED
      BY <2>4, <3>1
  <2>6. 3 \in PlacesOf(name, key)
    <3>1. Dotted(key, 2) /\ Dotted(key, 4) /\ 3 - 1 = 2 /\ 3 + 1 = 4 /\ 3 \in 2 .. l
      BY <2>4, <2>5
    <3>2. QED
      BY <1>1, <1>2, <2>4, <2>5, <3>1
  <2>7. QED
    BY <2>2, <2>3, <2>6 DEF ToSet
<1>12. Min(found) \in found /\ maps[Min(found)] \in ToSet(maps)
  BY <1>11, NewestAndOldest
<1>13. PICK m \in ToSet(maps) : m = maps[Min(found)] /\ PlacesOf(name, m.key) # {}
  BY <1>12
<1>14. PICK i, c, s : ClassIn(i, c, s) /\ \E k \in ToSet(c.methods) : MethodKey(m, c, s, k)
  BY <1>10, <1>13, KnownKeys
<1>15. PICK k \in ToSet(c.methods) : MethodKey(m, c, s, k)
  BY <1>14
<1>16. PlacesOf(name, m.key) = {3} /\ Same(c.name)
  BY <1>9, <1>13, <1>14, <1>15
<1>17. c.name = name
  BY <1>7, <1>14, <1>16 DEF ClassIn
<1>18. Min({3}) = 3
  <2>1. {3} \in SUBSET Nat /\ {3} # {}
    OBVIOUS
  <2>2. QED
    BY <2>1, MinIs
<1>19. m.key[1] = s /\ m.key[3] = c.name
  BY <1>15 DEF MethodKey
<1>20. ClassNamed(name) = [n \in 1 .. (3 + 1) \div 2 |-> m.key[2 * n - 1]]
  BY <1>8, <1>11, <1>13, <1>16, <1>18
<1>21. [n \in 1 .. (3 + 1) \div 2 |-> m.key[2 * n - 1]] = <<s, c.name>>
  <2>1. (3 + 1) \div 2 = 2
    OBVIOUS
  <2>2. [n \in 1 .. 2 |-> m.key[2 * n - 1]] = <<m.key[1], m.key[3]>>
    OBVIOUS
  <2>3. QED
    BY <1>19, <2>1, <2>2
<1>22. QED
  BY <1>14, <1>17, <1>20, <1>21 DEF name

\* The first class of a module.
LEMMA FirstClassOfIs ==
  ASSUME InABody, NEW imp, NEW class, NEW scope, ClassIn(imp, class, scope), class.methods # <<>>
  PROVE  \E i, c : ClassIn(i, c, scope) /\ FirstClassOf(scope) = <<scope, c.name>>
<1> DEFINE found == {i \in DOMAIN maps : OfClass(maps[i].key) /\ maps[i].key[1] = scope}
<1>1. \A key : OfClass(key) <=> Len(key) > 3 /\ Dotted(key, 2) /\ Dotted(key, 4)
  BY DEF OfClass, Dotted
<1>2. FirstClassOf(scope) = LET key == maps[Min(found)].key IN IF found = {} THEN NoClass ELSE <<key[1], key[3]>>
  BY DEF FirstClassOf, FirstClass
<1>3. found # {}
  <2>1. PICK k \in ToSet(class.methods) : k = class.methods[1]
    <3>1. class.methods \in Seq(MethodEntries)
      BY ClassesAreForms DEF ClassEntries
    <3>2. Len(class.methods) # 0 /\ Len(class.methods) \in Nat
      BY <3>1, EmptySeq
    <3>3. 1 \in DOMAIN class.methods
      BY <3>1, <3>2
    <3>4. QED
      BY <3>3 DEF ToSet
  <2>2. PICK m \in ToSet(maps) : m.key = Key(<<scope, class.name>>, k.orig)
    BY MethodsAreNamed
  <2>3. PICK key : key = Key(<<scope, class.name>>, k.orig)
    OBVIOUS
  <2>4. /\ key \in Seq(Marks) /\ Len(key) = Len(k.orig) + 4 /\ key[1] = scope
        /\ \A i \in 1 .. Len(key) : Dotted(key, i) <=> i \in {2, 4}
    <3>1. k.orig \in Seq(Pieces) /\ scope \in Parts /\ class.name \in Parts
      BY ClassesAreForms
    <3>2. QED
      BY <2>3, <3>1, ClassDots
  <2>5. PICK l \in Nat : l = Len(key) /\ l >= 4
    <3>1. PICK n \in Nat : n = Len(k.orig)
      BY ClassesAreForms
    <3>2. QED
      BY <2>4, <3>1
  <2>6. OfClass(key)
    BY <1>1, <2>4, <2>5
  <2>7. QED
    BY <2>2, <2>3, <2>4, <2>6 DEF ToSet
<1>4. Min(found) \in found /\ maps[Min(found)] \in ToSet(maps)
  BY <1>3, NewestAndOldest
<1>5. PICK m \in ToSet(maps) : m = maps[Min(found)] /\ OfClass(m.key) /\ m.key[1] = scope
  BY <1>4
<1>6. ~(\E i \in ImportsTo(at - 1) : \E e \in ToSet(FunctionsOf(i)) : FunctionKey(m, e))
  <2>1. m.key \in Seq(Marks)
    <3>1. m \in MapForms
      BY NamesInABody, ElementsOf
    <3>2. QED
      BY <3>1 DEF MapForms
  <2>2. PICK l \in Nat : l = Len(m.key)
    BY <2>1
  <2>3. Dotted(m.key, 4) /\ 4 \in 1 .. Len(m.key) /\ 4 # 2
    <3>1. l > 3
      BY <1>1, <1>5, <2>2
    <3>2. QED
      BY <1>1, <1>5, <2>2, <3>1
  <2>4. QED
    BY <2>3 DEF FunctionKey
<1>7. PICK i, c, s : ClassIn(i, c, s) /\ \E k \in ToSet(c.methods) : MethodKey(m, c, s, k)
  BY <1>6, KnownKeys
<1>8. s = scope /\ m.key[3] = c.name
  BY <1>5, <1>7 DEF MethodKey
<1>9. QED
  BY <1>2, <1>3, <1>5, <1>7, <1>8

\* What a resource's class is, when it can be of one class only.
LEMMA ResourceClassesAre ==
  ASSUME NEW resource, NEW class, ResourceClasses(at - 1, resource) = {class}
  PROVE  /\ \E imp, c, scope : ClassIn(imp, c, scope) /\ MayBe(resource, c, scope)
         /\ \A imp, c, scope : (ClassIn(imp, c, scope) /\ MayBe(resource, c, scope)) =>
              class.enter = MethodSymbols(c, <<"enter">>) /\ class.exit = MethodSymbols(c, <<"exit">>)
<1> DEFINE All == UNION {{c \in ToSet(ClassesOf(imp)) : \E s \in ToSet(ClassScopes(imp)) : MayBe(resource, c, s)} :
                           imp \in ImportsTo(at - 1)}
           Of(c) == [enter |-> MethodSymbols(c, <<"enter">>), exit |-> MethodSymbols(c, <<"exit">>)]
<1>1. {Of(c) : c \in All} = {class}
  BY DEF ResourceClasses
<1>2. \A c : c \in All <=> \E imp, scope : ClassIn(imp, c, scope) /\ MayBe(resource, c, scope)
  BY DEF ClassIn
<1> HIDE DEF All
<1>3. \A c \in All : Of(c) = class
  BY <1>1
<1>4. \E c : c \in All
  BY <1>1
<1>5. QED
  BY <1>2, <1>3, <1>4

\* A lock is taken and given back by the functions of the resource's class.
LEMMA HeldByItsClass ==
  ASSUME InABody, ClassNamesApart, NEW resource \in ToSet(program[at - 1].body), resource.kind = "using",
         NEW class, ResourceClasses(at - 1, resource) = {class},
         NEW first, class.enter = {first}, NEW last, class.exit = {last}
  PROVE  MethodOf(ClassOf(resource), <<"enter">>) = first /\ MethodOf(ClassOf(resource), <<"exit">>) = last
<1>1. IsUsing(resource)
  <2>1. program \in Programs /\ at - 1 \in 1 .. Len(program) /\ program[at - 1].kind = "function"
    BY DEF InABody, Reading
  <2>2. IsFunction(program[at - 1])
    BY <2>1, DeclarationForms
  <2>3. QED
    BY <2>2 DEF IsFunction, IsCall
<1>2. PICK imp, c, scope : ClassIn(imp, c, scope) /\ MayBe(resource, c, scope)
  BY ResourceClassesAre
<1>3. \A i, d, s : (ClassIn(i, d, s) /\ MayBe(resource, d, s)) =>
        MethodSymbols(d, <<"enter">>) = {first} /\ MethodSymbols(d, <<"exit">>) = {last}
  BY ResourceClassesAre
<1>4. c.methods # <<>>
  <2>1. \E k : k \in ToSet(c.methods)
    BY <1>2, <1>3 DEF MethodSymbols
  <2>2. QED
    BY <2>1, ElementsOf
<1>5. Len(<<"enter">>) = 1 /\ Len(<<"exit">>) = 1
  OBVIOUS
\* Every class of the name that codegen_using looks for is one the resource may have.
<1>6. ASSUME NEW i, NEW d, NEW s, ClassIn(i, d, s), ClassOf(resource) = <<s, d.name>>,
             \A j, b : (ClassIn(j, b, s) /\ b.name = d.name) => MayBe(resource, b, s)
      PROVE  MethodOf(ClassOf(resource), <<"enter">>) = first /\ MethodOf(ClassOf(resource), <<"exit">>) = last
  <2>1. \A j, b : (ClassIn(j, b, s) /\ b.name = d.name) =>
          MethodSymbols(b, <<"enter">>) = {first} /\ MethodSymbols(b, <<"exit">>) = {last}
    BY <1>3, <1>6
  <2>2. MethodSymbols(d, <<"enter">>) = {first} /\ MethodSymbols(d, <<"exit">>) = {last}
    BY <1>6, <2>1
  <2>3. Lookup(Key(<<s, d.name>>, <<"enter">>)) = first
    <3>1. \A j, b : (ClassIn(j, b, s) /\ b.name = d.name) => MethodSymbols(b, <<"enter">>) \subseteq {first}
      BY <2>1
    <3>2. MethodSymbols(d, <<"enter">>) # {}
      BY <2>2
    <3>3. QED
      BY <1>5, <1>6, <3>1, <3>2, LookupOfMethod
  <2>4. Lookup(Key(<<s, d.name>>, <<"exit">>)) = last
    <3>1. \A j, b : (ClassIn(j, b, s) /\ b.name = d.name) => MethodSymbols(b, <<"exit">>) \subseteq {last}
      BY <2>1
    <3>2. MethodSymbols(d, <<"exit">>) # {}
      BY <2>2
    <3>3. QED
      BY <1>5, <1>6, <3>1, <3>2, LookupOfMethod
  <2>5. <<s, d.name>> # NoClass
    BY DEF NoClass
  <2>6. QED
    BY <1>6, <2>3, <2>4, <2>5 DEF MethodOf
<1>7. CASE resource.form = "variable" /\ Len(resource.path) = 2
  <2>1. resource.path \in Seq(Parts) /\ Last(resource.path) = resource.path[2]
    BY <1>1, <1>7 DEF IsUsing, Last
  <2>2. c.name = resource.path[2] /\ scope = resource.path[1]
    BY <1>2, <1>7, <2>1 DEF MayBe
  <2>3. resource.path = <<scope, c.name>>
    BY <1>7, <2>1, <2>2
  <2>4. ClassOf(resource) = <<scope, c.name>>
    BY <1>7, <2>3 DEF ClassOf
  <2>5. \A j, b : (ClassIn(j, b, scope) /\ b.name = c.name) => MayBe(resource, b, scope)
    BY <1>7, <2>1, <2>2 DEF MayBe
  <2>6. QED
    BY <1>2, <1>6, <2>4, <2>5
<1>8. CASE resource.form = "variable" /\ Len(resource.path) = 1
  <2>1. resource.path \in Seq(Parts) /\ Last(resource.path) = resource.path[1]
    BY <1>1, <1>8 DEF IsUsing, Last
  <2>2. c.name = resource.path[1]
    BY <1>2, <1>8, <2>1 DEF MayBe
  <2>3. ClassOf(resource) = ClassNamed(c.name)
    BY <1>8, <2>2 DEF ClassOf
  <2>4. PICK i, d, s : ClassIn(i, d, s) /\ d.name = c.name /\ ClassNamed(c.name) = <<s, d.name>>
    BY <1>2, <1>4, ClassNamedIs
  <2>5. \A j, b : (ClassIn(j, b, s) /\ b.name = d.name) => MayBe(resource, b, s)
    BY <1>8, <2>1, <2>2, <2>4 DEF MayBe
  <2>6. QED
    BY <1>6, <2>3, <2>4, <2>5
<1>9. CASE resource.form = "call"
  <2>1. resource.path = <<scope>>
    BY <1>2, <1>9 DEF MayBe
  <2>2. ClassOf(resource) = FirstClassOf(scope)
    BY <1>9, <2>1 DEF ClassOf
  <2>3. PICK i, d : ClassIn(i, d, scope) /\ FirstClassOf(scope) = <<scope, d.name>>
    BY <1>2, <1>4, FirstClassOfIs
  <2>4. \A j, b : (ClassIn(j, b, scope) /\ b.name = d.name) => MayBe(resource, b, scope)
    BY <1>9, <2>1 DEF MayBe
  <2>5. QED
    BY <1>6, <2>2, <2>3, <2>4
<1>10. CASE resource.form = "other"
  BY <1>2, <1>10 DEF MayBe
<1>11. QED
  BY <1>1, <1>7, <1>8, <1>9, <1>10 DEF IsUsing

\* A using of a resource of one class calls what enters and what leaves this class.  (codegen_using,
\* resolve_class_name)
THEOREM UsingCallsItsClass == Spec => []UsingHolds
<1> DEFINE Holds(h) == \A class \in ResourceClasses(h.at, h.resource) :
                         ResourceClasses(h.at, h.resource) = {class} =>
                           \A enter \in class.enter, exit \in class.exit :
                             (class.enter = {enter} /\ class.exit = {exit}) => h.enter = enter /\ h.exit = exit
           Inv == IsSequence(held) /\ (ClassNamesApart => \A h \in ToSet(held) : Holds(h))
<1>1. Init => Inv
  <2>1. <<>> \in Seq(ToSet(<<>>)) /\ ToSet(<<>>) = {}
    BY ElementsOf
  <2>2. QED
    BY <2>1 DEF Init, IsSequence
<1>2. Inv /\ Reading /\ [Next]_vars => Inv'
  <2> SUFFICES ASSUME Inv, Reading, [Next]_vars PROVE Inv'
    OBVIOUS
  <2>1. ASSUME UNCHANGED <<program, held>> PROVE Inv'
    <3>1. IsSequence(held') /\ held' = held
      BY <2>1
    <3>2. ClassNamesApart' <=> ClassNamesApart
      BY <2>1 DEF ClassNamesApart, ImportsTo
    <3>3. \A h : Holds(h)' <=> Holds(h)
      BY <2>1 DEF ResourceClasses, ImportsTo
    <3> HIDE DEF Holds
    <3>4. QED
      BY <3>1, <3>2, <3>3
  <2>2. CASE GenerateUsing
    <3>1. /\ InABody /\ Head(todo).kind = "using" /\ UNCHANGED program
          /\ held' = Append(held, [at |-> at - 1, resource |-> Head(todo),
                                   enter |-> MethodOf(ClassOf(Head(todo)), <<"enter">>),
                                   exit |-> MethodOf(ClassOf(Head(todo)), <<"exit">>)])
      BY <2>2 DEF GenerateUsing, InABody
    <3>2. PICK new : new = [at |-> at - 1, resource |-> Head(todo),
                            enter |-> MethodOf(ClassOf(Head(todo)), <<"enter">>),
                            exit |-> MethodOf(ClassOf(Head(todo)), <<"exit">>)]
      OBVIOUS
    <3>3. Head(todo) \in ToSet(program[at - 1].body)
      BY <3>1, EmptySeq DEF InABody, Reading
    <3>4. ClassNamesApart => Holds(new)
      <4>1. new.at = at - 1 /\ new.resource = Head(todo)
        BY <3>2
      <4>2. ASSUME ClassNamesApart, NEW class \in ResourceClasses(at - 1, Head(todo)), ResourceClasses(at - 1, Head(todo)) = {class},
                   NEW first \in class.enter, NEW last \in class.exit, class.enter = {first}, class.exit = {last}
            PROVE  new.enter = first /\ new.exit = last
        <5>1. MethodOf(ClassOf(Head(todo)), <<"enter">>) = first /\ MethodOf(ClassOf(Head(todo)), <<"exit">>) = last
          BY <3>1, <3>3, <4>2, HeldByItsClass
        <5>2. QED
          BY <3>2, <5>1
      <4>3. QED
        BY <4>1, <4>2
    <3>5. PICK S : S = ToSet(held) \cup {new}
      OBVIOUS
    <3>6. held \in Seq(S)
      BY <3>5 DEF IsSequence
    <3>7. Append(held, new) \in Seq(S) /\ ToSet(Append(held, new)) = S
      BY <3>5, <3>6, ElementsOf
    <3>8. IsSequence(held') /\ ToSet(held') = S
      BY <3>1, <3>2, <3>7 DEF IsSequence
    <3>9. ClassNamesApart' <=> ClassNamesApart
      BY <3>1 DEF ClassNamesApart, ImportsTo
    <3>10. \A h : Holds(h)' <=> Holds(h)
      BY <3>1 DEF ResourceClasses, ImportsTo
    <3> HIDE DEF Holds
    <3>11. QED
      BY <3>4, <3>5, <3>8, <3>9, <3>10
  <2>3. QED
    BY <2>1, <2>2 DEF Next, vars, Declare, Check, NextPhase, GenerateImport, GenerateFunction, GenerateCall
<1>3. Inv => UsingHolds
  BY DEF UsingHolds
<1>4. QED
  BY <1>1, <1>2, <1>3, ReadingIs, PTL DEF Spec

-----------------------------------------------------------------------------
(* What is the name of what.                                               *)

\* The compiler's own names, and those that begin as the one of a function of some name does.
Reserved(symbol) == symbol # <<>> /\ symbol[1] = "_pC"
Begins(symbol, name) == Len(name) < Len(symbol) /\ \A k \in 1 .. Len(name) : symbol[k + 1] = name[k]

\* The functions and methods that the program imports.
ImportedFunctions == UNION {ToSet(FunctionsOf(imp)) : imp \in ImportsTo(Len(program))}
ImportedMethods == UNION {ToSet(c.methods) : c \in UNION {ToSet(ClassesOf(imp)) : imp \in ImportsTo(Len(program))}}

\* No name in a file is one of the compiler's own, nor is a symbol in a header.
NothingReserved ==
  /\ \A imp \in ImportsTo(Len(program)) : \A e \in ToSet(FunctionsOf(imp)) :
       ~Reserved(e.orig) /\ (imp.file.kind = "ph" => ~Reserved(e.symbol))
  /\ \A m \in ImportedMethods : ~Reserved(m.symbol)

\* What a call names is not another function's: neither begins the name of another in the object file
\* with it, nor is a C function so called, unless it has this name without a module in front of it.
Apart(call) ==
  /\ ~Reserved(call.name)
  /\ \A e \in ImportedFunctions : Begins(e.pc, call.name) => e.orig = call.name
  /\ \A j \in 1 .. Len(program) :
       (program[j].kind = "function" /\ Begins(MangleName(program[j].name, program[j].params), call.name))
         => program[j].name = call.name
  /\ call.scope = <<>> =>
       /\ \A imp \in ImportsTo(Len(program)) : \A e \in ToSet(FunctionsOf(imp)) :
            e.symbol = call.name => e.orig = call.name /\ <<>> \in ToSet(ScopesOf(imp))
       /\ \A m \in ImportedMethods : m.symbol # call.name

\* No symbol of the program, nor of a file, is mistaken for that of another function.
SymbolsApart ==
  /\ NothingReserved
  /\ \A i \in 1 .. Len(program) : program[i].kind = "function" => \A call \in ToSet(CallsOf(program[i])) : Apart(call)

-----------------------------------------------------------------------------
\* What a mangled name begins with.
LEMMA Prefixed ==
  ASSUME NEW S, NEW x \in S, NEW n \in Seq(S), NEW l \in Seq(S), NEW s, s = <<x>> \o n \o l
  PROVE  /\ s \in Seq(S) /\ Len(s) > Len(n) /\ s[1] = x /\ \A k \in 1 .. Len(n) : s[k + 1] = n[k]
<1>1. PICK y : y = <<x>>
  OBVIOUS
<1>2. y \in Seq(S)
  BY <1>1
<1>3. y \in Seq(S) /\ Len(y) = 1 /\ y[1] = x
  BY <1>1
<1>4. PICK z : z = y \o n
  OBVIOUS
<1>5. PICK a, b, c \in Nat : a = Len(n) /\ b = Len(l) /\ c = Len(z)
  <2>1. z \in Seq(S)
    BY <1>3, <1>4, Joined
  <2>2. QED
    BY <2>1
<1>6. z \in Seq(S) /\ c = 1 + a /\ z[1] = x /\ \A k \in 1 .. a : z[k + 1] = n[k]
  <2>1. z \in Seq(S) /\ Len(z) = Len(y) + Len(n)
    BY <1>3, <1>4, Joined
  <2>2. \A k \in 1 .. Len(y) : z[k] = y[k]
    BY <1>3, <1>4, Joined
  <2>3. \A k \in 1 .. Len(n) : z[k + Len(y)] = n[k]
    BY <1>2, <1>4, Joined
  <2>4. QED
    BY <1>3, <1>5, <2>1, <2>2, <2>3
<1>7. s = z \o l
  BY <1>1, <1>4
<1>8. s \in Seq(S) /\ Len(s) = c + b
  BY <1>5, <1>6, <1>7, Joined
<1>9. \A k \in 1 .. c : s[k] = z[k]
  BY <1>5, <1>6, <1>7, Joined
<1>10. s[1] = x
  BY <1>5, <1>6, <1>9
<1>11. ASSUME NEW k \in 1 .. a PROVE s[k + 1] = n[k]
  <2>1. k + 1 \in 1 .. c
    BY <1>6
  <2>2. QED
    BY <1>6, <1>9, <2>1
<1>12. c + b > a
  BY <1>6
<1>13. QED
  BY <1>5, <1>8, <1>10, <1>11, <1>12

\* The name of a function in the object file.
LEMMA MangledBegins ==
  ASSUME NEW name \in FullNames, NEW T, NEW l \in Seq(T), NEW s, s = Mangled(name, l)
  PROVE  /\ Reserved(s) /\ Begins(s, name) /\ Len(s) >= 2 /\ ~Dotted(s, 2)
         /\ \E U : s \in Seq(U)
<1>1. PICK U : U = Parts \cup T \cup {"_pC"}
  OBVIOUS
<1>2. name \in Seq(Parts) /\ name # <<>>
  BY DEF FullNames
<1>3. PICK x : x = "_pC"
  OBVIOUS
<1>4. x \in U /\ name \in Seq(U) /\ l \in Seq(U)
  BY <1>1, <1>2, <1>3
<1>5. s = <<x>> \o name \o l
  BY <1>3 DEF Mangled
<1>6. s \in Seq(U) /\ Len(s) > Len(name) /\ s[1] = x /\ \A k \in 1 .. Len(name) : s[k + 1] = name[k]
  BY <1>4, <1>5, Prefixed
<1>7. PICK a, b \in Nat : a = Len(s) /\ b = Len(name)
  BY <1>4, <1>6
<1>8. b >= 1
  <2>1. Len(name) # 0
    BY <1>2, EmptySeq
  <2>2. QED
    BY <1>7, <2>1
<1>9. a >= 2
  BY <1>6, <1>7, <1>8
<1>10. Reserved(s)
  <2>1. s # <<>>
    BY <1>6, <1>7, <1>9, EmptySeq
  <2>2. QED
    BY <1>3, <1>6, <2>1 DEF Reserved
<1>11. Begins(s, name)
  BY <1>6 DEF Begins
<1>12. ~Dotted(s, 2)
  <2>1. s[1 + 1] = name[1] /\ name[1] \in Parts
    BY <1>2, <1>6, <1>7, <1>8
  <2>2. s[2] \in Pieces
    BY <2>1 DEF Pieces
  <2>3. QED
    BY <2>2, DotsOf
<1>13. QED
  BY <1>6, <1>7, <1>9, <1>10, <1>11, <1>12

\* The names that the compiler guesses for a call.
LEMMA GuessedIs ==
  ASSUME NEW call, IsCall(call), NEW s, s = GuessedName(call) \/ (\E letter : s = Mangled(call.name, [i \in DOMAIN call.args |-> letter]))
  PROVE  Reserved(s) /\ Begins(s, call.name) /\ Len(s) >= 2 /\ ~Dotted(s, 2) /\ \E U : s \in Seq(U)
<1>1. call.name \in FullNames /\ call.args \in Seq(ToSet(call.args))
  BY DEF IsCall, IsSequence
<1>2. DOMAIN call.args = 1 .. Len(call.args) /\ Len(call.args) \in Nat
  BY <1>1
<1>3. PICK l, T : l \in Seq(T) /\ s = Mangled(call.name, l)
  <2>1. CASE s = GuessedName(call)
    <3>1. PICK l : l = [i \in DOMAIN call.args |-> Guess(call.args[i])]
      OBVIOUS
    <3>2. PICK T : T = {Guess(call.args[i]) : i \in DOMAIN call.args}
      OBVIOUS
    <3>3. l \in Seq(T)
      BY <1>2, <3>1, <3>2
    <3>4. QED
      BY <2>1, <3>1, <3>3 DEF GuessedName
  <2>2. ASSUME NEW letter, s = Mangled(call.name, [i \in DOMAIN call.args |-> letter]) PROVE \E l, T : l \in Seq(T) /\ s = Mangled(call.name, l)
    <3>1. PICK l : l = [i \in DOMAIN call.args |-> letter]
      OBVIOUS
    <3>2. l \in Seq({letter})
      BY <1>2, <3>1
    <3>3. QED
      BY <2>2, <3>1, <3>2
  <2>3. QED
    BY <2>1, <2>2
<1>4. QED
  BY <1>1, <1>3, MangledBegins

-----------------------------------------------------------------------------
(* What a call finds in the names that imports gave.                       *)

\* The scopes of the calls of functions.
CallScopes == {<<>>} \cup {<<s>> : s \in Parts}

\* A name that a call is looked up by: nothing in it is a dot but what parts it from the module.
Sought(scope, name) == scope \in CallScopes /\ (\E U : name \in Seq(U)) /\ Len(name) >= 1 /\ (Len(name) >= 2 => ~Dotted(name, 2))

\* Marks, and more.
MarksWith(U) == U \cup Parts \cup {"."}

\* Where the dot is in what a call looks for.
LEMMA SoughtKeys ==
  ASSUME NEW scope, NEW name, Sought(scope, name), NEW key, key = Key(scope, name)
  PROVE  /\ (\E U : key \in Seq(U)) /\ (\E U : name \in Seq(U))
         /\ scope = <<>> => key = name /\ (Len(key) >= 2 => ~Dotted(key, 2))
         /\ \A a : scope = <<a>> => /\ Len(key) = Len(name) + 2 /\ Len(key) >= 3 /\ key[1] = a /\ Dotted(key, 2)
                                    /\ Len(key) >= 4 => ~Dotted(key, 4)
                                    /\ \A i \in 1 .. Len(name) : key[i + 2] = name[i]
<1>1. PICK U : name \in Seq(U)
  BY DEF Sought
<1>2. CASE scope = <<>>
  <2>1. key = name
    BY <1>1, <1>2, BareKey
  <2>2. \A a : scope # <<a>>
    BY <1>2
  <2>3. QED
    BY <1>1, <1>2, <2>1, <2>2 DEF Sought
<1>3. ASSUME NEW a \in Parts, scope = <<a>>
      PROVE  /\ (\E V : key \in Seq(V)) /\ scope # <<>>
             /\ Len(key) = Len(name) + 2 /\ Len(key) >= 3 /\ key[1] = a /\ Dotted(key, 2)
             /\ Len(key) >= 4 => ~Dotted(key, 4)
             /\ \A i \in 1 .. Len(name) : key[i + 2] = name[i]
  <2>1. "." \in MarksWith(U) /\ a \in MarksWith(U) /\ name \in Seq(MarksWith(U))
    BY <1>1 DEF MarksWith
  <2>2. /\ key \in Seq(MarksWith(U)) /\ Len(key) = Len(name) + 2 /\ key[1] = a /\ key[2] = "."
        /\ \A i \in 1 .. Len(name) : key[i + 2] = name[i]
    <3>1. key = Key(<<a>>, name)
      BY <1>3
    <3>2. QED
      BY <2>1, <3>1, ModuleKey
  <2>3. Dotted(key, 2)
    BY <2>2, DotsOf
  <2>4. PICK k, n \in Nat : k = Len(key) /\ n = Len(name)
    BY <2>1, <2>2
  <2>5. k = n + 2 /\ n >= 1
    BY <2>2, <2>4 DEF Sought
  <2>6. ASSUME k >= 4 PROVE ~Dotted(key, 4)
    <3>1. n >= 2 /\ 2 \in 1 .. n /\ 2 + 2 = 4
      BY <2>5, <2>6
    <3>2. key[2 + 2] = name[2]
      BY <2>2, <2>4, <3>1
    <3>3. key[4] = name[2]
      BY <3>1, <3>2
    <3>4. ~Dotted(name, 2)
      BY <2>4, <3>1 DEF Sought
    <3>5. QED
      BY <3>3, <3>4 DEF Dotted
  <2>7. k >= 3
    BY <2>5
  <2>8. scope # <<>>
    BY <1>3
  <2>9. QED
    BY <2>2, <2>3, <2>4, <2>6, <2>7, <2>8
<1>4. ASSUME NEW a \in Parts, scope = <<a>> PROVE \A b : scope = <<b>> => b = a
  BY <1>4
<1>5. QED
  BY <1>1, <1>2, <1>3, <1>4 DEF Sought, CallScopes

\* The key of a name behind one qualifier.
LEMMA QualifiedKey ==
  ASSUME NEW a, NEW name, Sought(<<a>>, name), NEW key, key = Key(<<a>>, name)
  PROVE  Len(key) = Len(name) + 2 /\ key[1] = a /\ \A i \in 1 .. Len(name) : key[i + 2] = name[i]
<1>1. PICK U : name \in Seq(U)
  BY DEF Sought
<1>2. PICK S : S = U \cup {a, "."}
  OBVIOUS
<1>3. "." \in S /\ a \in S /\ name \in Seq(S)
  BY <1>1, <1>2
<1>4. QED
  BY <1>3, ModuleKey

\* What a call finds is of a function, of this scope.
LEMMA NamedInScope ==
  ASSUME NEW imp \in ImportForms, NEW m, IsFunctionMap(m, imp), NEW scope, NEW name, Sought(scope, name), m.key = Key(scope, name)
  PROVE  \E e \in ToSet(FunctionsOf(imp)) : scope \in ToSet(ScopesOf(imp)) /\ m.symbol = e.symbol /\ name \in {e.pc, e.orig}
<1>1. PICK e \in ToSet(FunctionsOf(imp)), s \in ToSet(ScopesOf(imp)) :
         m = Map(Key(s, e.pc), e.symbol) \/ m = Map(Key(s, e.orig), e.symbol)
  BY DEF IsFunctionMap
<1>2. e \in FunctionEntries /\ s \in CallScopes
  BY SelectedIs, ScopesAre, ElementsOf DEF CallScopes
<1>3. PICK n \in {e.pc, e.orig} : m = Map(Key(s, n), e.symbol)
  BY <1>1
<1>4. n \in Seq(Pieces) /\ Len(n) >= 1
  <2>1. e.pc \in Seq(Pieces) /\ e.orig \in Seq(Pieces) /\ Len(e.pc) >= 2 /\ Len(e.orig) >= 1
    BY <1>2, FunctionNames
  <2>2. CASE n = e.pc
    BY <2>1, <2>2
  <2>3. CASE n = e.orig
    BY <2>1, <2>3
  <2>4. QED
    BY <1>3, <2>2, <2>3
<1>5. PICK key : key = Key(scope, name)
  OBVIOUS
<1>6. m.key = key /\ key = Key(s, n) /\ m.symbol = e.symbol
  BY <1>3, <1>5 DEF Map
<1>7. CASE s = <<>>
  <2>1. key = n /\ \A i \in 1 .. Len(n) : ~Dotted(n, i)
    BY <1>4, <1>6, <1>7, BareDots
  <2>2. scope = <<>>
    <3>1. SUFFICES ASSUME NEW a, scope = <<a>> PROVE FALSE
      BY DEF Sought, CallScopes
    <3>2. Len(key) >= 3 /\ Dotted(key, 2)
      BY <1>5, <3>1, SoughtKeys
    <3>3. 2 \in 1 .. Len(n)
      <4>1. PICK l \in Nat : l = Len(n)
        BY <1>4
      <4>2. l >= 3
        BY <2>1, <3>2, <4>1
      <4>3. QED
        BY <4>1, <4>2
    <3>4. QED
      BY <2>1, <3>2, <3>3
  <2>3. key = name
    BY <1>5, <2>2, SoughtKeys
  <2>4. QED
    BY <1>1, <1>3, <1>6, <1>7, <2>1, <2>2, <2>3
<1>8. ASSUME NEW b \in Parts, s = <<b>>
      PROVE  scope = s /\ name = n
  <2>1. /\ key \in Seq(Marks) /\ Len(key) = Len(n) + 2 /\ key[1] = b
        /\ \A i \in 1 .. Len(n) : key[i + 2] = n[i]
        /\ \A i \in 1 .. Len(key) : Dotted(key, i) <=> i = 2
    <3>1. key = Key(<<b>>, n)
      BY <1>6, <1>8
    <3>2. QED
      BY <1>4, <3>1, ModuleDots
  <2>2. PICK k, l \in Nat : k = Len(key) /\ l = Len(n)
    BY <1>4, <2>1
  <2>3. k = l + 2 /\ l >= 1
    BY <1>4, <2>1, <2>2
  <2>4. Dotted(key, 2) /\ k >= 3
    <3>1. 2 \in 1 .. k
      BY <2>3
    <3>2. QED
      BY <2>1, <2>2, <2>3, <3>1
  <2>5. scope # <<>>
    <3>1. SUFFICES ASSUME scope = <<>> PROVE FALSE
      OBVIOUS
    <3>2. Len(key) >= 2 => ~Dotted(key, 2)
      BY <1>5, <3>1, SoughtKeys
    <3>3. QED
      BY <2>2, <2>4, <3>2
  <2>6. PICK a : scope = <<a>>
    BY <2>5 DEF Sought, CallScopes
  <2>7. /\ Len(key) = Len(name) + 2 /\ key[1] = a
        /\ \A i \in 1 .. Len(name) : key[i + 2] = name[i]
    <3>1. Sought(<<a>>, name) /\ key = Key(<<a>>, name)
      BY <1>5, <2>6
    <3>2. QED
      BY <3>1, QualifiedKey
  <2>8. PICK U : name \in Seq(U)
    BY DEF Sought
  <2>9. PICK d \in Nat : d = Len(name)
    BY <2>8
  <2>10. d = l
    <3>1. k = d + 2
      BY <2>2, <2>7, <2>9
    <3>2. QED
      BY <2>3, <3>1
  <2>11. \A i \in 1 .. l : name[i] = n[i]
    BY <2>1, <2>2, <2>7, <2>9, <2>10
  <2>12. name = [i \in 1 .. l |-> name[i]] /\ n = [i \in 1 .. l |-> n[i]]
    <3>1. name = [i \in 1 .. d |-> name[i]]
      BY <2>8, <2>9
    <3>2. n = [i \in 1 .. l |-> n[i]]
      BY <1>4, <2>2
    <3>3. QED
      BY <2>10, <3>1, <3>2
  <2>13. [i \in 1 .. l |-> name[i]] = [i \in 1 .. l |-> n[i]]
    BY <2>11
  <2>14. QED
    BY <1>8, <2>1, <2>6, <2>7, <2>12, <2>13
<1>9. QED
  BY <1>1, <1>2, <1>3, <1>6, <1>7, <1>8 DEF CallScopes

\* What such a call finds is not a method.
LEMMA NoMethodThere ==
  ASSUME NEW imp \in ImportForms, NEW m, IsMethodMap(m, imp), NEW scope, NEW name, Sought(scope, name)
  PROVE  m.key # Key(scope, name)
<1> SUFFICES ASSUME m.key = Key(scope, name) PROVE FALSE
  OBVIOUS
<1>1. PICK c, s, k : MethodKey(m, c, s, k)
  BY MethodKeys
<1>2. PICK key : key = m.key
  OBVIOUS
<1>3. key \in Seq(Marks) /\ Len(key) >= 5 /\ \A i \in 1 .. Len(key) : Dotted(key, i) <=> i \in {2, 4}
  BY <1>1, <1>2 DEF MethodKey, MapForms
<1>4. PICK l \in Nat : l = Len(key)
  BY <1>3
<1>5. l >= 5 /\ Dotted(key, 2) /\ Dotted(key, 4)
  <2>1. l >= 5
    BY <1>3, <1>4
  <2>2. 2 \in 1 .. l /\ 4 \in 1 .. l
    BY <2>1
  <2>3. QED
    BY <1>3, <1>4, <2>1, <2>2
<1>6. l >= 2 /\ l >= 4
  BY <1>5
<1>7. CASE scope = <<>>
  <2>1. Len(key) >= 2 => ~Dotted(key, 2)
    BY <1>2, <1>7, SoughtKeys
  <2>2. QED
    BY <1>4, <1>5, <1>6, <2>1
<1>8. ASSUME NEW a, scope = <<a>> PROVE FALSE
  <2>1. Len(key) >= 4 => ~Dotted(key, 4)
    BY <1>2, <1>8, SoughtKeys
  <2>2. QED
    BY <1>4, <1>5, <1>6, <2>1
<1>9. QED
  BY <1>7, <1>8 DEF Sought, CallScopes

\* What such a call finds is a function of an import above, by one of its names and in one of its scopes.
LEMMA LookedUp ==
  ASSUME InABody, NEW scope, NEW name, Sought(scope, name), Lookup(Key(scope, name)) # Undefined
  PROVE  \E imp \in ImportsTo(at - 1) : \E e \in ToSet(FunctionsOf(imp)) :
           scope \in ToSet(ScopesOf(imp)) /\ Lookup(Key(scope, name)) = e.symbol /\ name \in {e.pc, e.orig}
<1>1. PICK key : key = Key(scope, name)
  OBVIOUS
<1> DEFINE found == {i \in DOMAIN maps : maps[i].key = key}
<1>2. Lookup(key) = IF found = {} THEN Undefined ELSE maps[Max(found)].symbol
  BY DEF Lookup
<1>3. found # {}
  BY <1>1, <1>2
<1>4. Max(found) \in found /\ maps[Max(found)] \in ToSet(maps)
  BY <1>3, NewestAndOldest
<1>5. PICK m \in ToSet(maps) : m = maps[Max(found)] /\ m.key = key
  BY <1>4
<1>6. PICK imp \in ImportsTo(at - 1) : IsFunctionMap(m, imp) \/ IsMethodMap(m, imp)
  BY NamesInABody
<1>7. imp \in ImportForms
  BY NamesInABody
<1>8. IsFunctionMap(m, imp)
  BY <1>1, <1>5, <1>6, <1>7, NoMethodThere
<1>9. PICK e \in ToSet(FunctionsOf(imp)) : scope \in ToSet(ScopesOf(imp)) /\ m.symbol = e.symbol /\ name \in {e.pc, e.orig}
  BY <1>1, <1>5, <1>7, <1>8, NamedInScope
<1>10. QED
  BY <1>1, <1>2, <1>3, <1>5, <1>9

-----------------------------------------------------------------------------
(* What a call finds in the LLVM module.                                   *)

\* What is in the LLVM module is a function of the program above, or a C function that an import names.
DeclaredFrom ==
  /\ phase \in {"declare", "check"} => declared = {}
  /\ phase = "generate" =>
       \A s \in declared : \/ \E j \in 1 .. at - 1 : program[j].kind = "function" /\ s = ObjectName(program[j])
                           \/ \E m \in ToSet(maps) : m.symbol = s

\* What is found is the symbol of a name that an import gave.
LEMMA LookupIsSymbol ==
  ASSUME InABody, NEW key, Lookup(key) # Undefined
  PROVE  \E m \in ToSet(maps) : m.symbol = Lookup(key)
<1> DEFINE found == {i \in DOMAIN maps : maps[i].key = key}
<1>1. Lookup(key) = IF found = {} THEN Undefined ELSE maps[Max(found)].symbol
  BY DEF Lookup
<1>2. found # {}
  BY <1>1
<1>3. maps[Max(found)] \in ToSet(maps)
  BY <1>2, NewestAndOldest
<1>4. QED
  BY <1>1, <1>2, <1>3

\* The best overload is in the module, under a guessed name, and fits.
LEMMA BestOverloadIs ==
  ASSUME NEW call, BestOverload(call) # Undefined
  PROVE  /\ BestOverload(call) \in declared /\ Score(call, BestOverload(call)) >= 0
         /\ \E letter : BestOverload(call) = Mangled(call.name, [i \in DOMAIN call.args |-> letter])
<1> DEFINE letters == <<"i", "f", "s", "b", "c">>
           tried == [c \in 1 .. 5 |-> Mangled(call.name, [i \in DOMAIN call.args |-> letters[c]])]
           scores == [c \in 1 .. 5 |-> IF tried[c] \in declared THEN Score(call, tried[c]) ELSE -1]
           best(c) == scores[c] >= 0 /\ \A d \in 1 .. 5 : scores[d] < scores[c] \/ (scores[d] = scores[c] /\ c <= d)
<1>1. BestOverload(call) = IF \E c \in 1 .. 5 : best(c) THEN tried[CHOOSE c \in 1 .. 5 : best(c)] ELSE Undefined
  BY DEF BestOverload
<1> HIDE DEF best
<1>2. PICK c \in 1 .. 5 : best(c) /\ BestOverload(call) = tried[c]
  <2>1. \E c \in 1 .. 5 : best(c)
    BY <1>1
  <2>2. PICK c : c = CHOOSE d \in 1 .. 5 : best(d)
    OBVIOUS
  <2> HIDE DEF tried
  <2>3. c \in 1 .. 5 /\ best(c)
    BY <2>1, <2>2
  <2>4. QED
    BY <1>1, <2>1, <2>2, <2>3
<1>3. tried[c] \in declared /\ Score(call, tried[c]) >= 0
  <2>1. scores[c] >= 0
    BY <1>2 DEF best
  <2>2. scores[c] = IF tried[c] \in declared THEN Score(call, tried[c]) ELSE -1
    OBVIOUS
  <2> HIDE DEF scores, tried
  <2>3. QED
    BY <2>1, <2>2
<1>4. tried[c] = Mangled(call.name, [i \in DOMAIN call.args |-> letters[c]])
  OBVIOUS
<1> HIDE DEF tried
<1>5. QED
  BY <1>2, <1>3, <1>4

\* A name of one of the forms that the compiler guesses.
GuessOf(s, call) ==
  s = GuessedName(call) \/ \E letter : s = Mangled(call.name, [i \in DOMAIN call.args |-> letter])

\* Where a symbol comes from that a call reaches.
LEMMA Resolved ==
  ASSUME NEW call, IsCall(call), NEW s, s = Resolve(call), s # Undefined
  PROVE  /\ call.scope = <<>> => \/ s \in declared /\ (GuessOf(s, call) \/ s = call.name)
                                 \/ s = Lookup(GuessedName(call))
                                 \/ s = Lookup(call.name)
         /\ Len(call.scope) = 1 => \/ s = Lookup(Key(call.scope, GuessedName(call)))
                                   \/ s = Lookup(Key(call.scope, call.name))
         /\ s \in declared \/ \E key : s = Lookup(key)
<1>1. call.scope \in Seq(Parts) /\ (call.scope = <<>> <=> Len(call.scope) = 0) /\ Len(call.scope) \in {0, 1, 2}
  <2>1. call.scope \in Seq(Parts) /\ Len(call.scope) <= 2
    BY DEF IsCall
  <2>2. call.scope = <<>> <=> Len(call.scope) = 0
    BY <2>1, EmptySeq
  <2>3. PICK n \in Nat : n = Len(call.scope)
    BY <2>1
  <2>4. n <= 2
    BY <2>1, <2>3
  <2>5. n \in {0, 1, 2}
    BY <2>4
  <2>6. QED
    BY <2>1, <2>2, <2>3, <2>5
<1>2. CASE call.scope = <<>>
  <2>1. s = ResolveBare(call) /\ Len(call.scope) # 1
    BY <1>1, <1>2 DEF Resolve
  <2>2. CASE s = GuessedName(call) /\ s \in declared
    BY <1>2, <2>1, <2>2 DEF GuessOf
  <2>3. CASE s = BestOverload(call)
    <3>1. s \in declared /\ GuessOf(s, call)
      BY <2>3, BestOverloadIs DEF GuessOf
    <3>2. QED
      BY <1>2, <2>1, <3>1
  <2>4. CASE s = call.name /\ s \in declared
    BY <1>2, <2>1, <2>4
  <2>5. CASE s = Either(Lookup(GuessedName(call)), Lookup(call.name))
    <3>1. s = Lookup(GuessedName(call)) \/ s = Lookup(call.name)
      BY <2>5 DEF Either
    <3>2. QED
      BY <1>2, <2>1, <3>1
  <2>6. \/ s = GuessedName(call) /\ s \in declared
        \/ s = BestOverload(call)
        \/ s = call.name /\ s \in declared
        \/ s = Either(Lookup(GuessedName(call)), Lookup(call.name))
    BY <2>1 DEF ResolveBare
  <2>7. QED
    BY <2>2, <2>3, <2>4, <2>5, <2>6
<1>3. CASE Len(call.scope) = 1
  <2>1. s = ResolveQualified(call) /\ call.scope # <<>>
    BY <1>1, <1>3 DEF Resolve
  <2>2. s = Lookup(Key(call.scope, GuessedName(call))) \/ s = Lookup(Key(call.scope, call.name))
    BY <2>1 DEF ResolveQualified, Either
  <2>3. QED
    BY <2>1, <2>2
<1>4. CASE Len(call.scope) = 2
  <2>1. s = ResolveMethod(call) /\ call.scope # <<>> /\ Len(call.scope) # 1
    BY <1>1, <1>4 DEF Resolve
  <2>2. s = Lookup(Key(call.scope, GuessedName(call))) \/ s = Lookup(Key(call.scope, call.name)) \/ s \in declared
    BY <2>1 DEF ResolveMethod, Either
  <2>3. QED
    BY <2>1, <2>2
<1>5. QED
  BY <1>1, <1>2, <1>3, <1>4

\* What is in the LLVM module.  (codegen_func_decl, codegen_call, codegen_using)
THEOREM DeclaredFromIs == Spec => []DeclaredFrom
<1>1. Init => DeclaredFrom
  BY DEF Init, DeclaredFrom
<1>2. Reading /\ Reading' /\ DeclaredFrom /\ [Next]_vars => DeclaredFrom'
  <2> SUFFICES ASSUME Reading, Reading', DeclaredFrom, [Next]_vars PROVE DeclaredFrom'
    OBVIOUS
  <2>1. CASE UNCHANGED vars
    BY <2>1 DEF vars, DeclaredFrom, ObjectName
  <2>2. CASE Declare
    BY <2>2 DEF Declare, DeclaredFrom
  <2>3. CASE Check
    BY <2>3 DEF Check, DeclaredFrom
  <2>4. CASE NextPhase
    BY <2>4 DEF NextPhase, DeclaredFrom
  <2>5. CASE GenerateImport
    <3>1. /\ UNCHANGED <<program, declared>> /\ phase = "generate" /\ phase' = phase /\ at' = at + 1
          /\ at \in 1 .. Len(program) /\ program \in Programs
      BY <2>5, ProgramIs DEF GenerateImport, Reading
    <3>2. ToSet(maps) \subseteq ToSet(maps')
      <4>1. ToSet(maps) = ImportMaps(at - 1) /\ ToSet(maps)' = ImportMaps(at - 1)'
        BY <3>1 DEF Reading
      <4>2. (at + 1) - 1 = at
        BY <3>1
      <4>3. ImportMaps(at - 1)' = ImportMaps(at)
        BY <3>1, <4>2 DEF ImportMaps, ImportsTo
      <4>4. ImportMaps(at - 1) \subseteq ImportMaps(at)
        <5>1. ImportsTo(at - 1) \subseteq ImportsTo(at)
          BY <3>1, ImportsGrow
        <5>2. QED
          BY <5>1 DEF ImportMaps
      <4>5. ToSet(maps)' = ToSet(maps')
        OBVIOUS
      <4>6. QED
        BY <4>1, <4>3, <4>4, <4>5
    <3>3. 1 .. at - 1 \subseteq 1 .. at' - 1
      BY <3>1
    <3>4. QED
      BY <3>1, <3>2, <3>3 DEF DeclaredFrom
  <2>6. CASE GenerateFunction
    <3>1. /\ UNCHANGED <<program, maps>> /\ phase = "generate" /\ phase' = phase /\ at' = at + 1
          /\ at \in 1 .. Len(program) /\ program[at].kind = "function"
          /\ declared' = declared \cup {ObjectName(program[at])}
      BY <2>6, ProgramIs DEF GenerateFunction, Reading, Decl
    <3>2. 1 .. at - 1 \subseteq 1 .. at' - 1 /\ at \in 1 .. at' - 1
      BY <3>1
    <3>3. QED
      BY <3>1, <3>2 DEF DeclaredFrom
  <2>7. CASE GenerateCall
    <3>1. /\ InABody /\ UNCHANGED <<program, maps, at>>
          /\ \/ phase' = "failed"
             \/ phase' = phase /\ Resolve(Head(todo)) # Undefined /\ declared' = declared \cup {Resolve(Head(todo))}
      BY <2>7 DEF GenerateCall, InABody
    <3>2. CASE phase' = "failed"
      BY <3>2 DEF DeclaredFrom
    <3>3. PICK s : s = Resolve(Head(todo))
      OBVIOUS
    <3>4. CASE phase' = phase /\ s # Undefined /\ declared' = declared \cup {s}
      <4>1. IsCall(Head(todo))
        <5>1. /\ program \in Programs /\ at - 1 \in 1 .. Len(program) /\ program[at - 1].kind = "function"
              /\ todo # <<>> /\ todo \in Seq(ToSet(program[at - 1].body))
          BY <3>1 DEF InABody, Reading
        <5>2. Head(todo) \in ToSet(program[at - 1].body)
          BY <5>1, EmptySeq
        <5>3. IsFunction(program[at - 1])
          BY <5>1, DeclarationForms
        <5>4. Head(todo).kind = "call"
          BY <2>7 DEF GenerateCall
        <5>5. QED
          BY <5>2, <5>3, <5>4 DEF IsFunction, IsUsing
      <4>2. s \in declared \/ \E key : s = Lookup(key)
        BY <3>3, <3>4, <4>1, Resolved
      <4>3. s \in declared \/ \E m \in ToSet(maps) : m.symbol = s
        BY <3>1, <3>4, <4>2, LookupIsSymbol
      <4>4. QED
        BY <3>1, <3>4, <4>3 DEF DeclaredFrom, InABody
    <3>5. QED
      BY <3>1, <3>2, <3>3, <3>4
  <2>8. CASE GenerateUsing
    <3>1. PICK a, b : /\ InABody /\ UNCHANGED <<program, maps, at, phase>> /\ declared' = declared \cup ({a, b} \ {Undefined})
                      /\ \E class : a = MethodOf(class, <<"enter">>) /\ b = MethodOf(class, <<"exit">>)
      BY <2>8 DEF GenerateUsing, InABody
    <3>2. \A s \in {a, b} \ {Undefined} : \E m \in ToSet(maps) : m.symbol = s
      BY <3>1, LookupIsSymbol DEF MethodOf
    <3>3. QED
      BY <3>1, <3>2 DEF DeclaredFrom, InABody
  <2>9. QED
    BY <2>1, <2>2, <2>3, <2>4, <2>5, <2>6, <2>7, <2>8 DEF Next
<1>3. QED
  BY <1>1, <1>2, ReadingIs, PTL DEF Spec

-----------------------------------------------------------------------------
(* What a call reaches.                                                    *)

\* A function of this symbol is visible to the call.
SeenBy(call, s) == \E f \in Visible(at - 1, call) : f.symbol = s

\* All imports above the body are imports of the program.
LEMMA ImportsAbove ==
  ASSUME InABody, NEW imp \in ImportsTo(at - 1)
  PROVE  /\ imp \in ImportForms /\ imp \in ImportsTo(Len(program))
         /\ \E j \in 1 .. at - 1 : j \in 1 .. Len(program) /\ program[j].kind = "import" /\ imp = program[j]
         /\ \A e \in ToSet(FunctionsOf(imp)) : e \in ImportedFunctions /\ e \in FunctionEntries
<1>1. program \in Programs /\ at - 1 \in 1 .. Len(program)
  BY DEF InABody, Reading
<1>2. PICK j \in 1 .. at - 1 : program[j].kind = "import" /\ imp = program[j]
  BY DEF ImportsTo
<1>3. j \in 1 .. Len(program)
  BY <1>1, ProgramIs
<1>4. imp \in ImportForms
  BY <1>1, <1>2, <1>3, DeclarationForms
<1>5. imp \in ImportsTo(Len(program))
  BY <1>2, <1>3 DEF ImportsTo
<1>6. ASSUME NEW e \in ToSet(FunctionsOf(imp)) PROVE e \in ImportedFunctions /\ e \in FunctionEntries
  BY <1>4, <1>5, SelectedIs, ElementsOf DEF ImportedFunctions
<1>7. QED
  BY <1>2, <1>3, <1>4, <1>5, <1>6

\* A function of an import is seen by a call of its name, in a scope that the import gives it.
LEMMA SeesImport ==
  ASSUME InABody, NEW call, NEW imp \in ImportsTo(at - 1), NEW e \in ToSet(FunctionsOf(imp)),
         e.orig = call.name, call.scope \in ToSet(ScopesOf(imp)), NEW s, s = e.symbol
  PROVE  SeenBy(call, s)
<1>1. PICK j \in 1 .. at - 1 : program[j].kind = "import" /\ imp = program[j] /\ imp \in ImportForms
  BY ImportsAbove
<1>2. e \in ToSet(EntriesOf(imp.file)) /\ e.kind = "function" /\ (imp.selected = {} \/ e.orig \in imp.selected)
  BY <1>1, SelectedIs
<1>3. Function(e.symbol, e.params, imp.file.kind, e.pc) \in ImportedBy(imp, call)
  BY <1>2 DEF ImportedBy
<1>4. ImportedBy(imp, call) \subseteq Visible(at - 1, call)
  BY <1>1 DEF Visible
<1>5. Function(e.symbol, e.params, imp.file.kind, e.pc).symbol = s
  BY DEF Function
<1>6. QED
  BY <1>3, <1>4, <1>5 DEF SeenBy

\* A function of the program is seen by the bare calls of its name behind it and in it.
LEMMA SeesLocal ==
  ASSUME InABody, NEW call, call.scope = <<>>, NEW j \in 1 .. at - 1, program[j].kind = "function",
         program[j].name = call.name, NEW s, s = ObjectName(program[j])
  PROVE  SeenBy(call, s)
<1>1. Function(ObjectName(program[j]), program[j].params, "local", ObjectName(program[j])) \in Visible(at - 1, call)
  BY DEF Visible
<1>2. Function(ObjectName(program[j]), program[j].params, "local", ObjectName(program[j])).symbol = s
  BY DEF Function
<1>3. QED
  BY <1>1, <1>2 DEF SeenBy

\* What a call is looked up by.
LEMMA CallIsSought ==
  ASSUME NEW call, IsCall(call), call.scope \in CallScopes, NEW name, name = call.name \/ name = GuessedName(call)
  PROVE  Sought(call.scope, name)
<1>1. call.name \in FullNames
  BY DEF IsCall
<1>2. (\E U : name \in Seq(U)) /\ Len(name) >= 1 /\ (Len(name) >= 2 => ~Dotted(name, 2))
  <2>1. CASE name = call.name
    <3>1. name \in Seq(Pieces) /\ name # <<>>
      BY <1>1, <2>1, NamesArePieces DEF FullNames
    <3>2. PICK l \in Nat : l = Len(name)
      BY <3>1
    <3>3. l >= 1
      <4>1. l # 0
        BY <3>1, <3>2, EmptySeq
      <4>2. QED
        BY <3>2, <4>1
    <3>4. ASSUME l >= 2 PROVE ~Dotted(name, 2)
      <4>1. name[2] \in Pieces
        BY <3>1, <3>2, <3>4
      <4>2. QED
        BY <4>1, DotsOf
    <3>5. QED
      BY <3>1, <3>2, <3>3, <3>4
  <2>2. CASE name = GuessedName(call)
    <3>1. (\E U : name \in Seq(U)) /\ Len(name) >= 2 /\ ~Dotted(name, 2)
      BY <2>2, GuessedIs
    <3>2. PICK l \in Nat : l = Len(name)
      BY <3>1
    <3>3. l >= 1
      BY <3>1, <3>2
    <3>4. QED
      BY <3>1, <3>2, <3>3
  <2>3. QED
    BY <2>1, <2>2
<1>3. QED
  BY <1>2 DEF Sought

\* What a call finds in the names that imports gave.
LEMMA SeesLookedUp ==
  ASSUME InABody, NothingReserved, NEW call, IsCall(call), Apart(call), call.scope \in CallScopes,
         NEW name, name = call.name \/ name = GuessedName(call),
         NEW s, s = Lookup(Key(call.scope, name)), s # Undefined
  PROVE  SeenBy(call, s)
<1>1. Sought(call.scope, name)
  BY CallIsSought
<1>2. PICK imp \in ImportsTo(at - 1) : \E e \in ToSet(FunctionsOf(imp)) :
         call.scope \in ToSet(ScopesOf(imp)) /\ s = e.symbol /\ name \in {e.pc, e.orig}
  BY <1>1, LookedUp
<1>3. PICK e \in ToSet(FunctionsOf(imp)) : call.scope \in ToSet(ScopesOf(imp)) /\ s = e.symbol /\ name \in {e.pc, e.orig}
  BY <1>2
<1>4. imp \in ImportsTo(Len(program)) /\ e \in ImportedFunctions /\ e \in FunctionEntries
  BY ImportsAbove
<1>5. Reserved(e.pc) /\ ~Reserved(e.orig)
  <2>1. e.orig \in FullNames
    BY <1>4, FunctionNames
  <2>2. PICK l \in Seq(Pieces) : e.pc = <<"_pC">> \o e.orig \o l
    BY <1>4, MangledForms
  <2>3. e.pc = Mangled(e.orig, l)
    BY <2>2 DEF Mangled
  <2>4. Reserved(e.pc)
    BY <2>1, <2>3, MangledBegins
  <2>5. QED
    BY <1>4, <2>4 DEF NothingReserved
<1>6. CASE name = call.name
  <2>1. e.orig = call.name
    BY <1>3, <1>5, <1>6 DEF Apart
  <2>2. QED
    BY <1>3, <2>1, SeesImport
<1>7. CASE name = GuessedName(call)
  <2>1. Reserved(name) /\ Begins(name, call.name)
    BY <1>7, GuessedIs
  <2>2. name = e.pc
    BY <1>3, <1>5, <2>1
  <2>3. e.orig = call.name
    BY <1>4, <2>1, <2>2 DEF Apart
  <2>4. QED
    BY <1>3, <2>3, SeesImport
<1>8. QED
  BY <1>6, <1>7

\* The name in the object file of a function of the program.
LEMMA ObjectNames ==
  ASSUME InABody, NEW j \in 1 .. at - 1, program[j].kind = "function"
  PROVE  /\ j \in 1 .. Len(program)
         /\ \/ ObjectName(program[j]) = program[j].name /\ program[j].name = <<"main">>
            \/ /\ ObjectName(program[j]) = MangleName(program[j].name, program[j].params)
               /\ Reserved(ObjectName(program[j]))
<1>1. program \in Programs /\ at - 1 \in 1 .. Len(program)
  BY DEF InABody, Reading
<1>2. j \in 1 .. Len(program)
  BY <1>1, ProgramIs
<1>3. program[j].name \in FullNames /\ program[j].params \in Seq(KnownTypes)
  BY <1>1, <1>2, DeclarationForms DEF IsFunction
<1>4. MangleName(program[j].name, program[j].params) = Mangled(program[j].name, LettersOf(program[j].params, Letters))
  BY DEF MangleName, MangledAs, LettersOf
<1>5. LettersOf(program[j].params, Letters) \in Seq(Pieces)
  BY <1>3, LettersOfArePieces
<1>6. Reserved(MangleName(program[j].name, program[j].params))
  BY <1>3, <1>4, <1>5, MangledBegins
<1>7. QED
  BY <1>2, <1>6 DEF ObjectName

\* The functions of a source file are imported under bare names.
LEMMA PcIsBare ==
  ASSUME NEW imp \in ImportForms, imp.file.kind = "pc"
  PROVE  <<>> \in ToSet(ScopesOf(imp))
<1> DEFINE alias == IF imp.alias = "" THEN <<>> ELSE <<<<imp.alias>>>>
<1>1. ScopesOf(imp) = <<<<>>>> \o alias
  BY DEF ScopesOf, Bare
<1>2. PICK S : S = {<<>>, <<imp.alias>>}
  OBVIOUS
<1>3. <<>> \in S /\ <<imp.alias>> \in S
  BY <1>2
<1>4. <<<<>>>> \in Seq(S) /\ alias \in Seq(S) /\ ToSet(<<<<>>>>) = {<<>>}
  <2>1. \A a \in S : <<>> \in Seq(S) /\ <<a>> \in Seq(S) /\ ToSet(<<a>>) = {a}
    BY One
  <2>2. QED
    BY <1>3, <2>1
<1>5. PICK x : x = <<<<>>>>
  OBVIOUS
<1> HIDE DEF alias
<1>6. ScopesOf(imp) = x \o alias /\ x \in Seq(S) /\ alias \in Seq(S) /\ ToSet(x) = {<<>>}
  BY <1>1, <1>4, <1>5
<1>7. ToSet(x \o alias) = ToSet(x) \cup ToSet(alias)
  BY <1>6, ElementsOf
<1>8. QED
  BY <1>6, <1>7

\* What a bare call finds in the module.
LEMMA SeesDeclared ==
  ASSUME InABody, DeclaredFrom, NothingReserved, NEW call, IsCall(call), Apart(call), call.scope = <<>>,
         NEW s \in declared, GuessOf(s, call) \/ s = call.name
  PROVE  SeenBy(call, s)
<1>1. \/ \E j \in 1 .. at - 1 : program[j].kind = "function" /\ s = ObjectName(program[j])
      \/ \E m \in ToSet(maps) : m.symbol = s
  BY DEF DeclaredFrom, InABody
<1>2. GuessOf(s, call) => Reserved(s) /\ Begins(s, call.name)
  BY GuessedIs DEF GuessOf
<1>3. s = call.name => ~Reserved(s)
  BY DEF Apart
<1>4. ASSUME NEW j \in 1 .. at - 1, program[j].kind = "function", s = ObjectName(program[j]) PROVE SeenBy(call, s)
  <2>1. j \in 1 .. Len(program)
    BY <1>4, ObjectNames
  <2>2. CASE ObjectName(program[j]) = program[j].name /\ program[j].name = <<"main">>
    <3>1. ~Reserved(<<"main">>)
      BY DEF Reserved
    <3>2. s = call.name
      BY <1>2, <1>4, <2>2, <3>1
    <3>3. program[j].name = call.name
      BY <1>4, <2>2, <3>2
    <3>4. QED
      BY <1>4, <3>3, SeesLocal
  <2>3. CASE /\ ObjectName(program[j]) = MangleName(program[j].name, program[j].params)
             /\ Reserved(ObjectName(program[j]))
    <3>1. Begins(s, call.name)
      BY <1>2, <1>3, <1>4, <2>3
    <3>2. program[j].name = call.name
      BY <1>4, <2>1, <2>3, <3>1 DEF Apart
    <3>3. QED
      BY <1>4, <3>2, SeesLocal
  <2>4. QED
    BY <1>4, <2>2, <2>3, ObjectNames
<1>5. ASSUME NEW m \in ToSet(maps), m.symbol = s PROVE SeenBy(call, s)
  <2>1. PICK imp \in ImportsTo(at - 1) : IsFunctionMap(m, imp) \/ IsMethodMap(m, imp)
    BY NamesInABody
  <2>2. imp \in ImportForms /\ imp \in ImportsTo(Len(program))
    BY ImportsAbove
  <2>3. CASE IsMethodMap(m, imp)
    <3>1. PICK class \in ToSet(ClassesOf(imp)) : \E k \in ToSet(class.methods) : m.symbol = k.symbol
      BY <2>3 DEF IsMethodMap, IsMethodMapOf, Map
    <3>2. PICK k \in ToSet(class.methods) : s = k.symbol
      BY <1>5, <3>1
    <3>3. k \in ImportedMethods
      BY <2>2, <3>1, <3>2 DEF ImportedMethods
    <3>4. ~Reserved(s)
      BY <3>2, <3>3 DEF NothingReserved
    <3>5. s # call.name
      BY <3>2, <3>3 DEF Apart
    <3>6. QED
      BY <1>2, <3>4, <3>5
  <2>4. CASE IsFunctionMap(m, imp)
    <3>1. PICK e \in ToSet(FunctionsOf(imp)) : m.symbol = e.symbol
      BY <2>4 DEF IsFunctionMap, Map
    <3>2. s = e.symbol /\ e \in ImportedFunctions /\ e \in EntriesIn(imp.file.kind)
      BY <1>5, <2>2, <3>1, ImportsAbove, SelectedIs
    <3>3. CASE s = call.name
      <4>1. e.orig = call.name /\ <<>> \in ToSet(ScopesOf(imp))
        BY <2>2, <3>2, <3>3 DEF Apart
      <4>2. QED
        BY <3>2, <4>1, SeesImport
    <3>4. CASE GuessOf(s, call)
      <4>1. Reserved(e.symbol)
        BY <1>2, <3>2, <3>4
      <4>2. imp.file.kind = "pc"
        <5>1. imp.file.kind # "ph"
          BY <2>2, <3>1, <4>1 DEF NothingReserved
        <5>2. QED
          BY <2>2, <5>1 DEF ImportForms, FileForms
      <4>3. e.pc = s
        BY <3>2, <4>2 DEF EntriesIn, PcFunctions
      <4>4. e.orig = call.name
        BY <1>2, <3>2, <3>4, <4>3 DEF Apart
      <4>5. <<>> \in ToSet(ScopesOf(imp))
        BY <2>2, <4>2, PcIsBare
      <4>6. QED
        BY <3>2, <4>4, <4>5, SeesImport
    <3>5. QED
      BY <3>3, <3>4
  <2>5. QED
    BY <2>1, <2>3, <2>4
<1>6. QED
  BY <1>1, <1>4, <1>5

\* A call of a function has no scope, or one of one name.
LEMMA ShortScope ==
  ASSUME NEW call, IsCall(call), Len(call.scope) < 2
  PROVE  /\ call.scope \in CallScopes
         /\ (call.scope = <<>> /\ Len(call.scope) = 0) \/ (call.scope # <<>> /\ Len(call.scope) = 1)
<1>1. PICK scope : scope = call.scope
  OBVIOUS
<1>2. scope \in Seq(Parts)
  BY <1>1 DEF IsCall
<1>3. PICK n \in Nat : n = Len(scope)
  BY <1>2
<1>4. n = 0 \/ n = 1
  <2>1. n < 2
    BY <1>1, <1>3
  <2>2. QED
    BY <2>1
<1>5. CASE n = 0
  <2>1. scope = <<>>
    BY <1>2, <1>3, <1>5, EmptySeq
  <2>2. QED
    BY <1>1, <1>3, <1>5, <2>1 DEF CallScopes
<1>6. CASE n = 1
  <2>1. PICK x : x = scope[1]
    OBVIOUS
  <2>2. x \in Parts
    <3>1. 1 \in 1 .. Len(scope)
      BY <1>3, <1>6
    <3>2. scope[1] \in Parts
      BY <1>2, <3>1
    <3>3. QED
      BY <2>1, <3>2
  <2>3. Len(scope) = 1
    BY <1>3, <1>6
  <2>4. scope = <<x>> /\ scope # <<>>
    BY <1>2, <2>1, <2>3
  <2>5. QED
    BY <1>1, <1>3, <1>6, <2>2, <2>3, <2>4 DEF CallScopes
<1>7. QED
  BY <1>4, <1>5, <1>6

\* What a call reaches is a function that it sees.
LEMMA ReachedIsSeen ==
  ASSUME InABody, DeclaredFrom, NothingReserved, NEW call, IsCall(call), Apart(call), Len(call.scope) < 2,
         NEW s, s = Resolve(call), s # Undefined
  PROVE  SeenBy(call, s)
<1>1. /\ call.scope \in CallScopes
      /\ (call.scope = <<>> /\ Len(call.scope) = 0) \/ (call.scope # <<>> /\ Len(call.scope) = 1)
  BY ShortScope
<1>2. CASE call.scope = <<>>
  <2>1. \A U, x : x \in Seq(U) => Key(call.scope, x) = x
    BY <1>2, BareKey
  <2>2. CASE s = Lookup(GuessedName(call))
    <3>1. \E U : GuessedName(call) \in Seq(U)
      BY GuessedIs
    <3>2. s = Lookup(Key(call.scope, GuessedName(call)))
      BY <2>1, <2>2, <3>1
    <3>3. QED
      BY <1>1, <3>2, SeesLookedUp
  <2>3. CASE s = Lookup(call.name)
    <3>1. call.name \in Seq(Parts)
      BY DEF IsCall, FullNames
    <3>2. s = Lookup(Key(call.scope, call.name))
      BY <2>1, <2>3, <3>1
    <3>3. QED
      BY <1>1, <3>2, SeesLookedUp
  <2>4. CASE s \in declared /\ (GuessOf(s, call) \/ s = call.name)
    BY <1>2, <2>4, SeesDeclared
  <2>5. QED
    BY <1>2, <2>2, <2>3, <2>4, Resolved
<1>3. CASE Len(call.scope) = 1
  <2>1. s = Lookup(Key(call.scope, GuessedName(call))) \/ s = Lookup(Key(call.scope, call.name))
    BY <1>3, Resolved
  <2>2. CASE s = Lookup(Key(call.scope, GuessedName(call)))
    BY <1>1, <2>2, SeesLookedUp
  <2>3. CASE s = Lookup(Key(call.scope, call.name))
    BY <1>1, <2>3, SeesLookedUp
  <2>4. QED
    BY <2>1, <2>2, <2>3
<1>4. QED
  BY <1>1, <1>2, <1>3

\* What is generated of the calls: one more at a time, as it is resolved then.
CalledAt(call, s) ==
  [at |-> at - 1, call |-> call, symbol |-> s, passed |-> Passed(call, s), params |-> types[s].params]

\* A step generates one call at most, resolved in the body it stands in.
LEMMA CalledGrows ==
  ASSUME Reading, IsSequence(called), [Next]_vars
  PROVE  /\ IsSequence(called)' /\ UNCHANGED program
         /\ \/ UNCHANGED called
            \/ \E call, s : /\ InABody /\ IsCall(call) /\ s = Resolve(call) /\ s # Undefined
                            /\ \E i \in 1 .. Len(program) : program[i].kind = "function" /\ call \in ToSet(CallsOf(program[i]))
                            /\ ToSet(called)' = ToSet(called) \cup {CalledAt(call, s)}
<1>1. CASE UNCHANGED <<program, called>>
  BY <1>1 DEF IsSequence
<1>2. CASE GenerateCall
  <2>1. PICK call, s : call = Head(todo) /\ s = Resolve(call)
    OBVIOUS
  <2>2. PICK new : new = CalledAt(call, s)
    OBVIOUS
  <2>3. /\ InABody /\ call.kind = "call" /\ UNCHANGED program
        /\ UNCHANGED called \/ (s # Undefined /\ called' = Append(called, new))
    BY <1>2, <2>1, <2>2 DEF GenerateCall, InABody, CalledAt
  <2>4. CASE s # Undefined /\ called' = Append(called, new)
    <3>1. /\ program \in Programs /\ at - 1 \in 1 .. Len(program) /\ program[at - 1].kind = "function"
          /\ call \in ToSet(program[at - 1].body)
      BY <2>1, <2>3, EmptySeq DEF InABody, Reading
    <3>2. IsFunction(program[at - 1])
      BY <3>1, DeclarationForms
    <3>3. IsCall(call)
      BY <2>3, <3>1, <3>2 DEF IsFunction, IsUsing
    <3>4. call \in ToSet(CallsOf(program[at - 1]))
      <4>1. PICK f, S : f = program[at - 1] /\ S = ToSet(f.body)
        OBVIOUS
      <4>2. PICK body \in Seq(S) : body = f.body
        BY <3>2, <4>1 DEF IsFunction, IsSequence
      <4>3. /\ OfKind(body, "call") \in Seq({x \in S : x.kind = "call"})
            /\ ToSet(OfKind(body, "call")) = {x \in ToSet(body) : x.kind = "call"}
        BY OfKindIs
      <4>4. call \in ToSet(OfKind(body, "call"))
        BY <2>3, <3>1, <4>1, <4>2, <4>3
      <4>5. QED
        BY <4>1, <4>2, <4>4 DEF CallsOf
    <3>5. PICK S : S = ToSet(called) \cup {new}
      OBVIOUS
    <3>6. called \in Seq(S)
      BY <3>5 DEF IsSequence
    <3>7. Append(called, new) \in Seq(S) /\ ToSet(Append(called, new)) = S
      BY <3>5, <3>6, ElementsOf
    <3>8. IsSequence(called') /\ ToSet(called') = S
      BY <2>4, <3>7 DEF IsSequence
    <3>9. ToSet(called)' = ToSet(called) \cup {CalledAt(call, s)}
      BY <2>2, <3>5, <3>8
    <3>10. QED
      BY <2>1, <2>3, <2>4, <3>1, <3>3, <3>4, <3>8, <3>9
  <2>5. QED
    BY <1>1, <2>3, <2>4
<1>3. QED
  BY <1>1, <1>2 DEF Next, vars, Declare, Check, NextPhase, GenerateImport, GenerateFunction, GenerateUsing

\* What is said of the names of a program stays so.
LEMMA NamesStay ==
  ASSUME UNCHANGED program
  PROVE  /\ SymbolsApart' <=> SymbolsApart
         /\ ImportedFunctions' = ImportedFunctions /\ ImportedMethods' = ImportedMethods
         /\ \A i, call : Visible(i, call)' = Visible(i, call)
<1>1. ImportedFunctions' = ImportedFunctions /\ ImportedMethods' = ImportedMethods
  BY DEF ImportedFunctions, ImportedMethods, ImportsTo
<1>2. \A call : Apart(call)' <=> Apart(call)
  BY <1>1 DEF Apart, ImportsTo
<1>3. NothingReserved' <=> NothingReserved
  BY <1>1 DEF NothingReserved, ImportsTo
<1>4. SymbolsApart' <=> SymbolsApart
  BY <1>2, <1>3 DEF SymbolsApart
<1>5. \A i, call : Visible(i, call)' = Visible(i, call)
  BY DEF Visible, ObjectName
<1>6. QED
  BY <1>1, <1>4, <1>5

\* What a call reaches was in sight of it, if no name is another's.  (codegen_import, codegen_call)
THEOREM OnlyVisibleReached == Spec => [](SymbolsApart => OnlyVisible)
<1> DEFINE Seen(c) == Len(c.call.scope) < 2 => \E f \in Visible(c.at, c.call) : f.symbol = c.symbol
           Inv == IsSequence(called) /\ (SymbolsApart => \A c \in ToSet(called) : Seen(c))
<1>1. Init => Inv
  <2>1. <<>> \in Seq(ToSet(<<>>)) /\ ToSet(<<>>) = {}
    BY ElementsOf
  <2>2. QED
    BY <2>1 DEF Init, IsSequence
<1>2. Inv /\ Reading /\ DeclaredFrom /\ [Next]_vars => Inv'
  <2> SUFFICES ASSUME Inv, Reading, DeclaredFrom, [Next]_vars PROVE Inv'
    OBVIOUS
  <2>1. /\ IsSequence(called)' /\ UNCHANGED program
        /\ \/ UNCHANGED called
           \/ \E call, s : /\ InABody /\ IsCall(call) /\ s = Resolve(call) /\ s # Undefined
                           /\ \E i \in 1 .. Len(program) : program[i].kind = "function" /\ call \in ToSet(CallsOf(program[i]))
                           /\ ToSet(called)' = ToSet(called) \cup {CalledAt(call, s)}
    BY CalledGrows
  <2>2. (SymbolsApart' <=> SymbolsApart) /\ \A c : Seen(c)' <=> Seen(c)
    BY <2>1, NamesStay
  <2> HIDE DEF Seen
  <2>3. CASE UNCHANGED called
    BY <2>1, <2>2, <2>3
  <2>4. ASSUME NEW call, NEW s, InABody, IsCall(call), s = Resolve(call), s # Undefined,
               \E i \in 1 .. Len(program) : program[i].kind = "function" /\ call \in ToSet(CallsOf(program[i])),
               ToSet(called)' = ToSet(called) \cup {CalledAt(call, s)}
        PROVE  Inv'
    <3>1. SymbolsApart => Seen(CalledAt(call, s))
      <4> SUFFICES ASSUME SymbolsApart, Len(call.scope) < 2
                   PROVE  SeenBy(call, s)
        BY DEF Seen, SeenBy, CalledAt
      <4>1. NothingReserved /\ Apart(call)
        BY <2>4 DEF SymbolsApart
      <4>2. QED
        BY <2>4, <4>1, ReachedIsSeen
    <3>2. QED
      BY <2>1, <2>2, <2>4, <3>1
  <2>5. QED
    BY <2>1, <2>3, <2>4
<1>3. Inv => (SymbolsApart => OnlyVisible)
  BY DEF OnlyVisible
<1>4. QED
  BY <1>1, <1>2, <1>3, ReadingIs, DeclaredFromIs, PTL DEF Spec

-----------------------------------------------------------------------------
(* The types of functions.                                                 *)

ClassNames == {c.name : c \in UNION {ToSet(ClassesOf(imp)) : imp \in ImportsTo(Len(program))}}

\* The parameters that a function has which an import brings in under a symbol.
ImportedParams(imp, s, ps) ==
  \/ \E e \in ToSet(FunctionsOf(imp)) : e.symbol = s /\ ps = e.params
  \/ \E c \in ToSet(ClassesOf(imp)) : \E m \in ToSet(c.methods) : m.symbol = s /\ ps = m.params

\* The parameters that a function of the symbol has among the first i declarations.
HasParams(s, ps, i) ==
  \/ \E j \in 1 .. i : program[j].kind = "function" /\ s = ObjectName(program[j]) /\ ps = program[j].params
  \/ \E imp \in ImportsTo(i) : ImportedParams(imp, s, ps)

IsTypeOf(type, ps) == \E known \in SUBSET ClassNames : type.params = MachineTypes(ps, known)

\* The type that each function of the LLVM module has, and each that an import named, is of a function
\* of that symbol.
TypesFrom ==
  /\ phase \in {"declare", "check"} => types = <<>> /\ classes = {}
  /\ phase = "generate" =>
       /\ classes \subseteq ClassNames
       /\ \A s \in declared : s \in DOMAIN types
       /\ \A m \in ToSet(maps) : m.symbol \in DOMAIN types
       /\ \A s \in DOMAIN types : \E ps : HasParams(s, ps, at - 1) /\ IsTypeOf(types[s], ps)

\* What an import brings in has the type of a function that it brings in.
LEMMA ImportedTypesAre ==
  ASSUME NEW imp \in ImportForms, NEW known, NEW new, new = ImportedTypes(imp, known)
  PROVE  /\ \A s \in DOMAIN new : \E ps : ImportedParams(imp, s, ps) /\ new[s].params = MachineTypes(ps, known)
         /\ \A m \in ToSet(FunctionMaps(imp)) \cup ToSet(ClassMaps(imp)) : m.symbol \in DOMAIN new
<1> DEFINE cs == ClassesOf(imp)
           ms == [i \in DOMAIN cs |-> cs[i].methods]
           all == FunctionsOf(imp) \o FlattenSeq(ms)
<1>1. FunctionsOf(imp) \in Seq(EntryForms) /\ cs \in Seq(ClassEntries)
  <2>1. FunctionEntries \subseteq EntryForms
    BY MangledForms
  <2>2. QED
    BY <2>1, SelectedIs
<1>2. ms \in Seq(Seq(EntryForms))
  <2>1. \A i \in DOMAIN cs : cs[i] \in ClassEntries
    BY <1>1
  <2>2. \A c \in ClassEntries : c.methods \in Seq(EntryForms)
    BY DEF ClassEntries, MethodEntries
  <2>3. DOMAIN cs = 1 .. Len(cs) /\ Len(cs) \in Nat
    BY <1>1
  <2> HIDE DEF cs
  <2>4. QED
    BY <2>1, <2>2, <2>3
<1>3. DOMAIN ms = DOMAIN cs /\ \A i \in DOMAIN cs : ms[i] = cs[i].methods
  OBVIOUS
<1> HIDE DEF ms
<1>4. FlattenSeq(ms) \in Seq(EntryForms) /\ ToSet(FlattenSeq(ms)) = UNION {ToSet(ms[i]) : i \in DOMAIN ms}
  BY <1>2, FlattenIs
<1>5. all \in Seq(EntryForms) /\ ToSet(all) = ToSet(FunctionsOf(imp)) \cup ToSet(FlattenSeq(ms))
  BY <1>1, <1>4, ElementsOf
<1>6. \A e : e \in ToSet(all) <=> e \in ToSet(FunctionsOf(imp)) \/ \E c \in ToSet(cs) : e \in ToSet(c.methods)
  <2>1. ToSet(cs) = {cs[i] : i \in DOMAIN cs}
    BY DEF ToSet
  <2> HIDE DEF cs, all
  <2>2. QED
    BY <1>3, <1>4, <1>5, <2>1
<1>7. new = [s \in {all[i].symbol : i \in DOMAIN all} |->
               FunctionType(all[Max({i \in DOMAIN all : all[i].symbol = s})], known)]
  BY <1>2 DEF ImportedTypes, ms
<1> HIDE DEF all, cs
<1>8. DOMAIN all = 1 .. Len(all) /\ Len(all) \in Nat /\ ToSet(all) = {all[i] : i \in DOMAIN all}
  BY <1>5 DEF ToSet
<1>9. ASSUME NEW s \in DOMAIN new PROVE \E ps : ImportedParams(imp, s, ps) /\ new[s].params = MachineTypes(ps, known)
  <2> DEFINE found == {i \in DOMAIN all : all[i].symbol = s}
  <2>1. found \in SUBSET (1 .. Len(all)) /\ found # {}
    BY <1>7, <1>8
  <2>2. Max(found) \in found
    <3> HIDE DEF found
    <3> QED BY <1>8, <2>1, MaxIs
  <2>3. PICK e \in ToSet(all) : e = all[Max(found)] /\ e.symbol = s
    BY <1>8, <2>2
  <2>4. new[s] = FunctionType(e, known)
    BY <1>7, <2>3
  <2>5. new[s].params = MachineTypes(e.params, known)
    BY <2>4 DEF FunctionType
  <2>6. ImportedParams(imp, s, e.params)
    BY <1>6, <2>3 DEF ImportedParams, cs
  <2>7. QED
    BY <2>5, <2>6
<1>10. \A e \in ToSet(all) : e.symbol \in DOMAIN new
  BY <1>7, <1>8
<1>11. ASSUME NEW m \in ToSet(FunctionMaps(imp)) PROVE m.symbol \in DOMAIN new
  <2>1. PICK e \in ToSet(FunctionsOf(imp)) : m.symbol = e.symbol
    <3>1. IsFunctionMap(m, imp)
      BY FunctionMapsAre
    <3>2. QED
      BY <3>1 DEF IsFunctionMap, Map
  <2>2. QED
    BY <1>6, <1>10, <2>1
<1>12. ASSUME NEW m \in ToSet(ClassMaps(imp)) PROVE m.symbol \in DOMAIN new
  <2>1. PICK c \in ToSet(cs) : \E e \in ToSet(c.methods) : m.symbol = e.symbol
    <3>1. IsMethodMap(m, imp)
      BY ClassMapsAre
    <3>2. QED
      BY <3>1 DEF IsMethodMap, IsMethodMapOf, Map, cs
  <2>2. QED
    BY <1>6, <1>10, <2>1
<1>13. QED
  BY <1>9, <1>11, <1>12

\* What the code generator reads next in a body is a call or a using.
LEMMA HeadIsCall ==
  ASSUME InABody, Head(todo).kind = "call"
  PROVE  /\ IsCall(Head(todo)) /\ Head(todo) \in ToSet(program[at - 1].body)
         /\ program \in Programs /\ at - 1 \in 1 .. Len(program) /\ IsFunction(program[at - 1])
<1>1. /\ program \in Programs /\ at - 1 \in 1 .. Len(program) /\ program[at - 1].kind = "function"
      /\ todo # <<>> /\ todo \in Seq(ToSet(program[at - 1].body))
  BY DEF InABody, Reading
<1>2. Head(todo) \in ToSet(program[at - 1].body)
  BY <1>1, EmptySeq
<1>3. IsFunction(program[at - 1])
  BY <1>1, DeclarationForms
<1>4. QED
  BY <1>1, <1>2, <1>3 DEF IsFunction, IsUsing

\* What is above a declaration is above the next one, too.
LEMMA ParamsRemain ==
  ASSUME NEW i \in Nat, NEW s, NEW ps, HasParams(s, ps, i)
  PROVE  HasParams(s, ps, i + 1)
<1>1. 1 .. i \subseteq 1 .. i + 1
  OBVIOUS
<1>2. ImportsTo(i) \subseteq ImportsTo(i + 1)
  BY <1>1 DEF ImportsTo
<1>3. QED
  BY <1>1, <1>2 DEF HasParams

\* The functions of the module and of the imports have types of their own parameters.  (codegen_func_decl,
\* register_func_map)
THEOREM TypesFromIs == Spec => []TypesFrom
<1>1. Init => TypesFrom
  BY DEF Init, TypesFrom
<1>2. Reading /\ Reading' /\ DeclaredFrom /\ TypesFrom /\ [Next]_vars => TypesFrom'
  <2> SUFFICES ASSUME Reading, Reading', DeclaredFrom, TypesFrom, [Next]_vars PROVE TypesFrom'
    OBVIOUS
  <2>1. ASSUME UNCHANGED program
        PROVE  /\ ClassNames' = ClassNames /\ \A i : ImportsTo(i)' = ImportsTo(i)
               /\ \A type, ps : IsTypeOf(type, ps)' <=> IsTypeOf(type, ps)
               /\ \A s, ps, i : HasParams(s, ps, i)' <=> HasParams(s, ps, i)
    <3>1. ClassNames' = ClassNames /\ \A i : ImportsTo(i)' = ImportsTo(i)
      BY <2>1 DEF ClassNames, ImportsTo
    <3>2. \A type, ps : IsTypeOf(type, ps)' <=> IsTypeOf(type, ps)
      BY <3>1 DEF IsTypeOf
    <3>3. \A s, ps, i : HasParams(s, ps, i)' <=> HasParams(s, ps, i)
      BY <2>1, <3>1 DEF HasParams, ObjectName, ImportedParams
    <3>4. QED
      BY <3>1, <3>2, <3>3
  <2>2. CASE UNCHANGED vars
    <3>1. /\ phase' = phase /\ at' = at /\ types' = types /\ classes' = classes /\ declared' = declared
          /\ maps' = maps /\ UNCHANGED program
      BY <2>2 DEF vars
    <3>2. QED
      BY <2>1, <3>1 DEF TypesFrom
  <2>3. CASE Declare
    BY <2>3 DEF Declare, TypesFrom
  <2>4. CASE Check
    BY <2>4 DEF Check, TypesFrom
  <2>5. CASE NextPhase
    <3>1. CASE phase = "check"
      <4>1. maps = <<>> /\ declared = {} /\ types = <<>> /\ classes = {}
        BY <3>1 DEF Reading, DeclaredFrom, TypesFrom
      <4>2. UNCHANGED <<maps, declared, types, classes>>
        BY <2>5 DEF NextPhase
      <4>3. ToSet(maps) = {} /\ DOMAIN types = {}
        BY <4>1, ElementsOf
      <4>4. classes' \subseteq ClassNames'
        BY <4>1, <4>2
      <4>5. phase' = "generate"
        BY <2>5, <3>1 DEF NextPhase
      <4>6. QED
        BY <4>1, <4>2, <4>3, <4>4, <4>5 DEF TypesFrom
    <3>2. CASE phase = "declare"
      BY <2>5, <3>2 DEF NextPhase, TypesFrom
    <3>3. CASE phase = "generate"
      BY <2>5, <3>3 DEF NextPhase, TypesFrom
    <3>4. QED
      BY <2>5, <3>1, <3>2, <3>3 DEF NextPhase
  <2>6. CASE GenerateImport
    <3>1. PICK new : new = ImportedTypes(Decl, classes')
      OBVIOUS
    <3>2. /\ UNCHANGED <<program, phase, declared>> /\ phase = "generate" /\ at' = at + 1
          /\ classes' = classes \cup {ClassesOf(Decl)[i].name : i \in DOMAIN ClassesOf(Decl)}
          /\ types' = WithTypes(new)
          /\ maps' = maps \o FunctionMaps(Decl) \o ClassMaps(Decl)
          /\ at \in 1 .. Len(program) /\ program \in Programs /\ Decl.kind = "import"
      BY <2>6, <3>1, ProgramIs DEF GenerateImport, Reading
    <3>3. /\ Decl \in ImportForms /\ Decl \in ImportsTo(at) /\ Decl \in ImportsTo(Len(program))
      BY <3>2, DeclarationForms DEF Decl, ImportsTo
    <3>4. {ClassesOf(Decl)[i].name : i \in DOMAIN ClassesOf(Decl)} \subseteq ClassNames
      <4>1. {ClassesOf(Decl)[i].name : i \in DOMAIN ClassesOf(Decl)} = {c.name : c \in ToSet(ClassesOf(Decl))}
        BY DEF ToSet
      <4>2. QED
        BY <3>3, <4>1 DEF ClassNames
    <3>5. classes' \in SUBSET ClassNames
      BY <3>2, <3>4 DEF TypesFrom
    <3>6. /\ \A s \in DOMAIN new : \E ps : ImportedParams(Decl, s, ps) /\ new[s].params = MachineTypes(ps, classes')
          /\ \A m \in ToSet(FunctionMaps(Decl)) \cup ToSet(ClassMaps(Decl)) : m.symbol \in DOMAIN new
      BY <3>1, <3>3, ImportedTypesAre
    <3>7. DOMAIN types' = DOMAIN types \cup DOMAIN new /\ \A s \in DOMAIN types' : types'[s] = IF s \in DOMAIN new THEN new[s] ELSE types[s]
      BY <3>2 DEF WithTypes
    <3>8. ToSet(maps)' = ToSet(maps) \cup ToSet(FunctionMaps(Decl)) \cup ToSet(ClassMaps(Decl))
      <4>1. PICK a, b, c : a = maps /\ b = FunctionMaps(Decl) /\ c = ClassMaps(Decl)
        OBVIOUS
      <4>2. a \in Seq(MapForms) /\ b \in Seq(MapForms) /\ c \in Seq(MapForms)
        BY <3>2, <3>3, <4>1, FunctionMapsAre, ClassMapsAre DEF Reading
      <4>3. ToSet(a \o b) = ToSet(a) \cup ToSet(b) /\ a \o b \in Seq(MapForms)
        BY <4>2, ElementsOf
      <4>4. ToSet((a \o b) \o c) = ToSet(a \o b) \cup ToSet(c)
        <5>1. PICK d : d = a \o b
          OBVIOUS
        <5>2. d \in Seq(MapForms)
          BY <4>3, <5>1
        <5>3. ToSet(d \o c) = ToSet(d) \cup ToSet(c)
          BY <4>2, <5>2, ElementsOf
        <5>4. QED
          BY <5>1, <5>3
      <4>5. maps' = (a \o b) \o c
        BY <3>2, <4>1
      <4>6. QED
        BY <4>1, <4>3, <4>4, <4>5
    <3>9. ASSUME NEW s \in DOMAIN types' PROVE \E ps : HasParams(s, ps, at) /\ IsTypeOf(types'[s], ps)
      <4>1. CASE s \in DOMAIN new
        <5>1. PICK ps : ImportedParams(Decl, s, ps) /\ new[s].params = MachineTypes(ps, classes')
          BY <3>6, <4>1
        <5>2. IsTypeOf(types'[s], ps)
          BY <3>5, <3>7, <4>1, <5>1 DEF IsTypeOf
        <5>3. HasParams(s, ps, at)
          BY <3>3, <5>1 DEF HasParams
        <5>4. QED
          BY <5>2, <5>3
      <4>2. CASE s \notin DOMAIN new
        <5>1. s \in DOMAIN types /\ types'[s] = types[s]
          BY <3>7, <3>9, <4>2
        <5>2. PICK ps : HasParams(s, ps, at - 1) /\ IsTypeOf(types[s], ps)
          BY <3>2, <5>1 DEF TypesFrom
        <5>3. at - 1 \in Nat /\ (at - 1) + 1 = at
          BY <3>2
        <5>4. HasParams(s, ps, at)
          BY <5>2, <5>3, ParamsRemain
        <5>5. QED
          BY <5>1, <5>2, <5>4
      <4>3. QED
        BY <4>1, <4>2
    <3>10. (at + 1) - 1 = at
      BY <3>2
    <3>11. \A s \in DOMAIN types' : \E ps : HasParams(s, ps, at - 1)' /\ IsTypeOf(types[s], ps)'
      BY <2>1, <3>2, <3>9, <3>10
    <3>12. \A m \in ToSet(maps)' : m.symbol \in DOMAIN types'
      BY <3>2, <3>6, <3>7, <3>8 DEF TypesFrom
    <3>13. \A s \in declared' : s \in DOMAIN types'
      BY <3>2, <3>7 DEF TypesFrom
    <3>14. QED
      BY <2>1, <3>2, <3>5, <3>11, <3>12, <3>13 DEF TypesFrom
  <2>7. CASE GenerateFunction
    <3>1. PICK name, new : name = ObjectName(Decl) /\ new = [s \in {ObjectName(Decl)} |-> FunctionType(Decl, classes)]
      OBVIOUS
    <3>2. /\ UNCHANGED <<program, phase, maps, classes>> /\ phase = "generate" /\ at' = at + 1
          /\ declared' = declared \cup {name}
          /\ types' = IF name \in declared THEN types ELSE WithTypes(new)
          /\ at \in 1 .. Len(program) /\ program \in Programs /\ program[at].kind = "function"
      BY <2>7, <3>1, ProgramIs DEF GenerateFunction, Reading, Decl
    <3>3. HasParams(name, program[at].params, at)
      <4>1. at \in 1 .. at
        BY <3>2
      <4>2. QED
        BY <3>1, <3>2, <4>1 DEF HasParams, Decl
    <3>4. new[name].params = MachineTypes(program[at].params, classes) /\ DOMAIN new = {name}
      BY <3>1 DEF FunctionType, Decl
    <3>5. DOMAIN types' = DOMAIN types \cup {name} /\ \A s \in DOMAIN types' : types'[s] \in {types[s], new[name]} /\ (s # name => types'[s] = types[s])
                                                     /\ (types'[s] # types[s] => s = name)
      <4>1. CASE name \in declared
        BY <3>2, <4>1 DEF TypesFrom
      <4>2. CASE name \notin declared
        BY <3>2, <3>4, <4>2 DEF WithTypes
      <4>3. QED
        BY <4>1, <4>2
    <3>6. ASSUME NEW s \in DOMAIN types' PROVE \E ps : HasParams(s, ps, at) /\ IsTypeOf(types'[s], ps)
      <4>1. CASE s = name /\ types'[s] = new[name]
        <5>1. IsTypeOf(types'[s], program[at].params)
          BY <3>2, <3>4, <4>1 DEF IsTypeOf, TypesFrom
        <5>2. QED
          BY <3>3, <4>1, <5>1
      <4>2. CASE s \in DOMAIN types /\ types'[s] = types[s]
        <5>2. PICK ps : HasParams(s, ps, at - 1) /\ IsTypeOf(types[s], ps)
          BY <3>2, <4>2 DEF TypesFrom
        <5>3. at - 1 \in Nat /\ (at - 1) + 1 = at
          BY <3>2
        <5>4. HasParams(s, ps, at)
          BY <5>2, <5>3, ParamsRemain
        <5>5. QED
          BY <4>2, <5>2, <5>4
      <4>3. QED
        BY <3>2, <3>5, <4>1, <4>2 DEF WithTypes
    <3>7. (at + 1) - 1 = at
      BY <3>2
    <3>8. \A s \in DOMAIN types' : \E ps : HasParams(s, ps, at - 1)' /\ IsTypeOf(types[s], ps)'
      BY <2>1, <3>2, <3>6, <3>7
    <3>9. (\A m \in ToSet(maps) : m.symbol \in DOMAIN types') /\ \A s \in declared' : s \in DOMAIN types'
      BY <3>2, <3>5 DEF TypesFrom
    <3>10. QED
      BY <2>1, <3>2, <3>8, <3>9 DEF TypesFrom
  <2>8. CASE GenerateCall
    <3>1. /\ UNCHANGED <<program, maps, at, types, classes>> /\ phase = "generate"
          /\ phase' = "failed" \/ (phase' = phase /\ \A s \in declared' : s \in declared \/ \E m \in ToSet(maps) : m.symbol = s)
      <4>1. PICK s : s = Resolve(Head(todo))
        OBVIOUS
      <4>2. /\ UNCHANGED <<program, maps, at, types, classes>> /\ InABody
            /\ phase' = "failed" \/ (phase' = phase /\ s # Undefined /\ declared' = declared \cup {s})
        BY <2>8, <4>1 DEF GenerateCall, InABody
      <4>3. CASE s # Undefined
        <5>1. s \in declared \/ \E key : s = Lookup(key)
          BY <2>8, <4>1, <4>2, <4>3, HeadIsCall, Resolved DEF GenerateCall
        <5>2. s \in declared \/ \E m \in ToSet(maps) : m.symbol = s
          BY <4>2, <4>3, <5>1, LookupIsSymbol
        <5>3. QED
          BY <4>2, <5>2 DEF InABody
      <4>4. QED
        BY <4>2, <4>3 DEF InABody
    <3>2. QED
      BY <2>1, <3>1 DEF TypesFrom
  <2>9. CASE GenerateUsing
    <3>1. PICK a, b : /\ InABody /\ UNCHANGED <<program, maps, at, phase, types, classes>> /\ declared' = declared \cup ({a, b} \ {Undefined})
                      /\ \E class : a = MethodOf(class, <<"enter">>) /\ b = MethodOf(class, <<"exit">>)
      BY <2>9 DEF GenerateUsing, InABody
    <3>2. \A s \in {a, b} \ {Undefined} : \E m \in ToSet(maps) : m.symbol = s
      BY <3>1, LookupIsSymbol DEF MethodOf
    <3>3. \A s \in declared' : s \in declared \/ \E m \in ToSet(maps) : m.symbol = s
      BY <3>1, <3>2
    <3>4. QED
      BY <2>1, <3>1, <3>3 DEF TypesFrom, InABody
  <2>10. QED
    BY <2>2, <2>3, <2>4, <2>5, <2>6, <2>7, <2>8, <2>9 DEF Next
<1>3. QED
  BY <1>1, <1>2, ReadingIs, DeclaredFromIs, PTL DEF Spec

-----------------------------------------------------------------------------
(* What the letters of a name say of types.                                *)

TypeNames == DOMAIN LetterOf \cup Pointers

\* The one letter of a type that has one.
LetterFor(t) == IF t \in Pointers THEN "p" ELSE LetterOf[t]

SameLetter(t, u) == t \in TypeNames /\ u \in TypeNames /\ LetterFor(t) = LetterFor(u)

\* Types of one letter are one for LLVM.
LEMMA LettersDecide ==
  ASSUME NEW A, A \cap TypeNames = {}, NEW B, B \cap TypeNames = {}, NEW t, NEW u, SameLetter(t, u)
  PROVE  MachineType(t, A) = MachineType(u, B)
<1>1. t \in TypeNames /\ u \in TypeNames /\ LetterFor(t) = LetterFor(u) /\ t \notin A /\ u \notin B
  BY DEF SameLetter
<1>2. DOMAIN MachineOf = DOMAIN LetterOf \ {"string"}
  BY DEF MachineOf, LetterOf
<1>3. \A x \in DOMAIN LetterOf : LetterOf[x] # "p" /\ (LetterOf[x] = "s" => x = "string")
  BY DEF LetterOf
<1>4. \A x, y \in DOMAIN MachineOf : LetterOf[x] = LetterOf[y] => MachineOf[x] = MachineOf[y]
  BY DEF LetterOf, MachineOf
<1>5. \A x \in Pointers : x \notin DOMAIN LetterOf
  BY DEF Pointers, LetterOf
<1>6. LetterOf["string"] = "s"
  BY DEF LetterOf
<1>7. CASE t \in Pointers \/ t = "string"
  <2>1. u \in Pointers \/ u = "string"
    BY <1>1, <1>3, <1>5, <1>6, <1>7 DEF LetterFor, TypeNames
  <2>2. MachineType(t, A) = "pointer" /\ MachineType(u, B) = "pointer"
    BY <1>1, <1>2, <1>5, <1>7, <2>1 DEF MachineType
  <2>3. QED
    BY <2>2
<1>8. CASE t \in DOMAIN MachineOf
  <2>1. u \in DOMAIN MachineOf /\ LetterOf[t] = LetterOf[u]
    BY <1>1, <1>2, <1>3, <1>5, <1>6, <1>8 DEF LetterFor, TypeNames
  <2>2. MachineType(t, A) = MachineOf[t]
    BY <1>1, <1>8 DEF MachineType
  <2>3. MachineType(u, B) = MachineOf[u]
    BY <1>1, <2>1 DEF MachineType
  <2>4. QED
    BY <1>4, <1>8, <2>1, <2>2, <2>3
<1>9. QED
  BY <1>1, <1>2, <1>7, <1>8 DEF TypeNames

IsLettersOf(l, t) == l = Letters(t) \/ l = PcLetters(t)

\* The letters of a parameter: the one of its type, or some that no argument has, or p and another.
LEMMA LettersOfOne ==
  ASSUME NEW t \in KnownTypes, NEW l, IsLettersOf(l, t)
  PROVE  /\ l \in Seq(Pieces)
         /\ \/ t \in TypeNames /\ l = <<LetterFor(t)>>
            \/ "i" \in ToSet(l) \/ "u" \in ToSet(l)
            \/ t \notin TypeNames /\ "p" \in ToSet(l)
<1>1. l \in Seq(Pieces)
  BY LettersArePieces DEF IsLettersOf
<1>2. t \in TypeNames \cup {"File", "Thread"} /\ "i64" \in TypeNames /\ "u64" \in TypeNames
      /\ "File" \notin TypeNames /\ "Thread" \notin TypeNames
  BY DEF KnownTypes, TypeNames, InitialOf, LetterOf, Pointers
<1>3. \A a, b : ToSet(<<a>>) = {a} /\ ToSet(<<a, b>>) = {a, b}
  <2>1. ASSUME NEW a, NEW b PROVE ToSet(<<a>>) = {a} /\ ToSet(<<a, b>>) = {a, b}
    <3>1. a \in {a, b} /\ b \in {a, b} /\ a \in {a}
      OBVIOUS
    <3>2. QED
      BY <3>1, One, TwoElements
  <2>2. QED
    BY <2>1
<1>4. \A x \in Pointers : x \notin DOMAIN LetterOf
  BY DEF Pointers, LetterOf
<1>5. CASE l = Letters(t)
  <2>1. CASE t \in TypeNames
    BY <1>1, <1>4, <1>5, <2>1 DEF Letters, LetterFor, TypeNames
  <2>2. CASE t \notin TypeNames
    <3>1. l = <<"p", InitialOf[t]>>
      BY <1>5, <2>2 DEF Letters, TypeNames
    <3>2. QED
      BY <1>1, <1>3, <2>2, <3>1
  <2>3. QED
    BY <2>1, <2>2
<1>6. CASE l = PcLetters(t)
  <2>1. CASE t \in {"int", "long"}
    <3>1. l = <<"i">>
      BY <1>6, <2>1 DEF PcLetters
    <3>2. QED
      BY <1>1, <1>3, <3>1
  <2>2. CASE t = "i64"
    <3>1. l = <<"p", "i">>
      BY <1>6, <2>2 DEF PcLetters, InitialOf
    <3>2. QED
      BY <1>1, <1>3, <3>1
  <2>3. CASE t = "u64"
    <3>1. l = <<"p", "u">>
      BY <1>6, <2>3 DEF PcLetters, InitialOf
    <3>2. QED
      BY <1>1, <1>3, <3>1
  <2>4. CASE t \notin {"int", "long", "i64", "u64"}
    BY <1>5, <1>6, <2>4 DEF PcLetters
  <2>5. QED
    BY <2>1, <2>2, <2>3, <2>4
<1>7. QED
  BY <1>5, <1>6 DEF IsLettersOf

\* What FlattenSeq makes of sequences of one.
LEMMA FlattenSingles ==
  ASSUME NEW S, NEW xs \in Seq(S), NEW ss, ss \in Seq(Seq(S)), Len(ss) = Len(xs), \A i \in 1 .. Len(xs) : ss[i] = <<xs[i]>>
  PROVE  FlattenSeq(ss) = xs
<1>1. PICK n \in Nat : n = Len(xs)
  OBVIOUS
<1>2. CASE n = 0
  <2>1. xs = <<>> /\ ss = <<>>
    BY <1>1, <1>2, EmptySeq
  <2>2. QED
    BY <2>1, FlattenFew
<1>3. CASE n # 0
  <2>1. PICK f : Flattens(f, ss) /\ FlattenSeq(ss) = f[Len(ss)]
    BY <1>1, <1>3, FlattenSteps
  <2> DEFINE Is(s, k) == s \in Seq(S) /\ Len(s) = k /\ \A i \in 1 .. k : s[i] = xs[i]
             Done == {k \in 0 .. n : k = 0 \/ Is(f[k], k)}
  <2>2. ASSUME NEW m \in 0 .. n, m < n, m \in Done PROVE m + 1 \in Done
    <3>1. PICK x : x = xs[m + 1]
      OBVIOUS
    <3>2. m + 1 \in 1 .. n /\ x \in S
      BY <1>1, <2>2, <3>1
    <3>3. f[m + 1] = IF m + 1 = 1 THEN ss[m + 1] ELSE f[(m + 1) - 1] \o ss[m + 1]
      BY <1>1, <2>1, <3>2 DEF Flattens
    <3>4. ss[m + 1] = <<x>>
      BY <1>1, <3>1, <3>2
    <3>5. Is(f[m + 1], m + 1)
      <4>1. CASE m = 0
        <5>1. f[m + 1] = <<x>>
          BY <3>3, <3>4, <4>1
        <5>2. <<x>> \in Seq(S) /\ Len(<<x>>) = 1 /\ <<x>>[1] = x
          BY <3>2
        <5>3. \A i \in 1 .. 1 : <<x>>[i] = xs[i]
          BY <3>1, <4>1
        <5>4. QED
          BY <4>1, <5>1, <5>2, <5>3
      <4>2. CASE m # 0
        <5>1. PICK g : g = f[m]
          OBVIOUS
        <5>2. g \in Seq(S) /\ Len(g) = m /\ \A i \in 1 .. m : g[i] = xs[i]
          BY <2>2, <4>2, <5>1
        <5>3. (m + 1) - 1 = m /\ m + 1 # 1
          BY <4>2
        <5>4. f[m + 1] = g \o <<x>>
          BY <3>3, <3>4, <5>1, <5>3
        <5>5. g \o <<x>> \in Seq(S) /\ Len(g \o <<x>>) = m + 1
          BY <3>2, <5>2
        <5>6. \A i \in 1 .. m + 1 : (g \o <<x>>)[i] = xs[i]
          <6>1. ASSUME NEW i \in 1 .. m PROVE (g \o <<x>>)[i] = xs[i]
            BY <3>2, <5>2, <6>1
          <6>2. (g \o <<x>>)[m + 1] = x
            BY <3>2, <5>2
          <6>3. \A i \in 1 .. m + 1 : i \in 1 .. m \/ i = m + 1
            BY <1>1, <2>2
          <6>4. QED
            BY <3>1, <6>1, <6>2, <6>3
        <5>7. QED
          BY <5>4, <5>5, <5>6
      <4>3. QED
        BY <4>1, <4>2
    <3>6. QED
      BY <3>2, <3>5
  <2>3. 0 \in Done
    BY <1>1
  <2>4. 0 .. n \subseteq Done
    <3> HIDE DEF Done
    <3> QED BY <2>2, <2>3, Forwards
  <2>5. n \in 0 .. n
    OBVIOUS
  <2>6. Is(f[n], n)
    BY <1>3, <2>4, <2>5
  <2>7. PICK g : g = f[n]
    OBVIOUS
  <2>8. g \in Seq(S) /\ Len(g) = n /\ \A i \in 1 .. n : g[i] = xs[i]
    BY <2>6, <2>7
  <2>9. g = xs
    BY <1>1, <2>8
  <2>10. QED
    BY <1>1, <2>1, <2>7, <2>9
<1>4. QED
  BY <1>2, <1>3

\* Equal names that begin alike end alike.
LEMMA SameEnds ==
  ASSUME NEW S, NEW x \in S, NEW n \in Seq(S), NEW a \in Seq(S), NEW b \in Seq(S),
         <<x>> \o n \o a = <<x>> \o n \o b
  PROVE  a = b
<1>1. PICK y \in Seq(S) : y = <<x>> \o n
  <2>1. PICK z : z = <<x>>
    OBVIOUS
  <2>2. z \in Seq(S)
    BY <2>1
  <2>3. z \o n \in Seq(S)
    BY <2>2, Joined
  <2>4. QED
    BY <2>1, <2>3
<1>2. y \o a = y \o b
  BY <1>1
<1>3. /\ Len(y \o a) = Len(y) + Len(a) /\ \A i \in 1 .. Len(a) : (y \o a)[i + Len(y)] = a[i]
      /\ Len(y \o b) = Len(y) + Len(b) /\ \A i \in 1 .. Len(b) : (y \o b)[i + Len(y)] = b[i]
  BY <1>1, Joined
<1>4. PICK k, l, m \in Nat : k = Len(y) /\ l = Len(a) /\ m = Len(b)
  BY <1>1
<1>5. k + l = k + m
  BY <1>2, <1>3, <1>4
<1>6. l = m
  BY <1>4, <1>5
<1>7. \A i \in 1 .. l : a[i] = b[i]
  BY <1>2, <1>3, <1>4, <1>6
<1>8. QED
  BY <1>4, <1>6, <1>7

\* The letters that the compiler has for arguments whose types are plain.
LEMMA PlainGuess ==
  ASSUME NEW call, IsCall(call), Plain(call), classes \cap TypeNames = {}, NEW i \in DOMAIN call.args
  PROVE  /\ call.args[i].type \in TypeNames
         /\ Guess(call.args[i]) = LetterFor(call.args[i].type)
         /\ MachineOfArg(call.args[i]) = MachineType(call.args[i].type, classes)
         /\ call.args[i].form # "function"
<1>1. PICK arg : arg = call.args[i]
  OBVIOUS
<1>2. \/ arg.form = "literal" /\ arg.type \in {"int", "float", "string"}
      \/ arg.form = "variable" /\ arg.type \in TypeNames
  BY <1>1 DEF Plain, TypeNames
<1>3. {"int", "float", "string"} \subseteq TypeNames /\ \A x \in Pointers : x \notin DOMAIN LetterOf /\ x \notin DOMAIN MachineOf
  BY DEF TypeNames, LetterOf, Pointers, MachineOf
<1>4. {"int", "float", "string"} \cap Pointers = {}
  BY DEF Pointers
<1>5. CASE arg.form = "literal"
  <2>1. arg.type \in {"int", "float", "string"}
    BY <1>2, <1>5
  <2>2. Guess(arg) = LetterOf[arg.type]
    BY <1>5, <2>1 DEF Guess
  <2>3. MachineOfArg(arg) = MachineType(arg.type, classes)
    BY <1>5 DEF MachineOfArg
  <2>4. QED
    BY <1>1, <1>3, <1>4, <1>5, <2>1, <2>2, <2>3 DEF LetterFor
<1>6. CASE arg.form = "variable"
  <2>1. arg.type \in TypeNames
    BY <1>2, <1>6
  <2>2. Guess(arg) = VariableLetter(arg.type)
    BY <1>6 DEF Guess
  <2>3. VariableLetter(arg.type) = LetterFor(arg.type)
    <3>1. CASE arg.type \in Pointers
      <4>1. arg.type \notin DOMAIN LetterOf /\ arg.type \notin DOMAIN MachineOf /\ arg.type \notin classes
        BY <1>3, <2>1, <3>1
      <4>2. MachineType(arg.type, classes) = "pointer"
        BY <4>1 DEF MachineType
      <4>3. QED
        BY <3>1, <4>1, <4>2 DEF VariableLetter, LetterFor
    <3>2. CASE arg.type \notin Pointers
      <4>1. arg.type \in DOMAIN LetterOf
        BY <2>1, <3>2 DEF TypeNames
      <4>2. LetterFor(arg.type) = LetterOf[arg.type]
        BY <3>2 DEF LetterFor
      <4>3. QED
        BY <4>1, <4>2 DEF VariableLetter
    <3>3. QED
      BY <3>1, <3>2
  <2>4. MachineOfArg(arg) = MachineType(arg.type, classes)
    BY <1>6 DEF MachineOfArg
  <2>5. QED
    BY <1>1, <1>6, <2>1, <2>2, <2>3, <2>4
<1>7. QED
  BY <1>2, <1>5, <1>6

\* Of what is written for pointers and for nothing else: a type of two letters, the first of which is p, is
\* not told from a pointer and another type.
ClearFor(us, ts) == (\A i \in DOMAIN us : us[i] \notin Pointers) \/ ToSet(ts) \subseteq TypeNames

\* If the letters of parameters are those of arguments, the types have them one by one.
LEMMA LettersFit ==
  ASSUME NEW us, us \in Seq(TypeNames), NEW ts \in Seq(KnownTypes), ClearFor(us, ts),
         NEW ss, ss \in Seq(Seq(Pieces)), Len(ss) = Len(ts), \A i \in 1 .. Len(ts) : IsLettersOf(ss[i], ts[i]),
         NEW guess, guess = FlattenSeq(ss), DOMAIN guess = DOMAIN us, \A i \in DOMAIN us : guess[i] = LetterFor(us[i])
  PROVE  Len(ts) = Len(us) /\ \A i \in 1 .. Len(us) : SameLetter(us[i], ts[i])
<1>1. guess \in Seq(Pieces) /\ ToSet(guess) = UNION {ToSet(ss[i]) : i \in DOMAIN ss}
  BY FlattenIs
<1>2. ToSet(guess) = {LetterFor(us[i]) : i \in DOMAIN us}
  BY DEF ToSet
<1>3. "i" \notin ToSet(guess) /\ "u" \notin ToSet(guess)
  <2>1. \A t \in TypeNames : LetterFor(t) \notin {"i", "u"}
    BY DEF LetterFor, TypeNames, LetterOf, Pointers
  <2>2. \A i \in DOMAIN us : us[i] \in TypeNames
    OBVIOUS
  <2>3. QED
    BY <1>2, <2>1, <2>2
<1>4. (\A i \in DOMAIN us : us[i] \notin Pointers) => "p" \notin ToSet(guess)
  <2>1. \A t \in TypeNames \ Pointers : LetterFor(t) # "p"
    BY DEF LetterFor, TypeNames, LetterOf
  <2>2. \A i \in DOMAIN us : us[i] \in TypeNames
    OBVIOUS
  <2>3. QED
    BY <1>2, <2>1, <2>2
<1>5. PICK n \in Nat : n = Len(ts)
  OBVIOUS
<1>6. \A i \in 1 .. n : ts[i] \in TypeNames /\ ss[i] = <<LetterFor(ts[i])>>
  <2> SUFFICES ASSUME NEW i \in 1 .. n PROVE ts[i] \in TypeNames /\ ss[i] = <<LetterFor(ts[i])>>
    OBVIOUS
  <2>1. PICK t, l : t = ts[i] /\ l = ss[i]
    OBVIOUS
  <2>2. t \in KnownTypes /\ IsLettersOf(l, t)
    BY <1>5, <2>1
  <2>3. ToSet(l) \subseteq ToSet(guess)
    <3>1. i \in DOMAIN ss
      BY <1>5
    <3>2. QED
      BY <1>1, <2>1, <3>1
  <2>4. t \in ToSet(ts)
    <3>1. i \in DOMAIN ts
      BY <1>5
    <3>2. QED
      BY <2>1, <3>1 DEF ToSet
  <2>5. t \in TypeNames \/ "p" \notin ToSet(l)
    BY <1>4, <2>3, <2>4 DEF ClearFor
  <2>6. t \in TypeNames /\ l = <<LetterFor(t)>>
    BY <1>3, <2>2, <2>3, <2>5, LettersOfOne
  <2>7. QED
    BY <2>1, <2>6
<1>7. PICK xs : xs = [i \in 1 .. n |-> LetterFor(ts[i])]
  OBVIOUS
<1>8. xs \in Seq(Pieces) /\ Len(xs) = n /\ \A i \in 1 .. n : xs[i] = LetterFor(ts[i])
  <2>1. \A i \in 1 .. n : LetterFor(ts[i]) \in Pieces
    <3> SUFFICES ASSUME NEW i \in 1 .. n PROVE LetterFor(ts[i]) \in Pieces
      OBVIOUS
    <3>1. PICK l : l = ss[i]
      OBVIOUS
    <3>2. l \in Seq(Pieces) /\ l = <<LetterFor(ts[i])>>
      BY <1>5, <1>6, <3>1
    <3>3. l[1] \in Pieces /\ l[1] = LetterFor(ts[i])
      BY <3>2
    <3>4. QED
      BY <3>3
  <2>2. xs \in [1 .. n -> Pieces] /\ \A i \in 1 .. n : xs[i] = LetterFor(ts[i])
    BY <1>7, <2>1
  <2>3. xs \in Seq(Pieces) /\ Len(xs) = n
    BY <2>2, FunctionIsSequence
  <2>4. QED
    BY <2>2, <2>3
<1>9. guess = xs
  <2>1. \A i \in 1 .. Len(xs) : ss[i] = <<xs[i]>>
    BY <1>6, <1>8
  <2>2. FlattenSeq(ss) = xs
    BY <1>5, <1>8, <2>1, FlattenSingles
  <2>3. QED
    BY <2>2
<1>10. PICK m \in Nat : m = Len(us) /\ DOMAIN us = 1 .. m
  OBVIOUS
<1>11. m = n
  <2>1. DOMAIN xs = 1 .. n
    BY <1>7
  <2>2. 1 .. m = 1 .. n
    BY <1>9, <1>10, <2>1
  <2>3. QED
    BY <2>2
<1>12. ASSUME NEW i \in 1 .. n PROVE SameLetter(us[i], ts[i])
  <2>1. ts[i] \in TypeNames /\ xs[i] = LetterFor(ts[i])
    BY <1>6, <1>8
  <2>2. i \in DOMAIN us
    BY <1>10, <1>11
  <2>3. us[i] \in TypeNames /\ guess[i] = LetterFor(us[i])
    BY <2>2
  <2>4. QED
    BY <1>9, <2>1, <2>3 DEF SameLetter
<1>13. QED
  BY <1>5, <1>10, <1>11, <1>12

\* The types of a call's arguments.
ArgTypes(call) == [i \in DOMAIN call.args |-> call.args[i].type]

\* If the compiler's guess is the name of a function of some parameters, the arguments have their types.
LEMMA GuessDecides ==
  ASSUME NEW call, IsCall(call), Plain(call), classes \cap TypeNames = {},
         NEW ps \in Seq(KnownTypes), ClearFor(ArgTypes(call), ps),
         NEW l, l = LettersOf(ps, Letters) \/ l = LettersOf(ps, PcLetters), GuessedName(call) = Mangled(call.name, l),
         NEW known, known \cap TypeNames = {}
  PROVE  MachineTypes(ps, known) = MachineArgs(call)
<1>1. PICK n \in Nat : n = Len(call.args) /\ DOMAIN call.args = 1 .. n
  <2>1. call.args \in Seq(ToSet(call.args))
    BY DEF IsCall, IsSequence
  <2>2. QED
    BY <2>1
<1>2. PICK us : us = ArgTypes(call)
  OBVIOUS
<1>3. PICK guess : guess = [i \in DOMAIN call.args |-> Guess(call.args[i])]
  OBVIOUS
<1>4. \A i \in 1 .. n : /\ us[i] \in TypeNames /\ guess[i] = LetterFor(us[i])
                        /\ MachineArgs(call)[i] = MachineType(us[i], classes)
  <2> SUFFICES ASSUME NEW i \in 1 .. n
               PROVE  /\ us[i] \in TypeNames /\ guess[i] = LetterFor(us[i])
                      /\ MachineArgs(call)[i] = MachineType(us[i], classes)
    OBVIOUS
  <2>1. i \in DOMAIN call.args
    BY <1>1
  <2>2. us[i] = call.args[i].type /\ guess[i] = Guess(call.args[i]) /\ MachineArgs(call)[i] = MachineOfArg(call.args[i])
    BY <1>2, <1>3, <2>1 DEF ArgTypes, MachineArgs
  <2>3. /\ call.args[i].type \in TypeNames
        /\ Guess(call.args[i]) = LetterFor(call.args[i].type)
        /\ MachineOfArg(call.args[i]) = MachineType(call.args[i].type, classes)
    BY <2>1, PlainGuess
  <2>4. QED
    BY <2>2, <2>3
<1>5. DOMAIN us = 1 .. n /\ DOMAIN guess = 1 .. n
  BY <1>1, <1>2, <1>3 DEF ArgTypes
<1>6. us \in Seq(TypeNames) /\ Len(us) = n
  <2>1. us = [i \in 1 .. n |-> us[i]]
    BY <1>1, <1>2 DEF ArgTypes
  <2>2. QED
    BY <1>4, <2>1
<1>7. PICK S : S = Pieces \cup {"_pC"} \cup {guess[i] : i \in 1 .. n}
  OBVIOUS
<1>8. guess \in Seq(S)
  <2>1. guess = [i \in 1 .. n |-> guess[i]]
    BY <1>1, <1>3
  <2>2. QED
    BY <1>7, <2>1
<1>9. l \in Seq(S) /\ call.name \in Seq(S) /\ "_pC" \in S
  <2>1. l \in Seq(Pieces)
    BY LettersOfArePieces
  <2>2. call.name \in Seq(Pieces)
    BY NamesArePieces DEF IsCall
  <2>3. Pieces \subseteq S
    BY <1>7
  <2>4. QED
    BY <1>7, <2>1, <2>2, <2>3
<1>10. guess = l
  <2>1. <<"_pC">> \o call.name \o guess = <<"_pC">> \o call.name \o l
    BY <1>3 DEF GuessedName, Mangled
  <2>2. PICK name \in Seq(S) : name = call.name
    BY <1>9
  <2>3. QED
    BY <1>8, <1>9, <2>1, <2>2, SameEnds
<1>11. PICK m \in Nat : m = Len(ps) /\ DOMAIN ps = 1 .. m
  OBVIOUS
<1>12. PICK ss : /\ ss \in Seq(Seq(Pieces)) /\ Len(ss) = m /\ l = FlattenSeq(ss)
                 /\ \A i \in 1 .. m : IsLettersOf(ss[i], ps[i])
  <2>1. CASE l = LettersOf(ps, Letters)
    <3>1. PICK ss : ss = [i \in 1 .. m |-> Letters(ps[i])]
      OBVIOUS
    <3>2. \A i \in 1 .. m : Letters(ps[i]) \in Seq(Pieces)
      BY <1>11, LettersArePieces
    <3>3. ss \in Seq(Seq(Pieces)) /\ Len(ss) = m
      BY <3>1, <3>2
    <3>4. l = FlattenSeq(ss)
      BY <1>11, <2>1, <3>1 DEF LettersOf
    <3>5. \A i \in 1 .. m : ss[i] = Letters(ps[i])
      BY <3>1
    <3>6. \A i \in 1 .. m : IsLettersOf(ss[i], ps[i])
      BY <3>5 DEF IsLettersOf
    <3>7. QED
      BY <3>3, <3>4, <3>6
  <2>2. CASE l = LettersOf(ps, PcLetters)
    <3>1. PICK ss : ss = [i \in 1 .. m |-> PcLetters(ps[i])]
      OBVIOUS
    <3>2. \A i \in 1 .. m : PcLetters(ps[i]) \in Seq(Pieces)
      BY <1>11, LettersArePieces
    <3>3. ss \in Seq(Seq(Pieces)) /\ Len(ss) = m
      BY <3>1, <3>2
    <3>4. l = FlattenSeq(ss)
      BY <1>11, <2>2, <3>1 DEF LettersOf
    <3>5. \A i \in 1 .. m : ss[i] = PcLetters(ps[i])
      BY <3>1
    <3>6. \A i \in 1 .. m : IsLettersOf(ss[i], ps[i])
      BY <3>5 DEF IsLettersOf
    <3>7. QED
      BY <3>3, <3>4, <3>6
  <2>3. QED
    BY <2>1, <2>2
<1>13. m = n /\ \A i \in 1 .. n : SameLetter(us[i], ps[i])
  <2>1. ClearFor(us, ps)
    BY <1>2
  <2>2. guess = FlattenSeq(ss) /\ DOMAIN guess = DOMAIN us /\ \A i \in DOMAIN us : guess[i] = LetterFor(us[i])
    BY <1>4, <1>5, <1>10, <1>12
  <2>3. Len(ps) = Len(us) /\ \A i \in 1 .. Len(us) : SameLetter(us[i], ps[i])
    BY <1>6, <1>11, <1>12, <2>1, <2>2, LettersFit
  <2>4. QED
    BY <1>6, <1>11, <2>3
<1>14. \A i \in 1 .. n : MachineType(us[i], classes) = MachineType(ps[i], known)
  BY <1>13, LettersDecide
<1>15. MachineTypes(ps, known) = [i \in 1 .. n |-> MachineType(ps[i], known)]
  BY <1>11, <1>13 DEF MachineTypes
<1>16. MachineArgs(call) = [i \in 1 .. n |-> MachineArgs(call)[i]]
  BY <1>1 DEF MachineArgs
<1>17. QED
  BY <1>4, <1>14, <1>15, <1>16

\* What is passed is what the function takes if each argument has the parameter's type or a narrower one.
LEMMA PassedFits ==
  ASSUME NEW call, IsCall(call), Plain(call), classes \cap TypeNames = {}, Len(call.scope) < 2,
         NEW s, NEW ps \in Seq(KnownTypes), NEW known, types[s].params = MachineTypes(ps, known),
         MachineArgs(call) = types[s].params \/ Score(call, s) >= 0
  PROVE  Passed(call, s) = types[s].params
<1>1. PICK n \in Nat : n = Len(call.args) /\ DOMAIN call.args = 1 .. n
  <2>1. call.args \in Seq(ToSet(call.args))
    BY DEF IsCall, IsSequence
  <2>2. QED
    BY <2>1
<1>2. PICK m \in Nat : m = Len(ps) /\ DOMAIN ps = 1 .. m
  OBVIOUS
<1>3. PICK actual, params : actual = MachineArgs(call) /\ params = types[s].params
  OBVIOUS
<1>4. actual = [i \in 1 .. n |-> MachineOfArg(call.args[i])]
  BY <1>1, <1>3 DEF MachineArgs
<1>5. params = [i \in 1 .. m |-> MachineType(ps[i], known)]
  BY <1>2, <1>3 DEF MachineTypes
<1>6. Len(actual) = n /\ DOMAIN actual = 1 .. n /\ Len(params) = m /\ DOMAIN params = 1 .. m
  <2>1. PICK T : T = {MachineOfArg(call.args[i]) : i \in 1 .. n} \cup {MachineType(ps[i], known) : i \in 1 .. m}
    OBVIOUS
  <2>2. \A i \in 1 .. n : MachineOfArg(call.args[i]) \in T
    BY <2>1
  <2>3. \A i \in 1 .. m : MachineType(ps[i], known) \in T
    BY <2>1
  <2>4. actual \in Seq(T) /\ Len(actual) = n
    BY <1>4, <2>2
  <2>5. params \in Seq(T) /\ Len(params) = m
    BY <1>5, <2>3
  <2>6. QED
    BY <1>4, <1>5, <2>4, <2>5
<1>7. n = m /\ \A i \in 1 .. n : actual[i] = params[i] \/ Narrower(actual[i], params[i])
  <2>1. CASE MachineArgs(call) = types[s].params
    <3>1. actual = params
      BY <1>3, <2>1
    <3>2. 1 .. n = 1 .. m
      BY <1>6, <3>1
    <3>3. QED
      BY <3>1, <3>2
  <2>2. CASE Score(call, s) >= 0
    <3> DEFINE fits == \A i \in DOMAIN actual : actual[i] = params[i] \/ Narrower(actual[i], params[i])
    <3>1. ASSUME Len(actual) # Len(params) \/ ~fits PROVE Score(call, s) = -1
      BY <1>3, <3>1 DEF Score
    <3> HIDE DEF fits
    <3>2. Len(actual) = Len(params) /\ fits
      <4>1. ~(-1 >= 0)
        OBVIOUS
      <4>2. QED
        BY <2>2, <3>1, <4>1
    <3>3. QED
      BY <1>6, <3>2 DEF fits
  <2>3. QED
    BY <2>1, <2>2
<1>8. Passed(call, s) = [i \in DOMAIN actual |->
        IF i = 1 /\ call.args[i].form = "function" /\ RunsThread(s) THEN "i64"
        ELSE IF i \in DOMAIN params /\ Narrower(actual[i], params[i]) THEN params[i] ELSE actual[i]]
  <2>1. Len(call.scope) # 2
    <3>1. call.scope \in Seq(Parts)
      BY DEF IsCall
    <3>2. PICK k \in Nat : k = Len(call.scope)
      BY <3>1
    <3>3. k < 2
      BY <3>2
    <3>4. k # 2
      BY <3>3
    <3>5. QED
      BY <3>2, <3>4
  <2>2. QED
    BY <1>3, <2>1 DEF Passed
<1>9. \A i \in 1 .. n : call.args[i].form # "function"
  BY <1>1, PlainGuess
<1>10. Passed(call, s) = [i \in 1 .. n |-> params[i]]
  <2>1. \A i \in 1 .. n : params[i] = IF i = 1 /\ call.args[i].form = "function" /\ RunsThread(s) THEN "i64"
          ELSE IF i \in DOMAIN params /\ Narrower(actual[i], params[i]) THEN params[i] ELSE actual[i]
    BY <1>6, <1>7, <1>9
  <2>2. QED
    BY <1>6, <1>8, <2>1
<1>11. params = [i \in 1 .. n |-> params[i]]
  BY <1>5, <1>7
<1>12. QED
  BY <1>3, <1>10, <1>11

-----------------------------------------------------------------------------
(* What calls pass.                                                        *)

\* No class has the name of a type of the language; a C function that is imported more than once is
\* declared alike, and no function of the program has its name in the object file.
SignaturesApart ==
  /\ ClassNames \cap TypeNames = {}
  /\ \A e, d \in ImportedFunctions \cup ImportedMethods : e.symbol = d.symbol => e.params = d.params
  /\ \A e \in ImportedFunctions : \A j \in 1 .. Len(program) :
       program[j].kind = "function" => e.symbol # ObjectName(program[j])

\* A call that passes pointers is of functions whose types have one letter each.
ClearLetters(call) ==
  \/ \A i \in DOMAIN call.args : call.args[i].type \notin Pointers
  \/ /\ \A e \in ImportedFunctions : e.orig = call.name => ToSet(e.params) \subseteq TypeNames
     /\ \A j \in 1 .. Len(program) : (program[j].kind = "function" /\ program[j].name = call.name)
                                       => ToSet(program[j].params) \subseteq TypeNames

\* Letters of a name, and names of functions, tell their types.
TypesApart ==
  /\ SignaturesApart
  /\ \A i \in 1 .. Len(program) : program[i].kind = "function" =>
       \A call \in ToSet(CallsOf(program[i])) : Plain(call) => ClearLetters(call)

\* The types of the functions that a symbol may be of.
LEMMA TypesOfSymbol ==
  ASSUME InABody, TypesFrom, SignaturesApart, NEW s \in DOMAIN types
  PROVE  /\ classes \cap TypeNames = {}
         /\ \E ps, known : HasParams(s, ps, at - 1) /\ types[s].params = MachineTypes(ps, known) /\ known \cap TypeNames = {}
<1>1. classes \subseteq ClassNames /\ ClassNames \cap TypeNames = {}
  BY DEF TypesFrom, InABody, SignaturesApart
<1>2. PICK ps : HasParams(s, ps, at - 1) /\ IsTypeOf(types[s], ps)
  BY DEF TypesFrom, InABody
<1>3. PICK known \in SUBSET ClassNames : types[s].params = MachineTypes(ps, known)
  BY <1>2 DEF IsTypeOf
<1>4. known \cap TypeNames = {} /\ classes \cap TypeNames = {}
  BY <1>1
<1>5. QED
  BY <1>2, <1>3, <1>4

\* Parameters of functions are known types.
LEMMA ParamsAreKnown ==
  ASSUME InABody, NEW s, NEW ps, HasParams(s, ps, at - 1)
  PROVE  ps \in Seq(KnownTypes)
<1>1. program \in Programs /\ at - 1 \in 1 .. Len(program)
  BY DEF InABody, Reading
<1>2. ASSUME NEW j \in 1 .. at - 1, program[j].kind = "function", ps = program[j].params
      PROVE  ps \in Seq(KnownTypes)
  <2>1. j \in 1 .. Len(program)
    BY <1>1, ProgramIs
  <2>2. IsFunction(program[j])
    BY <1>1, <1>2, <2>1, DeclarationForms
  <2>3. QED
    BY <1>2, <2>2 DEF IsFunction
<1>3. ASSUME NEW imp \in ImportsTo(at - 1), ImportedParams(imp, s, ps)
      PROVE  ps \in Seq(KnownTypes)
  <2>1. imp \in ImportForms
    BY ImportsAbove
  <2>2. \A e \in ToSet(FunctionsOf(imp)) : e \in EntryForms
    BY ImportsAbove, MangledForms
  <2>3. \A c \in ToSet(ClassesOf(imp)) : \A m \in ToSet(c.methods) : m \in EntryForms
    <3> SUFFICES ASSUME NEW c \in ToSet(ClassesOf(imp)), NEW m \in ToSet(c.methods) PROVE m \in EntryForms
      OBVIOUS
    <3>1. c \in ClassEntries
      BY <2>1, SelectedIs, ElementsOf
    <3>2. c.methods \in Seq(MethodEntries)
      BY <3>1 DEF ClassEntries
    <3>3. m \in MethodEntries
      BY <3>2, ElementsOf
    <3>4. QED
      BY <3>3, MangledForms
  <2>4. \A e \in EntryForms : e.params \in Seq(KnownTypes)
    BY DEF EntryForms
  <2>5. QED
    BY <1>3, <2>2, <2>3, <2>4 DEF ImportedParams
<1>4. QED
  BY <1>2, <1>3 DEF HasParams

\* A method that is imported above is one that the program imports.
LEMMA MethodsAbove ==
  ASSUME InABody, NEW imp \in ImportsTo(at - 1), NEW c \in ToSet(ClassesOf(imp)), NEW m \in ToSet(c.methods)
  PROVE  m \in ImportedMethods
<1>1. imp \in ImportsTo(Len(program))
  BY ImportsAbove
<1>2. QED
  BY <1>1 DEF ImportedMethods

\* The name of an imported function is the compiler's own, what it has in its file is not.
LEMMA ImportedNames ==
  ASSUME InABody, NothingReserved, NEW imp \in ImportsTo(at - 1), NEW e \in ToSet(FunctionsOf(imp))
  PROVE  /\ Reserved(e.pc) /\ ~Reserved(e.orig)
         /\ e.params \in Seq(KnownTypes)
         /\ e.pc = Mangled(e.orig, LettersOf(e.params, Letters)) \/ e.pc = Mangled(e.orig, LettersOf(e.params, PcLetters))
         /\ Reserved(e.symbol) => e.symbol = e.pc
<1>1. imp \in ImportForms /\ imp \in ImportsTo(Len(program)) /\ e \in ImportedFunctions /\ e \in FunctionEntries
  BY ImportsAbove
<1>2. e.orig \in FullNames /\ e.params \in Seq(KnownTypes)
  BY <1>1, MangledForms DEF EntryForms
<1>3. e.pc = Mangled(e.orig, LettersOf(e.params, Letters)) \/ e.pc = Mangled(e.orig, LettersOf(e.params, PcLetters))
  BY <1>1 DEF FunctionEntries, HeaderFunctions, PcFunctions
<1>4. Reserved(e.pc)
  <2>1. PICK l \in Seq(Pieces) : e.pc = Mangled(e.orig, l)
    BY <1>2, <1>3, LettersOfArePieces
  <2>2. QED
    BY <1>2, <2>1, MangledBegins
<1>5. ~Reserved(e.orig)
  BY <1>1 DEF NothingReserved
<1>6. ASSUME Reserved(e.symbol) PROVE e.symbol = e.pc
  <2>1. imp.file.kind # "ph"
    BY <1>1, <1>6 DEF NothingReserved
  <2>2. imp.file.kind = "pc"
    BY <1>1, <2>1 DEF ImportForms, FileForms
  <2>3. e \in EntriesIn(imp.file.kind)
    BY <1>1, SelectedIs
  <2>4. QED
    BY <2>2, <2>3 DEF EntriesIn, PcFunctions
<1>7. QED
  BY <1>2, <1>3, <1>4, <1>5, <1>6

\* What a call passes pointers to has clear letters.
LEMMA ClearForCall ==
  ASSUME NEW call, ClearLetters(call), NEW ps,
         \/ \E e \in ImportedFunctions : e.orig = call.name /\ ps = e.params
         \/ \E j \in 1 .. Len(program) : program[j].kind = "function" /\ program[j].name = call.name /\ ps = program[j].params
  PROVE  ClearFor(ArgTypes(call), ps)
BY DEF ClearLetters, ClearFor, ArgTypes

\* A function under the name that the compiler guesses takes the types of the arguments.
LEMMA GuessedTypes ==
  ASSUME InABody, TypesFrom, NothingReserved, SignaturesApart,
         NEW call, IsCall(call), Apart(call), Plain(call), ClearLetters(call),
         NEW s \in DOMAIN types, s = GuessedName(call)
  PROVE  types[s].params = MachineArgs(call)
<1>1. PICK ps, known : HasParams(s, ps, at - 1) /\ types[s].params = MachineTypes(ps, known) /\ known \cap TypeNames = {}
  BY TypesOfSymbol
<1>2. classes \cap TypeNames = {} /\ ps \in Seq(KnownTypes)
  BY <1>1, TypesOfSymbol, ParamsAreKnown
<1>3. Reserved(s) /\ Begins(s, call.name)
  BY GuessedIs
<1>4. ASSUME NEW l, l = LettersOf(ps, Letters) \/ l = LettersOf(ps, PcLetters), s = Mangled(call.name, l),
             \/ \E e \in ImportedFunctions : e.orig = call.name /\ ps = e.params
             \/ \E j \in 1 .. Len(program) : program[j].kind = "function" /\ program[j].name = call.name /\ ps = program[j].params
      PROVE  types[s].params = MachineArgs(call)
  <2>1. ClearFor(ArgTypes(call), ps)
    BY <1>4, ClearForCall
  <2>2. GuessedName(call) = Mangled(call.name, l)
    BY <1>4
  <2>3. MachineTypes(ps, known) = MachineArgs(call)
    BY <1>1, <1>2, <1>4, <2>1, <2>2, GuessDecides
  <2>4. QED
    BY <1>1, <2>3
<1>5. ASSUME NEW j \in 1 .. at - 1, program[j].kind = "function", s = ObjectName(program[j]), ps = program[j].params
      PROVE  types[s].params = MachineArgs(call)
  <2>1. j \in 1 .. Len(program)
    BY <1>5, ObjectNames
  <2>2. ~Reserved(<<"main">>)
    BY DEF Reserved
  <2>3. s = MangleName(program[j].name, program[j].params)
    BY <1>3, <1>5, <2>2, ObjectNames
  <2>4. program[j].name = call.name
    BY <1>3, <1>5, <2>1, <2>3 DEF Apart
  <2>5. s = Mangled(call.name, LettersOf(ps, Letters))
    BY <1>5, <2>3, <2>4 DEF MangleName, MangledAs, LettersOf
  <2>6. QED
    BY <1>4, <1>5, <2>1, <2>4, <2>5
<1>6. ASSUME NEW imp \in ImportsTo(at - 1), ImportedParams(imp, s, ps)
      PROVE  types[s].params = MachineArgs(call)
  <2>1. CASE \E c \in ToSet(ClassesOf(imp)) : \E m \in ToSet(c.methods) : m.symbol = s /\ ps = m.params
    <3>1. PICK c \in ToSet(ClassesOf(imp)) : \E m \in ToSet(c.methods) : m.symbol = s
      BY <2>1
    <3>2. PICK m \in ToSet(c.methods) : m.symbol = s
      BY <3>1
    <3>3. m \in ImportedMethods
      BY MethodsAbove
    <3>4. QED
      BY <1>3, <3>2, <3>3 DEF NothingReserved
  <2>2. CASE \E e \in ToSet(FunctionsOf(imp)) : e.symbol = s /\ ps = e.params
    <3>1. PICK e \in ToSet(FunctionsOf(imp)) : e.symbol = s /\ ps = e.params
      BY <2>2
    <3>2. e \in ImportedFunctions
      BY ImportsAbove
    <3>3. /\ e.pc = Mangled(e.orig, LettersOf(e.params, Letters)) \/ e.pc = Mangled(e.orig, LettersOf(e.params, PcLetters))
          /\ e.pc = s
      BY <1>3, <3>1, ImportedNames
    <3>4. e.orig = call.name
      BY <1>3, <3>2, <3>3 DEF Apart
    <3>5. PICK l : (l = LettersOf(ps, Letters) \/ l = LettersOf(ps, PcLetters)) /\ s = Mangled(call.name, l)
      BY <3>1, <3>3, <3>4
    <3>6. QED
      BY <1>4, <3>1, <3>2, <3>4, <3>5
  <2>3. QED
    BY <1>6, <2>1, <2>2 DEF ImportedParams
<1>7. QED
  BY <1>1, <1>5, <1>6 DEF HasParams

\* What a call finds by the guessed name in the names that imports gave takes the types of its arguments.
LEMMA LookedUpTypes ==
  ASSUME InABody, TypesFrom, NothingReserved, SignaturesApart,
         NEW call, IsCall(call), Apart(call), Plain(call), ClearLetters(call), call.scope \in CallScopes,
         NEW s, s = Lookup(Key(call.scope, GuessedName(call))), s # Undefined
  PROVE  types[s].params = MachineArgs(call)
<1>1. PICK name : name = GuessedName(call)
  OBVIOUS
<1>2. PICK imp \in ImportsTo(at - 1) : \E e \in ToSet(FunctionsOf(imp)) : s = e.symbol /\ name \in {e.pc, e.orig}
  <2>1. Sought(call.scope, name)
    BY <1>1, CallIsSought
  <2>2. QED
    BY <1>1, <2>1, LookedUp
<1>3. PICK e \in ToSet(FunctionsOf(imp)) : s = e.symbol /\ name \in {e.pc, e.orig}
  BY <1>2
<1>4. e \in ImportedFunctions
  BY ImportsAbove
<1>5. /\ Reserved(e.pc) /\ ~Reserved(e.orig) /\ e.params \in Seq(KnownTypes)
      /\ e.pc = Mangled(e.orig, LettersOf(e.params, Letters)) \/ e.pc = Mangled(e.orig, LettersOf(e.params, PcLetters))
  BY ImportedNames
<1>6. Reserved(name) /\ Begins(name, call.name)
  BY <1>1, GuessedIs
<1>7. name = e.pc /\ e.orig = call.name
  <2>1. name = e.pc
    BY <1>3, <1>5, <1>6
  <2>2. QED
    BY <1>4, <1>6, <2>1 DEF Apart
<1>8. s \in DOMAIN types
  <2>1. \E m \in ToSet(maps) : m.symbol = s
    BY LookupIsSymbol
  <2>2. QED
    BY <2>1 DEF TypesFrom, InABody
<1>9. PICK ps, known : HasParams(s, ps, at - 1) /\ types[s].params = MachineTypes(ps, known) /\ known \cap TypeNames = {}
  BY <1>8, TypesOfSymbol
<1>10. classes \cap TypeNames = {}
  BY <1>8, TypesOfSymbol
<1>11. ps = e.params
  <2>1. ASSUME NEW j \in 1 .. at - 1, program[j].kind = "function", s = ObjectName(program[j]) PROVE FALSE
    <3>1. j \in 1 .. Len(program)
      BY <2>1, ObjectNames
    <3>2. QED
      BY <1>3, <1>4, <2>1, <3>1 DEF SignaturesApart
  <2>2. ASSUME NEW other \in ImportsTo(at - 1), ImportedParams(other, s, ps) PROVE ps = e.params
    <3>1. CASE \E d \in ToSet(FunctionsOf(other)) : d.symbol = s /\ ps = d.params
      <4>1. PICK d \in ToSet(FunctionsOf(other)) : d.symbol = s /\ ps = d.params
        BY <3>1
      <4>2. d \in ImportedFunctions
        BY ImportsAbove
      <4>3. QED
        BY <1>3, <1>4, <4>1, <4>2 DEF SignaturesApart
    <3>2. CASE \E c \in ToSet(ClassesOf(other)) : \E m \in ToSet(c.methods) : m.symbol = s /\ ps = m.params
      <4>1. PICK c \in ToSet(ClassesOf(other)) : \E m \in ToSet(c.methods) : m.symbol = s /\ ps = m.params
        BY <3>2
      <4>2. PICK m \in ToSet(c.methods) : m.symbol = s /\ ps = m.params
        BY <4>1
      <4>3. m \in ImportedMethods
        BY MethodsAbove
      <4>4. QED
        BY <1>3, <1>4, <4>2, <4>3 DEF SignaturesApart
    <3>3. QED
      BY <2>2, <3>1, <3>2 DEF ImportedParams
  <2>3. QED
    BY <1>9, <2>1, <2>2 DEF HasParams
<1>12. ClearFor(ArgTypes(call), e.params)
  BY <1>4, <1>7, ClearForCall
<1>13. PICK l : (l = LettersOf(e.params, Letters) \/ l = LettersOf(e.params, PcLetters)) /\ GuessedName(call) = Mangled(call.name, l)
  BY <1>1, <1>5, <1>7
<1>14. MachineTypes(e.params, known) = MachineArgs(call)
  BY <1>5, <1>9, <1>10, <1>12, <1>13, GuessDecides
<1>15. QED
  BY <1>9, <1>11, <1>14

\* A name that an import gave is not that of a function of the program.
LEMMA NotLocal ==
  ASSUME InABody, SignaturesApart, NEW call, IsCall(call), call.scope \in CallScopes,
         NEW name, name = call.name \/ name = GuessedName(call), Lookup(Key(call.scope, name)) # Undefined,
         NEW j \in 1 .. at - 1, program[j].kind = "function"
  PROVE  Lookup(Key(call.scope, name)) # ObjectName(program[j])
<1>1. Sought(call.scope, name)
  BY CallIsSought
<1>2. PICK imp \in ImportsTo(at - 1) : \E e \in ToSet(FunctionsOf(imp)) : Lookup(Key(call.scope, name)) = e.symbol
  BY <1>1, LookedUp
<1>3. PICK e \in ToSet(FunctionsOf(imp)) : Lookup(Key(call.scope, name)) = e.symbol
  BY <1>2
<1>4. e \in ImportedFunctions /\ j \in 1 .. Len(program)
  BY ImportsAbove, ObjectNames
<1>5. QED
  BY <1>3, <1>4 DEF SignaturesApart

\* A call that is resolved within its module, or to a function of the program, passes what that takes.
LEMMA PassesTypes ==
  ASSUME InABody, TypesFrom, NothingReserved, SignaturesApart,
         NEW call, IsCall(call), Apart(call), Plain(call), ClearLetters(call),
         NEW s, s = Resolve(call), s # Undefined,
         \/ Len(call.scope) = 1
         \/ call.scope = <<>> /\ \E j \in 1 .. at - 1 : program[j].kind = "function" /\ s = ObjectName(program[j])
  PROVE  Passed(call, s) = types[s].params
<1>1. Len(call.scope) < 2
  <2>1. call.scope = <<>> => Len(call.scope) = 0
    BY EmptySeq DEF IsCall
  <2>2. QED
    BY <2>1
<1>2. /\ call.scope \in CallScopes
      /\ (call.scope = <<>> /\ Len(call.scope) = 0) \/ (call.scope # <<>> /\ Len(call.scope) = 1)
  BY <1>1, ShortScope
<1>3. ASSUME s \in DOMAIN types, MachineArgs(call) = types[s].params \/ Score(call, s) >= 0
      PROVE  Passed(call, s) = types[s].params
  <2>1. PICK ps, known : HasParams(s, ps, at - 1) /\ types[s].params = MachineTypes(ps, known)
    BY <1>3, TypesOfSymbol
  <2>2. classes \cap TypeNames = {} /\ ps \in Seq(KnownTypes)
    BY <1>3, <2>1, TypesOfSymbol, ParamsAreKnown
  <2>3. QED
    BY <1>1, <1>3, <2>1, <2>2, PassedFits
<1>4. s \in DOMAIN types
  <2>1. s \in declared \/ \E key : s = Lookup(key)
    BY Resolved
  <2>2. s \in declared \/ \E m \in ToSet(maps) : m.symbol = s
    BY <2>1, LookupIsSymbol
  <2>3. QED
    BY <2>2 DEF TypesFrom, InABody
<1>5. CASE Len(call.scope) = 1
  <2>1. s = ResolveQualified(call)
    BY <1>2, <1>5 DEF Resolve
  <2>2. CASE s = Lookup(Key(call.scope, GuessedName(call)))
    <3>1. types[s].params = MachineArgs(call)
      BY <1>2, <2>2, LookedUpTypes
    <3>2. QED
      BY <1>3, <1>4, <3>1
  <2>3. CASE s = Lookup(Key(call.scope, call.name)) /\ Validates(call, s)
    BY <1>3, <1>4, <2>3 DEF Validates
  <2>4. QED
    BY <2>1, <2>2, <2>3 DEF ResolveQualified, Either
<1>6. CASE call.scope = <<>>
  <2>1. PICK j \in 1 .. at - 1 : program[j].kind = "function" /\ s = ObjectName(program[j])
    BY <1>2, <1>6
  <2>2. s = ResolveBare(call)
    BY <1>2, <1>6 DEF Resolve
  <2>3. CASE s = GuessedName(call)
    <3>1. types[s].params = MachineArgs(call)
      BY <1>4, <2>3, GuessedTypes
    <3>2. QED
      BY <1>3, <1>4, <3>1
  <2>4. CASE s = BestOverload(call)
    <3>1. Score(call, s) >= 0
      BY <2>4, BestOverloadIs
    <3>2. QED
      BY <1>3, <1>4, <3>1
  <2>5. CASE s = call.name /\ Validates(call, s)
    BY <1>3, <1>4, <2>5 DEF Validates
  <2>6. CASE s = Lookup(GuessedName(call)) \/ s = Lookup(call.name)
    <3>1. PICK name : (name = call.name \/ name = GuessedName(call)) /\ s = Lookup(name)
      BY <2>6
    <3>2. Key(call.scope, name) = name
      <4>1. \E U : GuessedName(call) \in Seq(U)
        BY GuessedIs
      <4>2. call.name \in Seq(Parts)
        BY DEF IsCall, FullNames
      <4>3. PICK U : name \in Seq(U)
        BY <3>1, <4>1, <4>2
      <4>4. QED
        BY <1>6, <4>3, BareKey
    <3>3. s = Lookup(Key(call.scope, name))
      BY <3>1, <3>2
    <3>4. QED
      BY <1>2, <2>1, <3>1, <3>3, NotLocal
  <2>7. QED
    BY <2>2, <2>3, <2>4, <2>5, <2>6 DEF ResolveBare, Either
<1>7. QED
  BY <1>2, <1>5, <1>6

\* A function of the program is visible as one of the program.
LEMMA LocalOrigin ==
  ASSUME InABody, NEW call, NEW f \in Visible(at - 1, call), f.origin = "local"
  PROVE  \E j \in 1 .. at - 1 : program[j].kind = "function" /\ f.symbol = ObjectName(program[j])
<1>1. program \in Programs /\ at - 1 \in 1 .. Len(program)
  BY DEF InABody, Reading
<1>2. PICK j \in 1 .. at - 1 :
        f \in IF program[j].kind = "import" THEN ImportedBy(program[j], call)
              ELSE IF program[j].name = call.name /\ call.scope = <<>>
                   THEN {Function(ObjectName(program[j]), program[j].params, "local", ObjectName(program[j]))} ELSE {}
  BY DEF Visible
<1>3. j \in 1 .. Len(program)
  BY <1>1, ProgramIs
<1>4. CASE program[j].kind = "import"
  <2>1. program[j] \in ImportForms
    BY <1>1, <1>3, <1>4, DeclarationForms
  <2>2. PICK e : f = Function(e.symbol, e.params, program[j].file.kind, e.pc)
    BY <1>2, <1>4 DEF ImportedBy
  <2>3. f.origin = program[j].file.kind
    BY <2>2 DEF Function
  <2>4. program[j].file.kind \in {"ph", "pc"}
    BY <2>1 DEF ImportForms, FileForms
  <2>5. QED
    BY <2>3, <2>4
<1>5. CASE program[j].kind # "import"
  <2>1. program[j].kind = "function"
    BY <1>1, <1>3, <1>5, DeclarationForms DEF IsFunction
  <2>2. f = Function(ObjectName(program[j]), program[j].params, "local", ObjectName(program[j]))
    BY <1>2, <1>5
  <2>3. f.symbol = ObjectName(program[j])
    BY <2>2 DEF Function
  <2>4. QED
    BY <2>1, <2>3
<1>6. QED
  BY <1>4, <1>5

\* A call passes what its function takes, if names and letters are not another's.  (validate_call_args,
\* mangle_call_name)
THEOREM TypesArePassed == Spec => [](SymbolsApart /\ TypesApart => WellTyped)
<1> DEFINE Fits(c) == (/\ Plain(c.call)
                       /\ \/ Len(c.call.scope) = 1
                          \/ c.call.scope = <<>> /\ \E f \in Visible(c.at, c.call) : f.symbol = c.symbol /\ f.origin = "local")
                      => c.passed = c.params
           Inv == IsSequence(called) /\ (SymbolsApart /\ TypesApart => \A c \in ToSet(called) : Fits(c))
<1>1. Init => Inv
  <2>1. <<>> \in Seq(ToSet(<<>>)) /\ ToSet(<<>>) = {}
    BY ElementsOf
  <2>2. QED
    BY <2>1 DEF Init, IsSequence
<1>2. Inv /\ Reading /\ TypesFrom /\ [Next]_vars => Inv'
  <2> SUFFICES ASSUME Inv, Reading, TypesFrom, [Next]_vars PROVE Inv'
    OBVIOUS
  <2>1. /\ IsSequence(called)' /\ UNCHANGED program
        /\ \/ UNCHANGED called
           \/ \E call, s : /\ InABody /\ IsCall(call) /\ s = Resolve(call) /\ s # Undefined
                           /\ \E i \in 1 .. Len(program) : program[i].kind = "function" /\ call \in ToSet(CallsOf(program[i]))
                           /\ ToSet(called)' = ToSet(called) \cup {CalledAt(call, s)}
    BY CalledGrows
  <2>2. /\ SymbolsApart' <=> SymbolsApart
        /\ \A c : Fits(c)' <=> Fits(c)
    BY <2>1, NamesStay DEF Plain
  <2>3. TypesApart' <=> TypesApart
    <3>1. ClassNames' = ClassNames
      BY <2>1 DEF ClassNames, ImportsTo
    <3>2. SignaturesApart' <=> SignaturesApart
      BY <2>1, <3>1, NamesStay DEF SignaturesApart, ObjectName
    <3>3. \A call : Plain(call)' <=> Plain(call)
      BY DEF Plain
    <3>4. \A call : ClearLetters(call)' <=> ClearLetters(call)
      BY <2>1, NamesStay DEF ClearLetters
    <3>5. QED
      BY <2>1, <3>2, <3>3, <3>4 DEF TypesApart
  <2> HIDE DEF Fits
  <2>4. CASE UNCHANGED called
    BY <2>1, <2>2, <2>3, <2>4
  <2>5. ASSUME NEW call, NEW s, InABody, IsCall(call), s = Resolve(call), s # Undefined,
               \E i \in 1 .. Len(program) : program[i].kind = "function" /\ call \in ToSet(CallsOf(program[i])),
               ToSet(called)' = ToSet(called) \cup {CalledAt(call, s)}
        PROVE  Inv'
    <3>1. SymbolsApart /\ TypesApart => Fits(CalledAt(call, s))
      <4> SUFFICES ASSUME SymbolsApart, TypesApart, Plain(call),
                          \/ Len(call.scope) = 1
                          \/ call.scope = <<>> /\ \E f \in Visible(at - 1, call) : f.symbol = s /\ f.origin = "local"
                   PROVE  Passed(call, s) = types[s].params
        BY DEF Fits, CalledAt
      <4>1. NothingReserved /\ Apart(call) /\ SignaturesApart /\ ClearLetters(call)
        BY <2>5 DEF SymbolsApart, TypesApart
      <4>2. \/ Len(call.scope) = 1
            \/ call.scope = <<>> /\ \E j \in 1 .. at - 1 : program[j].kind = "function" /\ s = ObjectName(program[j])
        BY <2>5, LocalOrigin
      <4>3. QED
        BY <2>5, <4>1, <4>2, PassesTypes
    <3>2. QED
      BY <2>1, <2>2, <2>3, <2>5, <3>1
  <2>6. QED
    BY <2>1, <2>4, <2>5
<1>3. Inv => (SymbolsApart /\ TypesApart => WellTyped)
  BY DEF WellTyped
<1>4. QED
  BY <1>1, <1>2, <1>3, ReadingIs, TypesFromIs, PTL DEF Spec
=============================================================================
