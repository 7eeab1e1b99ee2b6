---------------------------- MODULE ArcOwnership ----------------------------
(***************************************************************************)
(* What the ARC runtime of penguinC promises, without reference counts: an *)
(* object has a set of holders (the variables that own a reference to it), *)
(* only an object somebody holds can be handed on, and the memory of an    *)
(* object is given back exactly when its last holder is gone.              *)
(*                                                                         *)
(* README.md, "Memory Management": arc_alloc creates with one reference,   *)
(* arc_retain adds one, arc_release drops one and frees at zero.           *)
(***************************************************************************)
CONSTANTS
  Objects,    \* heap blocks
  Refs        \* variables that can own a reference

VARIABLES
  live,       \* live[o]: the block is allocated
  holders     \* holders[o]: the variables that own a reference to o

vars == <<live, holders>>

Init ==
  /\ live    = [o \in Objects |-> FALSE]
  /\ holders = [o \in Objects |-> {}]

Unused(r) == \A o \in Objects : r \notin holders[o]

Create(o, r) ==
  /\ ~live[o] /\ Unused(r)
  /\ live'    = [live EXCEPT ![o] = TRUE]
  /\ holders' = [holders EXCEPT ![o] = {r}]

Share(o, r, s) ==
  /\ r \in holders[o] /\ Unused(s)
  /\ holders' = [holders EXCEPT ![o] = @ \cup {s}]
  /\ UNCHANGED live

Move(o, r, s) ==
  /\ r \in holders[o] /\ Unused(s)
  /\ holders' = [holders EXCEPT ![o] = (@ \ {r}) \cup {s}]
  /\ UNCHANGED live

Drop(o, r) ==
  /\ live[o] /\ r \in holders[o]
  /\ holders' = [holders EXCEPT ![o] = @ \ {r}]
  /\ UNCHANGED live

Reclaim(o) ==
  /\ live[o] /\ holders[o] = {}
  /\ live' = [live EXCEPT ![o] = FALSE]
  /\ UNCHANGED holders

Next ==
  \E o \in Objects :
    \/ Reclaim(o)
    \/ \E r \in Refs :
         \/ Create(o, r)
         \/ Drop(o, r)
         \/ \E s \in Refs : Share(o, r, s) \/ Move(o, r, s)

Safe == Init /\ [][Next]_vars

\* An object nobody holds does not stay allocated.
Spec == Safe /\ \A o \in Objects : WF_vars(Reclaim(o))
=============================================================================
