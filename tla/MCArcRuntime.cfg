CONSTANTS
  t1 = t1
  t2 = t2
  t3 = t3
  a1 = a1
  a2 = a2
  b1 = b1
  b2 = b2
  c1 = c1
  plainObj = plainObj
  shared1 = shared1
  shared2 = shared2
  Nil = Nil
  Threads <- MCThreads
  Objects <- MCObjects
  Refs <- MCRefs
  Owner <- MCOwner
  SharedObjects <- MCShared
SPECIFICATION Spec
INVARIANTS NoDangling NoDoubleFree RefcountExact NoLeak IInv
PROPERTY ImplementsOwnership
