CONSTANTS
  w1 = w1
  w2 = w2
  w3 = w3
  Main = Main
  TheMutex = TheMutex
  NoThread = NoThread
  NoMutex = NoMutex
  NoHandle = NoHandle
  NotPrinted = NotPrinted
  Order <- MCOrder
  Answer <- MCAnswer
  Rounds = 2
  Programs <- MCPrograms
SPECIFICATION Spec
CHECK_DEADLOCK FALSE
INVARIANTS MutualExclusion NoUseAfterFree
PROPERTIES Terminates ImplementsAtomicCounter
