CONSTANTS
  t1 = t1
  t2 = t2
  t3 = t3
  m1 = m1
  m2 = m2
  NoThread = NoThread
  NoMutex = NoMutex
  Threads <- MCThreads
  Mutexes <- MCMutexes
SPECIFICATION MSpec
INVARIANTS UpdatesGuarded CountTracksOwner
PROPERTY Released
CHECK_DEADLOCK FALSE
