SPECIFICATION LocksSpec
CONSTANTS
  Threads = {t1, t2, t3, t4}
  Limit = 2
  Garbage <- MCGarbage
  Callers = {c1, c2}
  Workers = {w1, w2, w3}
  Users = {u1, u2, u3}
  MaxDepth = 3
INVARIANTS
  NoAssertionEverFails
  NoLockCycle
  ListTellsTheThreads
  ScopesHoldTheLock
PROPERTIES
  ActsAtOnce
  JoinsReturn
