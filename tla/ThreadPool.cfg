SPECIFICATION Spec
CONSTANTS
  w1 = w1
  w2 = w2
  w3 = w3
  t1 = t1
  t2 = t2
  t3 = t3
  Workers <- MCWorkers
  Task <- MCTask
  NoTask = NoTask
INVARIANTS
  TypeOK
  ExactlyOnce
  WorkConserving
  NoSleeperAfterStop
PROPERTIES
  ImplementsTaskPool
  DestructorReturns
