SPECIFICATION Spec
CONSTANTS
  t1 = t1
  t2 = t2
  t3 = t3
  none = none
  Threads <- ThreeThreads
  None <- none
  Handles = {1, 2}
  MaxLoads = 2
INVARIANTS
  EngineExclusive
  RegistryExclusive
  HandlesDistinct
  LockDiscipline
PROPERTY NeverReissued
PROPERTIES Linearizable
