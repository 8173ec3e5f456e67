SPECIFICATION Spec
CHECK_DEADLOCK FALSE
CONSTANTS
  Threads = {t1, t2, t3}
  Addresses = {a1, a2, a3}
  MaxInstances = 4
  Null = Null
SYMMETRY MCSymmetry
INVARIANTS
  TypeOK
  CallsReachTheirInstance
  RegistryExact
