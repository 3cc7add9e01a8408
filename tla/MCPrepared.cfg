\* Four calls of three statements, a cache of two, every fault.
SPECIFICATION Spec
CONSTANTS
  Calls = {k1, k2, k3, k4}
  Stmts = {a, b, c}
  None = None
  CacheSize = 2
  MaxFaults = 2
  Faults = {"ddl", "deallocate", "reject", "unsupported", "abort"}
INVARIANTS
  TypeOK
  InStep
  NamesRecover
  FormatsMatchPlan
  NothingAccumulates
SYMMETRY Symmetry
CHECK_DEADLOCK FALSE
