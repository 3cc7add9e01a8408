\* Two calls of one statement, and a migration.
SPECIFICATION Spec
CONSTANTS
  Calls = {k1, k2}
  Stmts = {a}
  None = None
  CacheSize = 2
  MaxFaults = 1
  Faults = {"ddl"}
INVARIANT RetryRecovers
CHECK_DEADLOCK FALSE
