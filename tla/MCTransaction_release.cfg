\* One transaction whose body leaves a statement un-awaited.
SPECIFICATION Spec
CONSTANTS
  Txs = {t1}
  Conns = {c1}
  None = None
  Habits = {"sql"}
  MaxInFlight = 2
INVARIANT ReturnedClean
CHECK_DEADLOCK FALSE
