\* Three transactions over two connections; every call is awaited.
SPECIFICATION Spec
CONSTANTS
  Txs = {t1, t2, t3}
  Conns = {c1, c2}
  None = None
  Habits = {}
  MaxInFlight = 1
INVARIANTS
  TypeOK
  LeaseExact
  ReturnedClean
  OwnTransaction
  EndedIsOver
SYMMETRY Symmetry
CHECK_DEADLOCK FALSE
