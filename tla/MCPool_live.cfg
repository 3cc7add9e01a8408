\* Two slots, four callers that compete for them, no reaper and no faults: every
\* lease ends in release().
SPECIFICATION FairSpec
CONSTANTS
  Conns = {c1, c2, c3}
  Callers = {p1, p2, p3, p4}
  None = None
  MaxConnections = 2
  IdleTimeout = 0
  ReaperMinTick = 1
  MaxTime = 0
  Failures = {}
PROPERTIES
  EveryWaiterServed
  ClosedPoolDrains
CHECK_DEADLOCK FALSE
