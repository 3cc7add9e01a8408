\* Two slots, four callers, four Connection objects (two may still be ending
\* while two are in use), an idle timeout of 4 with a tick of 1, all faults.
SPECIFICATION Spec
CONSTANTS
  Conns = {c1, c2, c3, c4}
  Callers = {p1, p2, p3, p4}
  None = None
  MaxConnections = 2
  IdleTimeout = 4
  ReaperMinTick = 1
  MaxTime = 9
  Failures = {"connect", "socket", "drop"}
SYMMETRY Symmetry
INVARIANTS
  TypeOK
  CapacityRespected
  LeaseExclusive
  NoOrphans
  QueueConsistent
  ReapedInTime
PROPERTIES
  ImplementsLease
CHECK_DEADLOCK FALSE
