\* Two pipelined calls and one simple query, one notification, every fault.
SPECIFICATION FairSpec
CONSTANTS
  ExtCalls = {e1, e2}
  SimpleCalls = {s1}
  None = None
  Terminate = Terminate
  MaxNotices = 1
  MaxAborts = 1
  Faults = {"end", "copy", "fin", "shutdown", "reset"}
INVARIANTS
  TypeOK
  NoPromiseForgotten
  AnswersMatch
  ReadyIsQuiescent
  HealthyNeverTornDown
  FailureReachesAll
PROPERTY CallsSettle
CHECK_DEADLOCK FALSE
