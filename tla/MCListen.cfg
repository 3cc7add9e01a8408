\* Three subscriptions to two channels, over at most two connections; each
\* unlisten() is called up to two times.
SPECIFICATION FairSpec
CONSTANTS
  Subs = {s1, s2, s3}
  Channels = {a, b}
  None = None
  MaxConns = 2
  MaxUnlistens = 2
INVARIANTS
  TypeOK
  RegistrationsInStep
  HandlersKept
PROPERTY ReleasedWhenUnused
CHECK_DEADLOCK FALSE
