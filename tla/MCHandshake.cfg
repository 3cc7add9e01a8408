\* Every TLS mode against every answer and every method; a right and a wrong
\* password, two salts.
SPECIFICATION FairSpec
CONSTANTS
  Modes = {"disable", "prefer", "require"}
  Methods = {"trust", "clear", "md5", "scram", "unknown"}
  Passwords = {"p1", "p2"}
  Salts = {"h1", "h2"}
INVARIANTS
  TypeOK
  InStep
  TruthfulFailure
PROPERTY EveryConnectSettles
CHECK_DEADLOCK FALSE
