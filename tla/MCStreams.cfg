\* Any two of two cursors, a reader and a writer, in any order, each with two
\* rows.
SPECIFICATION FairSpec
CONSTANTS
  c1 = c1
  c2 = c2
  Cursors <- MCCursors
  Outs = {o1}
  Ins = {i1}
  None = None
  Rows = 2
  BatchSize <- MCBatchSize
  MaxUses = 2
INVARIANTS
  TypeOK
  ReturnedClean
  StreamExact
PROPERTY EveryAwaitEnds
CHECK_DEADLOCK FALSE
