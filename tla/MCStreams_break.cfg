\* Two readers of one row.
SPECIFICATION Spec
CONSTANTS
  c1 = c1
  c2 = c2
  Cursors = {}
  Outs = {o1, o2}
  Ins = {}
  None = None
  Rows = 1
  BatchSize <- MCNoBatches
  MaxUses = 2
INVARIANT NothingPoisonsThePool
CHECK_DEADLOCK FALSE
