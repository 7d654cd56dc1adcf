SPECIFICATION Spec
CONSTANTS
  NumTiles = 3
  JobsCap = 3
  PoolCap = 5
  MaxRefused = 1
  Stale = stale
  Ref <- MCRef
  SpanOf <- MCSpanOf
INVARIANTS
  TypeOK
  BinsInEmissionOrder
  LossIsCounted
  SegmentsDisjoint
  TotalIsComplete
