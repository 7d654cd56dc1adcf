SPECIFICATION Spec
CONSTANTS
  Rows = 7
  Band = 2
  Modes = {"complete", "banded"}
INVARIANTS
  NeverUncommitted
  WatermarkTruthful
  WholeFrameShown
PROPERTY
  PresentReturns
