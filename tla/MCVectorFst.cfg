CONSTANTS
  None = None
  Err = Err
  Zero = 1000
  One = 0
  Plus <- Unused
  Times <- Unused
  DivideLeft <- Unused
  DivideRight <- Unused
  Labels = {0, 1}
  Weights = {0, 5}
  FinalWeights = {5}
  MaxStates = 2
  MaxTrs = 2
SPECIFICATION Spec
INVARIANTS BitsTrue EpsilonCounts
CHECK_DEADLOCK FALSE
