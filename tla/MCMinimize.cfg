SPECIFICATION MinimizeSpec
CONSTANTS
  None = None
  Err = Err
  Zero <- TropicalZero
  One <- TropicalOne
  Plus <- TropicalPlus
  Times <- TropicalTimes
  DivideLeft <- TropicalDivide
  DivideRight <- TropicalDivide
  Base <- TropicalWeight
  Alphabet = {1, 2}
  MaxWord = 4
  Deep = {}
  Built <- Ambiguous
  Operands = {}
  Rights = {}
  Configs = {}
  Lookaheads = {}
  Grammars = {}
  RootLabel = 3
  Renamings = {}
  Thresholds = {0, 5}
  Limits = {}
  MaxSubsets = 5
  MaxOptimized = 40
  MinusLog <- TropicalMinusLog
  Sampled = {}
  Samplings = {}
  PathLength = 4
  Nondet = {TRUE}
  PushTypes = {}
  MaxOps = 1
INVARIANT Meaning
CHECK_DEADLOCK FALSE
