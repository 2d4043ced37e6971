SPECIFICATION Spec
CONSTANTS
  None = None
  Err = Err
  Zero <- TropicalZero
  One <- TropicalOne
  Plus <- TropicalPlus
  Times <- TropicalTimes
  DivideLeft <- TropicalDivide
  DivideRight <- TropicalDivide
  Base <- TropicalWeight
  Alphabet = {1, 2}
  MaxWord = 2
  Built <- Pool
  Deep <- Twice
  Operands <- Two
  Rights <- Seconds
  Configs <- Configurations
  Lookaheads <- LookaheadKinds
  Grammars <- Lists
  RootLabel = 3
  Renamings <- SymbolTables
  Thresholds = {0, 5}
  Limits <- LowLimits
  MaxSubsets = 5
  MaxOptimized = 40
  MinusLog <- TropicalMinusLog
  Sampled <- Wandered
  Samplings <- Walks
  PathLength = 4
  Nondet = {FALSE}
  PushTypes = {{"weights", "total"}, {"labels"}, {"weights"}, {"labels", "affix", "total"},
    {"labels", "weights", "affix", "total"}}
  MaxOps = 2
INVARIANTS
  BitsTrue
  EpsilonCounts
  Meaning
  Promised
  ComponentsRight
  ReachableRight
CHECK_DEADLOCK FALSE
