SPECIFICATION Spec
CONSTANTS
  Cardinalities <- SmallCardinalities
  Once = Once
  Continuous = Continuous
  Readings <- SmallReadings
  Missing = Missing
  NoCondition = NoCondition
  Condition = Condition
  MaxCycles = 3
  MaxHistory = 8
INVARIANTS HistoryIsALife CompletionEarned
CHECK_DEADLOCK FALSE
