CONSTANTS
  Percentages <- MCPercentages
  DataAt <- MCDataAt
  Names = {"f"}
  Counts <- MCCounts
  TotalFiles = 12
  ExitCodes <- MCExitCodes
  MaxZeroReads = 1
  TailLines = 2
  MaxLines = 4
  Nil = Nil
SPECIFICATION Spec
PROPERTY DataIsAggregated
