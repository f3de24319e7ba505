CONSTANTS
  MaxZeroReads = 4
  MaxPolls = 6
  TailLines = 1
  MaxLines = 3
  FailedLines <- MCFailedLines
  ExitCodes <- MCExitCodes
  SaveProgress = TRUE
  NoCode = NoCode
  Blank = Blank
  NotTried = NotTried
  Unwritten = Unwritten
SPECIFICATION Spec
INVARIANTS
  TypeOK
  SendHasReceiver
  LoopSeesNoClosedChannel
  ReturnedMeansSaved
  NilResultShowsAll
  NilResultIsExplained
PROPERTIES
  FollowSpec
  FollowEnds
