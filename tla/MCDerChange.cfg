SPECIFICATION FairSpec
CONSTANTS
  Event <- TwoEvents
  Program <- OneProgram
  ProgramOf <- SameProgram
  Primacy <- OnePrimacy
  Interval <- Overlapping
  Creation <- InOrder2
  Base <- PartBase
  HasDefault = {1}
  Random <- NoRandom
  Initial = {1, 2}
  Withdraw = "finished"
  Drops = {}
  Cancels <- CancelEither
  PollRate = 3
  Lead = 0
  MaxAdjust = 1
  Horizon = 5
INVARIANTS
  QueuesAgree
  EndGenerated
  ResponsesLegal
PROPERTIES
  StartsEnd
  DefaultFollows
CHECK_DEADLOCK FALSE
