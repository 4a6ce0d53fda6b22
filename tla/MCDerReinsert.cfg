SPECIFICATION Spec
CONSTANTS
  Event <- TwoEvents
  Program <- TwoPrograms
  ProgramOf <- OwnProgram
  Primacy <- SecondFirst
  Interval <- Overlapping
  Creation <- InOrder2
  Base <- SharedBase
  HasDefault = {1}
  Random <- NoRandom
  Initial = {1}
  Withdraw = "nothing"
  Drops = {}
  Cancels = {}
  PollRate = 2
  Lead = 0
  MaxAdjust = 1
  Horizon = 5
INVARIANTS
  EndGenerated
CHECK_DEADLOCK FALSE
