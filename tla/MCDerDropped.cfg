SPECIFICATION Spec
CONSTANTS
  Event <- ThreeEvents
  Program <- OneProgram
  ProgramOf <- AllTogether
  Primacy <- OnePrimacy
  Interval <- TwoAndLater
  Creation <- InOrder3
  Base <- TakeOverBase
  HasDefault = {}
  Random <- NoRandom
  Initial = {1, 2}
  Withdraw = "nothing"
  Drops = {}
  Cancels = {}
  PollRate = 2
  Lead = 0
  MaxAdjust = 0
  Horizon = 5
INVARIANT QueuesAgree
CHECK_DEADLOCK FALSE
