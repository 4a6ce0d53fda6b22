SPECIFICATION Spec
CONSTANTS
  Event <- TwoEvents
  Program <- TwoPrograms
  ProgramOf <- OwnProgram
  Primacy <- SecondFirst
  Interval <- Overlapping
  Creation <- InOrder2
  Base <- CrossBase
  HasDefault = {1}
  Random <- OneSecond
  Initial = {1}
  Withdraw = "nothing"
  Drops = {1}
  Cancels = {}
  PollRate = 3
  Lead = 1
  MaxAdjust = 0
  Horizon = 6
INVARIANTS
  TypeOK
  WakeupPending
  ControlsDisjoint
PROPERTIES
  StatusForward
  StreamSpec
CHECK_DEADLOCK FALSE
