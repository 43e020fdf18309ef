SPECIFICATION Spec
CONSTANTS
  long = long
  short = short
  empty = empty
  NotRequired = NotRequired
  NoLimit = NoLimit
  NoTrajectory = NoTrajectory
  NoTarget = NoTarget
  NoCycle = NoCycle
  Trajectories <- MCTrajectories
  Length <- MCLength
  Dof = 2
  Requirement <- MCRequirement
  Thresholds <- MCThresholds
  Observations <- MCObservations
  MaxClock = 2
INVARIANTS TypeOK StepJustified
PROPERTY ImplementsWaypointTracking
