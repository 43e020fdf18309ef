SPECIFICATION SimSpec
CONSTANTS
  path = path
  NotRequired = NotRequired
  NoLimit = NoLimit
  NoTrajectory = NoTrajectory
  NoTarget = NoTarget
  NoCycle = NoCycle
  Trajectories <- MCTrajectories
  Length <- MCLength
  Dof = 1
  Requirement <- MCRequirement
  Thresholds <- MCThresholds
  Observations <- MCObservations
  Period = 1
  Staleness = 6
  MaxAge = 3
  MaxClock = 3
PROPERTIES ProgressNeedsEvidence SettlesWithDevice
