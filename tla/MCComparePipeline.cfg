SPECIFICATION Spec
CONSTANTS
  full = full
  partial = partial
  Trajectories <- MCTrajectories
  Bounds <- MCBounds
  NoTrajectory = NoTrajectory
  NoTime = NoTime
  Confirmation = 2
  Recovery = 1
  MaxTime = 8
INVARIANTS TypeOK EventsJustified NothingMissed EventsAlternate
