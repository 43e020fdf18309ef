SPECIFICATION SkillSpec
CONSTANTS
  MaxIterations = MaxIterations
  IkError = IkError
  IkFailed = IkFailed
  JointLimitViolation = JointLimitViolation
  MCAnyFacing = AnyFacing
  NoSpeed = NoSpeed
  NoProgram = NoProgram
  Nowhere = Nowhere
  Joints <- Arm
  Starts <- MCStarts
  Places <- MCPlaces
  Place <- MCPlace
  Frames = {"world"}
  Targets <- MCTargets
  Speeds = {0, 1, 2}
  AnyFacing <- MCAnyFacing
  Origins <- MCOrigins
  SolvePosition <- MCSolvePosition
  PlanSegment <- MCPlanSegment
  Errors <- MCErrors
  Programs <- MCPrograms
  EditorSegments <- MCEditorSegments
  SegmentPrograms <- MCSegmentPrograms
  OperationPrograms <- MCOperationPrograms
  Grasps <- MCGrasps
  Placements <- MCPlacements
  LocationPose <- MCLocationPose
  HomePose <- MCHomePose
  Unresolved = Unresolved
  JointSpeed = 1
  LineSpeed = 2
  NoProfile = NoProfile
  GlobalSkills <- MCGlobalSkills
  RobotSkills <- MCRobotSkills
  Supported <- MCSupported
  NoSkill = NoSkill
  LoweringError = LoweringError
  NormalizeError = NormalizeError
  Irs <- MCIrs
  Bodies <- MCBodies
  SkillPrograms <- MCSkillPrograms
  Defined <- MCDefined
  Contexts <- MCContexts
  NoObject = NoObject
INVARIANTS PipelineTypeOK EventsMeetTheArm Seamless StartJointsAgree SeedIsTheArm FinalStateAfterJointMove WaypointsAreConstrained
           GripsWhereItShould ValidatedMeansSafe OriginsKept RecordsTellTheTruth
PROPERTY ImplementsTimeline
CHECK_DEADLOCK FALSE
