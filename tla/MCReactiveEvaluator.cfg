SPECIFICATION CompiledSpec
CONSTANTS
  Signals = {box}
  Readings <- SmallReadings
  Scale = 2
  Unknown = Unknown
  NoElse = NoElse
  Completed = Completed
  Idle = Idle
  NoValue = NoValue
  Rejected = Rejected
  NoSource = NoSource
  Programs <- HandMade
  ComputedBodies <- AllBodies
  ComputedSizes <- AllSizes
  Bodies <- KnownBodies
  Size <- KnownSizes
  Sources <- Texts
  box = box
  go = go
  stay = stay
INVARIANTS AnswersAsWritten BackEndsAgree
PROPERTIES ImplementsStructured SignalledProgramsComplete
