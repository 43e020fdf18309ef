SPECIFICATION CompiledSpec
CONSTANTS
  place = place
  probe = probe
  box = box
  again = again
  seen = seen
  put = put
  look = look
  careful = careful
  Works = {put, look}
  Params = {careful}
  NoToken = NoToken
  NoOccurrence = NoOccurrence
  NoJob = NoJob
  NoElse = NoElse
  NoValue = NoValue
  Rejected = Rejected
  NoMeaning = NoMeaning
  Documents <- MCDocuments
  Tokens <- MCTokens
  Signals <- MCSignals
  StateNames <- MCStateNames
  Stmts <- MCStmts
  StmtsOf <- MCStmtsOf
  Programs <- MCPrograms
  HostEvents = {}
  MaxQueue = 0
  MaxOccurrence = 3
  Capacity = 1
INVARIANTS LeaseAccounted CorrelationNeverFails
PROPERTIES EveryLeaseEnds BusyReported CallsAsWritten
