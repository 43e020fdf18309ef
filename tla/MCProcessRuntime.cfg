SPECIFICATION MonitoredSpec
CONSTANTS
  place = place
  probe = probe
  box = box
  admitting = admitting
  again = again
  put = put
  look = look
  careful = careful
  Works = {put, look}
  Params = {careful}
  NoToken = NoToken
  NoOccurrence = NoOccurrence
  Tokens <- MCTokens
  Signals <- MCSignals
  StateNames <- MCStateNames
  Stmts <- MCStmts
  Programs <- MCPrograms
  HostEvents = {"admitted", "completed", "busy"}
  MaxOccurrence = 3
  MaxQueue = 2
INVARIANTS TypeOK LeaseInv
PROPERTIES NoReactionAfterEnd ImplementsTokenLease EdgesAlternate
