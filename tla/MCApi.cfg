SPECIFICATION FairSpec
CONSTANTS
    CONFIRMATIONS = 1
    MinScale = 0
    InitialScale = 1
    MaxScale = 1
    Totals = {1, 2}
    Secrets = {s}
    MaxChannels = 2
    MaxCallers = 2
    CoopTimeout = 1
    Scenarios <- MCScenarios
    s = s
INVARIANTS ViewIsChain PreconditionsHold
  
CHECK_DEADLOCK FALSE
