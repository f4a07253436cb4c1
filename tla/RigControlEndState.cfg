SPECIFICATION Spec
CONSTANTS
    Runner = Runner
    Operator = Operator
    NoThread = NoThread
    NoDevice = NoDevice
    Devices = {bpr}
    Outlets = {bpr}
    Threads = {Runner, Operator}
    EndWrites = 1
    FaultLocking = FALSE
    OperatorRecords = FALSE
INVARIANT
    EveryEndLeavesEndState
