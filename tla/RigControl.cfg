SPECIFICATION Spec
CONSTANTS
    Runner = Runner
    Operator = Operator
    NoThread = NoThread
    NoDevice = NoDevice
    Devices = {supply, bpr}
    Outlets = {bpr}
    Threads = {Runner, Operator}
    EndWrites = 2
    FaultLocking = TRUE
    OperatorRecords = FALSE
INVARIANTS
    OneOperationPerDevice
    AtMostOneLateWrite
    EndStateReached
    ControlHeldByLiveRun
    SourcesBeforeOutlets
