CONSTANTS
    Codes <- MCCodes
    HeaderVals = {none, json}
    NoHeader = none
    ErrHeader = errHeader
    Chunks = {a, b}
    TimeoutMsg = timeoutMsg
    PanicMsg = panicMsg
    MaxWrites = 2
    Getters = {g1, g2}
SPECIFICATION TimedSpec
INVARIANTS TypeOK BufferIsNotShared AnswerIsWhole ResultHasOneOwner ResultIsWhatFnDid
PROPERTIES TimeoutIsFinal ImplementsContract RequestAnswered NoWorkerLeak EveryWaitEnds
CHECK_DEADLOCK FALSE
