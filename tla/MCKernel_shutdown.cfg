SPECIFICATION FairSpec
CONSTANTS
    c1 = c1
    nobody = nobody
    Conn = {c1}
    Nobody = nobody
    ProcessId <- MCProcess
    BootOrder <- MCBootOrder
    ShutdownOrder <- MCShutdown
    Envelope <- MCEnvelope
    Trigger <- MCTrigger
    Limit <- MCLimit
    MaxStarts = 1
    WordBits = 4
    MaxCalls = 1
CHECK_DEADLOCK FALSE
PROPERTY ServeReturns
