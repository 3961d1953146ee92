SPECIFICATION Spec
CONSTANTS
    c1 = c1
    nobody = nobody
    Conn = {c1}
    Nobody = nobody
    ProcessId <- MCProcess
    BootOrder <- MCBootOrder
    ShutdownOrder <- MCShutdown
    Envelope <- MCTiers
    Trigger = {}
    Limit <- MCLimit1
    MaxStarts = 4
    WordBits = 4
    MaxCalls = 4
CHECK_DEADLOCK FALSE
INVARIANT MaxConcurrentKept
