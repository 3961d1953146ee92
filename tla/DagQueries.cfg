SPECIFICATION QuerySpec
CONSTANTS
    n1 = n1
    n2 = n2
    n3 = n3
    NodeId = {n1, n2, n3}
    MaxDeps = 3
CHECK_DEADLOCK FALSE
INVARIANTS VerdictExact SortedIsTopological AnswersAgree
PROPERTIES EveryStepAdvances BothReturn
