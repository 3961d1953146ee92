SPECIFICATION CkSpec
CONSTANTS
    n1 = n1
    n2 = n2
    x1 = x1
    NodeId = {n1, n2}
    Executor = {x1}
    MaxParallel = 2
INVARIANTS DependenciesRespected OneOwner ResultsSurvive
